------------------------------- MODULE CacheMap -------------------------------
(***************************************************************************)
(* The cache of directory lists: CacheFilesDirectoriesList over             *)
(* cachemap.CacheOperation, and the operations that change a directory on   *)
(* the server and then drop its list from the cache.  One operation ("op")  *)
(* and one key of it are modelled: the map of pools, the pools made for the *)
(* operation, and what each has under the key.  Each call of sync.Map is    *)
(* atomic and nothing holds between two calls.                              *)
(*                                                                          *)
(* A list is the number of changes the directory had when it was read.      *)
(***************************************************************************)
EXTENDS Naturals, FiniteSets

CONSTANTS
  Callers,    \* goroutines that use the client
  MaxChanges  \* bound on the changes of the directory

ASSUME CacheMapAssumption == IsFiniteSet(Callers) /\ MaxChanges \in Nat

VARIABLES
  server,  \* the directory on the server
  done,    \* changes whose call has returned to its caller
  pools,   \* number of pools made
  pool,    \* the pool in the map; 0: none yet
  entry,   \* pool -> what it has under the key
  call     \* caller -> the call it is in, Outside when it is in none

vars == <<server, done, pools, pool, entry, call>>

Changes == 1..MaxChanges
Lists == 0..MaxChanges
PoolIds == 0..Cardinality(Callers)
Stages == {"outside", "readInit", "readMake", "read", "readDrop", "fetch", "store", "hit",
           "changeInit", "changeMake", "change", "changeDrop", "delete"}

\* "passed" (history): the changes that dropped the cached list while this one was
\* in the hands of a caller, fetched and not stored yet.
Entries == [here : BOOLEAN, old : BOOLEAN, list : Lists, passed : SUBSET Changes]
Nothing == [here |-> FALSE, old |-> FALSE, list |-> 0, passed |-> {}]

\* "value": the list read, or the change made.  "since" (history): the changes
\* that were done when the call began.
Calls == [at : Stages, pool : PoolIds, value : Lists,
          since : SUBSET Changes, passed : SUBSET Changes]
Outside == [at |-> "outside", pool |-> 0, value |-> 0, since |-> {}, passed |-> {}]

Init ==
  /\ server = 0 /\ done = {} /\ pools = 0 /\ pool = 0
  /\ entry = [i \in PoolIds |-> Nothing]
  /\ call = [c \in Callers |-> Outside]

At(c, stage) == call[c].at = stage
Go(c, stage) == call' = [call EXCEPT ![c].at = stage]
Return(c) == call' = [call EXCEPT ![c] = Outside]

----------------------------------------------------------------------------
(* LazyInitCachePoolOp: a Load, and when it finds nothing, a Store of a new pool. *)

LazyInit(c, from, make, ready) ==
  /\ At(c, from)
  /\ IF pool = 0 THEN Go(c, make)
                 ELSE call' = [call EXCEPT ![c].at = ready, ![c].pool = pool]
  /\ UNCHANGED <<server, done, pools, pool, entry>>

\* Mutant: the pool is stored and not returned.
MakeUnreturned(c, from, ready) ==
  /\ At(c, from) /\ Go(c, ready)
  /\ pools' = pools + 1 /\ pool' = pools'
  /\ UNCHANGED <<server, done, entry>>

Make(c, from, ready) ==
  /\ At(c, from)
  /\ pools' = pools + 1 /\ pool' = pools'
  /\ call' = [call EXCEPT ![c].at = ready, ![c].pool = pools']
  /\ UNCHANGED <<server, done, entry>>

(* cacheUnit.Load: an expired entry is dropped by a call of its own, *)
(* whatever the pool has under the key by then.                      *)
Found(c) == entry[call[c].pool]
Fresh(c) == Found(c).here /\ ~Found(c).old
Old(c) == Found(c).here /\ Found(c).old
Drop(c) == entry' = [entry EXCEPT ![call[c].pool] = Nothing]

----------------------------------------------------------------------------
(* CacheOperation *)

Begin(c) ==
  /\ At(c, "outside")
  /\ call' = [call EXCEPT ![c].at = "readInit", ![c].since = done]
  /\ UNCHANGED <<server, done, pools, pool, entry>>

\* What was done before the call no longer matters: the list will be read anew.
Miss(c, stage) == call' = [call EXCEPT ![c].at = stage, ![c].since = {}]

Read(c) ==
  /\ At(c, "read")
  /\ \/ /\ Fresh(c)
        /\ call' = [call EXCEPT ![c].at = "hit", ![c].value = Found(c).list,
                               ![c].passed = Found(c).passed]
     \/ Old(c) /\ Miss(c, "readDrop")
     \/ ~Found(c).here /\ Miss(c, "fetch")
  /\ UNCHANGED <<server, done, pools, pool, entry>>

ReadDrop(c) ==
  /\ At(c, "readDrop") /\ Go(c, "fetch") /\ Drop(c)
  /\ UNCHANGED <<server, done, pools, pool>>

\* The list is read from the server, or an error is returned and nothing stored.
Fetch(c) ==
  /\ At(c, "fetch")
  /\ \/ call' = [call EXCEPT ![c].at = "store", ![c].value = server]
     \/ Return(c)
  /\ UNCHANGED <<server, done, pools, pool, entry>>

\* A list that has expired by now is returned and not stored.
Store(c) ==
  /\ At(c, "store") /\ Return(c)
  /\ \/ entry' = [entry EXCEPT ![call[c].pool] =
           [here |-> TRUE, old |-> FALSE, list |-> call[c].value, passed |-> call[c].passed]]
     \/ UNCHANGED entry
  /\ UNCHANGED <<server, done, pools, pool>>

Hit(c) ==
  /\ At(c, "hit") /\ Return(c)
  /\ UNCHANGED <<server, done, pools, pool, entry>>

----------------------------------------------------------------------------
(* Remove, Mkdir, Copy, Move, Rename, RapidUpload, Upload, UploadCreateSuperFile: *)
(* a request, and deleteCache when its answer is not an error.                    *)

\* The answer may get lost after the server has made the change.
Change(c) ==
  /\ At(c, "outside") /\ server < MaxChanges
  /\ server' = server + 1
  /\ \/ call' = [call EXCEPT ![c].at = "changeInit", ![c].value = server']
     \/ UNCHANGED call
  /\ UNCHANGED <<done, pools, pool, entry>>

\* The call returns; the lists without the change that other callers have
\* fetched and not stored yet were not dropped.
Changed(c) ==
  /\ done' = done \cup {call[c].value}
  /\ call' = [d \in Callers |->
       IF d = c THEN Outside
       ELSE IF At(d, "store") /\ call[d].value < call[c].value THEN [call[d] EXCEPT !.passed = @ \cup {call[c].value}]
       ELSE call[d]]

\* Mutant: the list is looked up and left where it is.
LookOnly(c) ==
  /\ At(c, "change") /\ Changed(c)
  /\ UNCHANGED <<server, pools, pool, entry>>

\* deleteCache: Load, and Delete of what it finds.
Look(c) ==
  /\ At(c, "change")
  /\ \/ Fresh(c) /\ Go(c, "delete") /\ UNCHANGED done
     \/ Old(c) /\ Go(c, "changeDrop") /\ UNCHANGED done
     \/ ~Found(c).here /\ Changed(c)
  /\ UNCHANGED <<server, pools, pool, entry>>

Delete(c) ==
  /\ At(c, "delete") \/ At(c, "changeDrop")
  /\ Drop(c) /\ Changed(c)
  /\ UNCHANGED <<server, pools, pool>>

----------------------------------------------------------------------------
\* The minute of an entry is over.
Expire(i) ==
  /\ entry[i].here /\ ~entry[i].old
  /\ entry' = [entry EXCEPT ![i].old = TRUE]
  /\ UNCHANGED <<server, done, pools, pool, call>>

CacheOperation(c) ==
  \/ Begin(c)
  \/ LazyInit(c, "readInit", "readMake", "read") \/ Make(c, "readMake", "read")
  \/ Read(c) \/ ReadDrop(c) \/ Fetch(c) \/ Store(c) \/ Hit(c)

DeleteCache(c) ==
  \/ LazyInit(c, "changeInit", "changeMake", "change") \/ Make(c, "changeMake", "change")
  \/ Look(c) \/ Delete(c)

Next ==
  \/ \E c \in Callers : CacheOperation(c) \/ Change(c) \/ DeleteCache(c)
  \/ \E i \in PoolIds : Expire(i)

Spec == Init /\ [][Next]_vars

----------------------------------------------------------------------------
(* Properties *)

\* Type invariant; lists are only kept in pools that were made, and the pool of
\* a caller that has left LazyInitCachePoolOp is one of them.
TypeOK ==
  /\ server \in Lists /\ done \subseteq Changes
  /\ pools \in PoolIds /\ pool \in 0..pools
  /\ entry \in [PoolIds -> Entries]
  /\ call \in [Callers -> Calls]
  /\ \A i \in PoolIds : entry[i].here => i \in 1..pools
  /\ \A c \in Callers :
       call[c].at \in {"read", "readDrop", "fetch", "store", "change", "changeDrop", "delete"}
         => call[c].pool \in 1..pools

\* A list from the cache has every change whose call had returned before the
\* read began, except those that dropped the cached list while another caller
\* had this one in its hands, fetched and not stored yet.  Neither two callers
\* that make the pool at once, nor an entry that expires, nor the delete of an
\* expired entry that has been replaced leads to a stale list.
StaleOnlyByOverlap ==
  \A c \in Callers : At(c, "hit") =>
    \A w \in call[c].since : call[c].value >= w \/ w \in call[c].passed
===============================================================================
