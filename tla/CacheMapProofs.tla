---------------------------- MODULE CacheMapProofs ----------------------------
(***************************************************************************)
(* For any number of callers and changes: a list from the cache is stale    *)
(* only when somebody had it in hand while it was dropped.  The argument is *)
(* about pools.  The pool in the map is always the one made last, and a     *)
(* caller holds on to the pool it once got.  A change is made before its    *)
(* caller asks for a pool, so whatever is stored in a later pool has been   *)
(* fetched with the change in it; from its own pool the caller drops the    *)
(* list.  So no pool that can still be handed out has a list without the    *)
(* change, once the caller is done.                                         *)
(***************************************************************************)
EXTENDS CacheMap, FiniteSetTheorems, TLAPS

ReadStages == {"readInit", "readMake", "read"}
ChangeStages == {"changeInit", "changeMake", "change", "changeDrop", "delete"}
Makers == {c \in Callers : call[c].at \in {"readMake", "changeMake"}}

\* The map holds the pool made last; every caller makes at most one.
LastPool == pool = pools /\ pools + Cardinality(Makers) <= Cardinality(Callers)

\* What is done was made, and a caller that looks for its list has made its change.
DoneIsMade ==
  /\ \A w \in done : w <= server
  /\ \A c \in Callers : call[c].since \subseteq done
  /\ \A c \in Callers : call[c].at \in ChangeStages =>
       call[c].value \in Changes /\ call[c].value <= server

\* List l, which changes p passed by, is not stale for change w.
Knows(l, p, w) == l >= w \/ w \in p

\* Every list pool i has, or is about to get, knows change w ...
PoolKnows(i, w) ==
  /\ entry[i].here => Knows(entry[i].list, entry[i].passed, w)
  /\ \A c \in Callers : At(c, "store") /\ call[c].pool = i => Knows(call[c].value, call[c].passed, w)

\* ... and has it, by itself.
PoolHas(i, w) ==
  /\ entry[i].here => entry[i].list >= w
  /\ \A c \in Callers : At(c, "store") /\ call[c].pool = i => call[c].value >= w

\* The pools that may still be handed out know what is done.
LatestKnow == \A w \in done : \A i \in PoolIds : i >= pools => PoolKnows(i, w)

\* The pools made after the one of a caller have its change.
LaterHave ==
  \A c \in Callers : call[c].at \in {"change", "changeDrop", "delete"} =>
    \A i \in PoolIds : i > call[c].pool => PoolHas(i, call[c].value)

\* A reader's pool knows what was done when its call began; past a miss, that is nothing.
ReadersKnow ==
  \A c \in Callers :
    /\ At(c, "read") => \A w \in call[c].since : PoolKnows(call[c].pool, w)
    /\ At(c, "hit") => \A w \in call[c].since : Knows(call[c].value, call[c].passed, w)

IInv == TypeOK /\ LastPool /\ DoneIsMade /\ LatestKnow /\ LaterHave /\ ReadersKnow

-------------------------------------------------------------------------------
LEMMA Counts == Cardinality(Callers) \in Nat /\ MaxChanges \in Nat
BY CacheMapAssumption, FS_CardinalityType

LEMMA OutsideIsCall == Outside \in Calls /\ Outside.at = "outside"
BY Counts DEF Outside, Calls, Stages, PoolIds, Lists, Changes

LEMMA NothingIsEntry == Nothing \in Entries /\ ~Nothing.here
BY Counts DEF Nothing, Entries, Lists

\* The parts of TypeOK, and of the records.
LEMMA Types ==
  ASSUME TypeOK
  PROVE  /\ server \in Nat /\ server \in Lists /\ done \subseteq Changes
         /\ pools \in Nat /\ pools \in PoolIds /\ pool \in 0..pools
         /\ entry \in [PoolIds -> Entries] /\ call \in [Callers -> Calls]
         /\ \A i \in PoolIds : entry[i].here => i \in 1..pools
         /\ \A c \in Callers :
              call[c].at \in {"read", "readDrop", "fetch", "store", "change", "changeDrop", "delete"}
                => call[c].pool \in 1..pools
         /\ \A c \in Callers : call[c].at \in Stages /\ call[c].pool \in PoolIds /\ call[c].value \in Lists
                /\ call[c].since \in SUBSET Changes /\ call[c].passed \in SUBSET Changes
         /\ \A i \in PoolIds : entry[i].here \in BOOLEAN /\ entry[i].old \in BOOLEAN
                /\ entry[i].list \in Lists /\ entry[i].passed \in SUBSET Changes
         /\ \A i \in PoolIds : i \in Nat
BY Counts DEF TypeOK, PoolIds, Lists, Calls, Entries

-------------------------------------------------------------------------------
(* What a step does, one variable at a time. *)

\* The calls of everybody but c stay.
OthersStay(c) == \A d \in Callers \ {c} : call'[d] = call[d]

\* Caller c goes on to a stage, with the rest of its call.
LEMMA Goes ==
  ASSUME TypeOK, NEW c \in Callers, NEW stage \in Stages, Go(c, stage)
  PROVE  /\ call' \in [Callers -> Calls] /\ OthersStay(c)
         /\ call'[c].at = stage /\ call'[c].pool = call[c].pool /\ call'[c].value = call[c].value
         /\ call'[c].since = call[c].since /\ call'[c].passed = call[c].passed
<1>1. call \in [Callers -> Calls]
  BY DEF TypeOK
<1> QED BY <1>1 DEF Go, OthersStay, Calls

LEMMA Returns ==
  ASSUME TypeOK, NEW c \in Callers, Return(c)
  PROVE  call' \in [Callers -> Calls] /\ OthersStay(c) /\ call'[c] = Outside
<1>1. call \in [Callers -> Calls]
  BY DEF TypeOK
<1> QED BY <1>1, OutsideIsCall DEF Return, OthersStay

\* LazyInitCachePoolOp gives c the pool made last.
GotPool(c, from, ready) ==
  /\ At(c, from) /\ OthersStay(c)
  /\ call'[c].at = ready /\ call'[c].pool = pools' /\ call'[c].value = call[c].value
  /\ call'[c].since = call[c].since /\ call'[c].passed = call[c].passed

LEMMA LazyInitEffect ==
  ASSUME TypeOK, pool = pools, NEW c \in Callers, NEW from \in Stages, NEW make \in Stages,
         NEW ready \in Stages, LazyInit(c, from, make, ready)
  PROVE  /\ call' \in [Callers -> Calls]
         /\ pools' = pools /\ pool' = pool /\ entry' = entry /\ server' = server /\ done' = done
         /\ \/ pool = 0 /\ At(c, from) /\ Go(c, make)
            \/ pools > 0 /\ GotPool(c, from, ready)
<1>1. call \in [Callers -> Calls] /\ pools \in PoolIds /\ pools \in Nat
  BY Types
<1>2. CASE pool = 0
  BY <1>2, Goes DEF LazyInit
<1>3. CASE pool # 0
  <2>1. call' = [call EXCEPT ![c] = [call[c] EXCEPT !.at = ready, !.pool = pool]]
    BY <1>3 DEF LazyInit
  <2> QED BY <1>1, <1>3, <2>1 DEF LazyInit, GotPool, OthersStay, Calls
<1> QED BY <1>2, <1>3

LEMMA MakeEffect ==
  ASSUME TypeOK, pools + 1 \in PoolIds, NEW c \in Callers, NEW from \in Stages, NEW ready \in Stages,
         Make(c, from, ready)
  PROVE  /\ call' \in [Callers -> Calls]
         /\ pools' = pools + 1 /\ pool' = pools' /\ entry' = entry /\ server' = server /\ done' = done
         /\ GotPool(c, from, ready)
<1>1. call \in [Callers -> Calls]
  BY Types
<1>2. call' = [call EXCEPT ![c] = [call[c] EXCEPT !.at = ready, !.pool = pools']]
  BY DEF Make
<1> QED BY <1>1, <1>2 DEF Make, GotPool, OthersStay, Calls

\* deleteCache has returned to c.
LEMMA ChangedEffect ==
  ASSUME TypeOK, NEW c \in Callers, call[c].value \in Changes, Changed(c)
  PROVE  /\ call' \in [Callers -> Calls] /\ call'[c] = Outside
         /\ done' = done \cup {call[c].value}
         /\ \A d \in Callers \ {c} :
              /\ call'[d].at = call[d].at /\ call'[d].pool = call[d].pool
              /\ call'[d].value = call[d].value /\ call'[d].since = call[d].since
              /\ call[d].passed \subseteq call'[d].passed
              /\ At(d, "store") /\ call[d].value < call[c].value => call[c].value \in call'[d].passed
<1> DEFINE w == call[c].value
           New(d) == [call[d] EXCEPT !.passed = @ \cup {w}]
<1>1. call \in [Callers -> Calls] /\ w \in Changes
  BY Types
<1>2. \A d \in Callers : New(d) \in Calls
  BY <1>1 DEF Calls
<1>3. \A d \in Callers \ {c} :
        call'[d] = IF At(d, "store") /\ call[d].value < w THEN New(d) ELSE call[d]
  BY DEF Changed
<1>4. call'[c] = Outside
  BY DEF Changed
<1>5. DOMAIN call' = Callers /\ call' = [d \in Callers |-> call'[d]]
  BY DEF Changed
<1>6. \A d \in Callers : call'[d] \in Calls
  BY <1>1, <1>2, <1>3, <1>4, OutsideIsCall
<1>7. call' \in [Callers -> Calls]
  BY <1>5, <1>6
<1>8. \A d \in Callers : /\ New(d).at = call[d].at /\ New(d).pool = call[d].pool
                         /\ New(d).value = call[d].value /\ New(d).since = call[d].since
                         /\ New(d).passed = call[d].passed \cup {w}
  BY <1>1 DEF Calls
<1>9. done' = done \cup {w}
  BY DEF Changed
<1> HIDE DEF New
<1> QED BY <1>3, <1>4, <1>7, <1>8, <1>9

-------------------------------------------------------------------------------
(* What any step does to the call of a caller, to a pool and to what is done. *)

Looking == {"change", "changeDrop", "delete"}

InHandFrom(d) ==
  At(d, "store")' =>
    \/ /\ At(d, "store") /\ call'[d].pool = call[d].pool /\ call'[d].value = call[d].value
       /\ call[d].passed \subseteq call'[d].passed
    \/ At(d, "fetch") /\ call'[d].pool = call[d].pool /\ call'[d].value = server

ReadFrom(d) ==
  At(d, "read")' =>
    /\ call'[d].since = call[d].since
    /\ \/ At(d, "read") /\ call'[d].pool = call[d].pool
       \/ call'[d].pool = pools'

HitFrom(d) ==
  At(d, "hit")' =>
    /\ call'[d].since = call[d].since
    /\ \/ At(d, "hit") /\ call'[d].value = call[d].value /\ call[d].passed \subseteq call'[d].passed
       \/ /\ At(d, "read") /\ Found(d).here
          /\ call'[d].value = Found(d).list /\ call'[d].passed = Found(d).passed

LookFrom(d) ==
  call'[d].at \in Looking =>
    \/ call[d].at \in Looking /\ call'[d].pool = call[d].pool /\ call'[d].value = call[d].value
    \/ call'[d].pool = pools'

MadeFrom(d) ==
  call'[d].at \in ChangeStages =>
    \/ call[d].at \in ChangeStages /\ call'[d].value = call[d].value
    \/ call'[d].value = server' /\ call'[d].value \in Changes

MakerFrom(d) ==
  call'[d].at \in {"readMake", "changeMake"} => call[d].at \in {"readMake", "changeMake"} \/ pools' = 0

SinceFrom(d) ==
  call'[d].since = call[d].since \/ call'[d].since = {} \/ call'[d].since = done

CallShape(d) ==
  /\ InHandFrom(d) /\ ReadFrom(d) /\ HitFrom(d) /\ LookFrom(d) /\ MadeFrom(d)
  /\ MakerFrom(d) /\ SinceFrom(d)

ListFrom(i) ==
  entry'[i].here =>
    \/ entry[i].here /\ entry'[i].list = entry[i].list /\ entry'[i].passed = entry[i].passed
    \/ \E d \in Callers : /\ At(d, "store") /\ call[d].pool = i
                          /\ entry'[i].list = call[d].value /\ entry'[i].passed = call[d].passed

JustDone(c) ==
  /\ call[c].at \in Looking /\ done' = done \cup {call[c].value}
  /\ ~entry'[call[c].pool].here
  /\ \A d \in Callers : At(d, "store")' /\ call[d].value < call[c].value => call[c].value \in call'[d].passed

Shape ==
  /\ \A d \in Callers : CallShape(d)
  /\ \A i \in PoolIds : ListFrom(i)
  /\ done' = done \/ \E c \in Callers : JustDone(c)
  /\ server' \in {server, server + 1}
  /\ \/ pools' = pools /\ pool' = pool
     \/ pools' = pools + 1 /\ pool' = pools' /\ \E c \in Makers : c \notin Makers'

\* Whoever stays where he is has the shape of a step.
LEMMA StayShape ==
  ASSUME TypeOK, NEW d \in Callers,
         call'[d].at = call[d].at, call'[d].pool = call[d].pool, call'[d].value = call[d].value,
         call'[d].since = call[d].since, call[d].passed \subseteq call'[d].passed
  PROVE  CallShape(d)
BY DEF CallShape, InHandFrom, ReadFrom, HitFrom, LookFrom, MadeFrom, MakerFrom, SinceFrom, At, Looking, ChangeStages

LEMMA OthersShape ==
  ASSUME TypeOK, NEW c \in Callers, OthersStay(c), CallShape(c)
  PROVE  \A d \in Callers : CallShape(d)
<1> TAKE d \in Callers
<1>1. CASE d # c
  BY <1>1, StayShape DEF OthersStay
<1> QED BY <1>1

LEMMA SamePools == entry' = entry => \A i \in PoolIds : ListFrom(i)
BY DEF ListFrom

\* The stages that use a pool.
Using == {"read", "readDrop", "fetch", "store", "change", "changeDrop", "delete"}

LEMMA OneCallTypes ==
  ASSUME TypeOK, NEW c \in Callers, call' \in [Callers -> Calls], OthersStay(c),
         call'[c].at \in Using => call'[c].pool \in 1..pools',
         server' \in Lists, done' = done, entry' \in [PoolIds -> Entries],
         \A i \in PoolIds : entry'[i].here => entry[i].here \/ i \in 1..pools',
         pools' \in PoolIds, pools' >= pools, pool' \in 0..pools'
  PROVE  TypeOK'
<1>1. \A i \in PoolIds : entry'[i].here => i \in 1..pools'
  BY Types
<1>2. \A d \in Callers : call'[d].at \in Using => call'[d].pool \in 1..pools'
  <2> TAKE d \in Callers
  <2>1. CASE d # c
    BY <2>1, Types DEF OthersStay, Using
  <2> QED BY <2>1
<1>3. done' \subseteq Changes
  BY Types
<1> QED BY <1>1, <1>2, <1>3 DEF TypeOK, Using

-------------------------------------------------------------------------------
(* Every step has that shape, and keeps the types. *)

Good == TypeOK /\ LastPool /\ DoneIsMade
Sound == TypeOK' /\ Shape

\* Somebody about to make a pool is counted, so there is room for one more.
LEMMA RoomForMaker ==
  ASSUME Good, NEW c \in Callers, call[c].at \in {"readMake", "changeMake"}
  PROVE  pools + 1 \in PoolIds
<1>1. IsFiniteSet(Makers) /\ Makers # {}
  BY CacheMapAssumption, FS_Subset DEF Makers
<1>2. Cardinality(Makers) \in Nat /\ Cardinality(Makers) # 0
  BY <1>1, FS_CardinalityType, FS_EmptySet
<1> QED BY <1>2, Counts, Types DEF Good, LastPool, PoolIds

LEMMA LazyInitSound ==
  ASSUME Good, NEW c \in Callers, NEW from \in Stages, NEW make \in Stages, NEW ready \in Stages,
         \/ from = "readInit" /\ make = "readMake" /\ ready = "read"
         \/ from = "changeInit" /\ make = "changeMake" /\ ready = "change",
         LazyInit(c, from, make, ready)
  PROVE  Sound
<1>1. \/ from = "readInit" /\ make = "readMake" /\ ready = "read"
      \/ from = "changeInit" /\ make = "changeMake" /\ ready = "change"
  OBVIOUS
<1>2. /\ call' \in [Callers -> Calls]
      /\ pools' = pools /\ pool' = pool /\ entry' = entry /\ server' = server /\ done' = done
      /\ \/ pools = 0 /\ At(c, from) /\ Go(c, make)
         \/ pools > 0 /\ GotPool(c, from, ready)
  BY LazyInitEffect DEF Good, LastPool
<1>3. CASE pools' = 0 /\ Go(c, make) /\ At(c, from)
  <2>1. /\ OthersStay(c) /\ call'[c].at = make /\ call'[c].value = call[c].value
        /\ call'[c].since = call[c].since
    BY <1>3, Goes DEF Good
  <2>2. CallShape(c)
    BY <1>1, <1>2, <1>3, <2>1
    DEF At, CallShape, InHandFrom, ReadFrom, HitFrom, LookFrom, MadeFrom, MakerFrom, SinceFrom, Looking, ChangeStages
  <2>3. call'[c].at \notin Using
    BY <1>1, <2>1 DEF Using
  <2>4. TypeOK'
    BY <1>2, <2>1, <2>3, OneCallTypes, Types DEF Good
  <2>5. \A d \in Callers : CallShape(d)
    BY <2>1, <2>2, OthersShape DEF Good
  <2> QED BY <1>2, <2>4, <2>5, SamePools DEF Sound, Shape
<1>4. CASE pools > 0 /\ GotPool(c, from, ready)
  <2>1. OthersStay(c)
    BY <1>4 DEF GotPool
  <2>2. CallShape(c)
    BY <1>1, <1>4
    DEF GotPool, At, CallShape, InHandFrom, ReadFrom, HitFrom, LookFrom, MadeFrom, MakerFrom, SinceFrom, Looking, ChangeStages
  <2>3. call'[c].pool \in 1..pools'
    BY <1>2, <1>4, Types DEF GotPool, Good
  <2>4. TypeOK'
    BY <1>2, <2>1, <2>3, OneCallTypes, Types DEF Good
  <2>5. \A d \in Callers : CallShape(d)
    BY <2>1, <2>2, OthersShape DEF Good
  <2> QED BY <1>2, <2>4, <2>5, SamePools DEF Sound, Shape
<1> QED BY <1>2, <1>3, <1>4

LEMMA MakeSound ==
  ASSUME Good, NEW c \in Callers, NEW from \in Stages, NEW ready \in Stages,
         \/ from = "readMake" /\ ready = "read"
         \/ from = "changeMake" /\ ready = "change",
         Make(c, from, ready)
  PROVE  Sound
<1>1. \/ from = "readMake" /\ ready = "read"
      \/ from = "changeMake" /\ ready = "change"
  OBVIOUS
<1>2. pools + 1 \in PoolIds
  BY <1>1, RoomForMaker DEF Make, At
<1>3. /\ call' \in [Callers -> Calls]
      /\ pools' = pools + 1 /\ pool' = pools' /\ entry' = entry /\ server' = server /\ done' = done
      /\ GotPool(c, from, ready)
  BY <1>1, <1>2, MakeEffect DEF Good
<1>4. OthersStay(c)
  BY <1>3 DEF GotPool
<1>5. CallShape(c)
  BY <1>1, <1>3
  DEF GotPool, At, CallShape, InHandFrom, ReadFrom, HitFrom, LookFrom, MadeFrom, MakerFrom, SinceFrom, Looking, ChangeStages
<1>6. call'[c].pool \in 1..pools' /\ pools' >= pools /\ pool' \in 0..pools'
  BY <1>3, Types DEF GotPool, Good
<1>7. TypeOK'
  BY <1>2, <1>3, <1>4, <1>6, OneCallTypes, Types DEF Good
<1>8. \A d \in Callers : CallShape(d)
  BY <1>4, <1>5, OthersShape DEF Good
<1>9. c \in Makers /\ c \notin Makers'
  BY <1>1, <1>3 DEF GotPool, At, Makers
<1> QED BY <1>3, <1>7, <1>8, <1>9, SamePools DEF Sound, Shape

\* Steps of one caller that only change its call, without a pool.
LEMMA SimpleSound ==
  ASSUME Good, NEW c \in Callers, call' \in [Callers -> Calls], OthersStay(c), CallShape(c),
         call'[c].at \in Using => call'[c].pool \in 1..pools,
         server' \in Lists, server' \in {server, server + 1}, done' = done,
         entry' \in [PoolIds -> Entries], \A i \in PoolIds : entry'[i].here => entry[i].here \/ i \in 1..pools,
         \A i \in PoolIds : ListFrom(i), pools' = pools, pool' = pool
  PROVE  Sound
<1>1. TypeOK'
  BY OneCallTypes, Types DEF Good
<1>2. \A d \in Callers : CallShape(d)
  BY OthersShape DEF Good
<1> QED BY <1>1, <1>2 DEF Sound, Shape

LEMMA BeginSound == ASSUME Good, NEW c \in Callers, Begin(c) PROVE Sound
<1>t. call \in [Callers -> Calls] /\ done \subseteq Changes /\ entry \in [PoolIds -> Entries] /\ server \in Lists
  BY Types DEF Good
<1>1. call' = [call EXCEPT ![c] = [call[c] EXCEPT !.at = "readInit", !.since = done]]
  BY DEF Begin
<1>2. /\ call' \in [Callers -> Calls] /\ OthersStay(c)
      /\ call'[c].at = "readInit" /\ call'[c].since = done
  BY <1>t, <1>1 DEF OthersStay, Calls, Stages
<1>3. CallShape(c)
  BY <1>2
  DEF At, CallShape, InHandFrom, ReadFrom, HitFrom, LookFrom, MadeFrom, MakerFrom, SinceFrom, Looking, ChangeStages
<1>4. call'[c].at \notin Using
  BY <1>2 DEF Using
<1> QED BY <1>t, <1>2, <1>3, <1>4, SimpleSound, SamePools DEF Begin

LEMMA ReadSound == ASSUME Good, NEW c \in Callers, Read(c) PROVE Sound
<1>t. /\ call \in [Callers -> Calls] /\ entry \in [PoolIds -> Entries] /\ server \in Lists
      /\ call[c].pool \in PoolIds /\ call[c].pool \in 1..pools
  BY Types DEF Good, Read, At
<1>e. Found(c) \in Entries
  BY <1>t DEF Found
<1>1. CASE /\ Fresh(c)
           /\ call' = [call EXCEPT ![c].at = "hit", ![c].value = Found(c).list, ![c].passed = Found(c).passed]
  <2>1. call' = [call EXCEPT ![c] = [call[c] EXCEPT !.at = "hit", !.value = Found(c).list, !.passed = Found(c).passed]]
    BY <1>1
  <2>2. /\ call' \in [Callers -> Calls] /\ OthersStay(c)
        /\ call'[c].at = "hit" /\ call'[c].since = call[c].since
        /\ call'[c].value = Found(c).list /\ call'[c].passed = Found(c).passed
    BY <1>t, <1>e, <2>1 DEF OthersStay, Calls, Stages, Entries
  <2>3. CallShape(c)
    BY <1>1, <2>2
    DEF Read, At, CallShape, InHandFrom, ReadFrom, HitFrom, LookFrom, MadeFrom, MakerFrom, SinceFrom, Looking, ChangeStages, Fresh
  <2>4. call'[c].at \notin Using
    BY <2>2 DEF Using
  <2> QED BY <1>t, <2>2, <2>3, <2>4, SimpleSound, SamePools DEF Read
<1>2. ASSUME NEW stage \in {"readDrop", "fetch"}, Miss(c, stage) PROVE Sound
  <2>1. call' = [call EXCEPT ![c] = [call[c] EXCEPT !.at = stage, !.since = {}]]
    BY <1>2 DEF Miss
  <2>2. /\ call' \in [Callers -> Calls] /\ OthersStay(c)
        /\ call'[c].at = stage /\ call'[c].since = {} /\ call'[c].pool = call[c].pool
    BY <1>t, <2>1 DEF OthersStay, Calls, Stages
  <2>3. CallShape(c)
    BY <1>2, <2>2
    DEF At, CallShape, InHandFrom, ReadFrom, HitFrom, LookFrom, MadeFrom, MakerFrom, SinceFrom, Looking, ChangeStages
  <2> QED BY <1>t, <2>2, <2>3, SimpleSound, SamePools DEF Read
<1> QED BY <1>1, <1>2 DEF Read

LEMMA ReadDropSound == ASSUME Good, NEW c \in Callers, ReadDrop(c) PROVE Sound
<1>t. /\ entry \in [PoolIds -> Entries] /\ server \in Lists
      /\ At(c, "readDrop") /\ call[c].pool \in 1..pools
  BY Types DEF Good, ReadDrop, At
<1>1. /\ call' \in [Callers -> Calls] /\ OthersStay(c) /\ call'[c].at = "fetch"
      /\ call'[c].pool = call[c].pool /\ call'[c].since = call[c].since
  BY Goes DEF Good, ReadDrop, Stages
<1>2. CallShape(c)
  BY <1>1
  DEF At, CallShape, InHandFrom, ReadFrom, HitFrom, LookFrom, MadeFrom, MakerFrom, SinceFrom, Looking, ChangeStages
<1>3. entry' \in [PoolIds -> Entries] /\ \A i \in PoolIds : entry'[i].here => entry'[i] = entry[i]
  BY <1>t, NothingIsEntry DEF ReadDrop, Drop
<1>4. \A i \in PoolIds : ListFrom(i)
  BY <1>3 DEF ListFrom
<1> QED BY <1>t, <1>1, <1>2, <1>3, <1>4, SimpleSound DEF ReadDrop

\* A caller that returns has the shape of a step.
LEMMA ReturnShape ==
  ASSUME Good, NEW c \in Callers, call'[c] = Outside
  PROVE  CallShape(c) /\ call'[c].at \notin Using
BY OutsideIsCall
DEF Outside, Using, At, CallShape, InHandFrom, ReadFrom, HitFrom, LookFrom, MadeFrom, MakerFrom, SinceFrom, Looking, ChangeStages

LEMMA FetchSound == ASSUME Good, NEW c \in Callers, Fetch(c) PROVE Sound
<1>t. /\ call \in [Callers -> Calls] /\ entry \in [PoolIds -> Entries] /\ server \in Lists
      /\ At(c, "fetch") /\ call[c].pool \in 1..pools
  BY Types DEF Good, Fetch, At
<1>1. CASE call' = [call EXCEPT ![c].at = "store", ![c].value = server]
  <2>1. call' = [call EXCEPT ![c] = [call[c] EXCEPT !.at = "store", !.value = server]]
    BY <1>1
  <2>2. /\ call' \in [Callers -> Calls] /\ OthersStay(c)
        /\ call'[c].at = "store" /\ call'[c].value = server
        /\ call'[c].pool = call[c].pool /\ call'[c].since = call[c].since
    BY <1>t, <2>1 DEF OthersStay, Calls, Stages
  <2>3. CallShape(c)
    BY <1>t, <2>2
    DEF At, CallShape, InHandFrom, ReadFrom, HitFrom, LookFrom, MadeFrom, MakerFrom, SinceFrom, Looking, ChangeStages
  <2> QED BY <1>t, <2>2, <2>3, SimpleSound, SamePools DEF Fetch
<1>2. CASE Return(c)
  <2>1. call' \in [Callers -> Calls] /\ OthersStay(c) /\ call'[c] = Outside
    BY <1>2, Returns DEF Good
  <2> QED BY <1>t, <2>1, ReturnShape, SimpleSound, SamePools DEF Fetch
<1> QED BY <1>1, <1>2 DEF Fetch

LEMMA StoreSound == ASSUME Good, NEW c \in Callers, Store(c) PROVE Sound
<1>t. /\ entry \in [PoolIds -> Entries] /\ server \in Lists
      /\ At(c, "store") /\ call[c].pool \in 1..pools /\ call[c].pool \in PoolIds
      /\ call[c].value \in Lists /\ call[c].passed \in SUBSET Changes
  BY Types DEF Good, Store, At
<1>1. call' \in [Callers -> Calls] /\ OthersStay(c) /\ call'[c] = Outside
  BY Returns DEF Good, Store
<1> DEFINE e == [here |-> TRUE, old |-> FALSE, list |-> call[c].value, passed |-> call[c].passed]
<1>2. e \in Entries /\ e.list = call[c].value /\ e.passed = call[c].passed
  BY <1>t DEF Entries
<1>3. entry' = [entry EXCEPT ![call[c].pool] = e] \/ entry' = entry
  BY DEF Store
<1> HIDE DEF e
<1>4. /\ entry' \in [PoolIds -> Entries]
      /\ \A i \in PoolIds : entry'[i] = entry[i] \/ (i = call[c].pool /\ entry'[i] = e)
  BY <1>t, <1>2, <1>3
<1>5. \A i \in PoolIds : entry'[i].here => entry[i].here \/ i \in 1..pools
  BY <1>t, <1>4
<1>6. \A i \in PoolIds : ListFrom(i)
  BY <1>t, <1>2, <1>4 DEF ListFrom
<1> QED BY <1>t, <1>1, <1>4, <1>5, <1>6, ReturnShape, SimpleSound DEF Store

LEMMA HitSound == ASSUME Good, NEW c \in Callers, Hit(c) PROVE Sound
<1>t. entry \in [PoolIds -> Entries] /\ server \in Lists
  BY Types DEF Good
<1>1. call' \in [Callers -> Calls] /\ OthersStay(c) /\ call'[c] = Outside
  BY Returns DEF Good, Hit
<1> QED BY <1>t, <1>1, ReturnShape, SimpleSound, SamePools DEF Hit

LEMMA ChangeSound == ASSUME Good, NEW c \in Callers, Change(c) PROVE Sound
<1>t. /\ call \in [Callers -> Calls] /\ entry \in [PoolIds -> Entries] /\ server \in Lists
  BY Types DEF Good
<1>s. server' \in Lists /\ server' = server + 1 /\ server' \in Changes
  BY <1>t, Counts DEF Change, Lists, Changes
<1>1. CASE call' = [call EXCEPT ![c].at = "changeInit", ![c].value = server']
  <2>1. call' = [call EXCEPT ![c] = [call[c] EXCEPT !.at = "changeInit", !.value = server']]
    BY <1>1
  <2>2. /\ call' \in [Callers -> Calls] /\ OthersStay(c)
        /\ call'[c].at = "changeInit" /\ call'[c].value = server'
        /\ call'[c].pool = call[c].pool /\ call'[c].since = call[c].since
    BY <1>t, <1>s, <2>1 DEF OthersStay, Calls, Stages
  <2>3. CallShape(c)
    BY <1>s, <2>2
    DEF At, CallShape, InHandFrom, ReadFrom, HitFrom, LookFrom, MadeFrom, MakerFrom, SinceFrom, Looking, ChangeStages
  <2>4. call'[c].at \notin Using
    BY <2>2 DEF Using
  <2> QED BY <1>t, <1>s, <2>2, <2>3, <2>4, SimpleSound, SamePools DEF Change
<1>2. CASE UNCHANGED call
  <2>1. call' \in [Callers -> Calls] /\ OthersStay(c) /\ At(c, "outside")
    BY <1>t, <1>2 DEF OthersStay, Change
  <2>2. CallShape(c)
    BY <1>2, StayShape DEF Good
  <2>3. call'[c].at \notin Using
    BY <1>2, <2>1 DEF Using, At
  <2> QED BY <1>t, <1>s, <2>1, <2>2, <2>3, SimpleSound, SamePools DEF Change
<1> QED BY <1>1, <1>2 DEF Change

\* A change whose caller finds nothing (any more) in its pool is done.
LEMMA DoneSound ==
  ASSUME Good, NEW c \in Callers, call[c].at \in Looking, call[c].value \in Changes, Changed(c),
         ~entry'[call[c].pool].here,
         entry' \in [PoolIds -> Entries], \A i \in PoolIds : entry'[i].here => entry'[i] = entry[i],
         \A i \in PoolIds : ListFrom(i), UNCHANGED <<server, pools, pool>>
  PROVE  Sound
<1>1. /\ call' \in [Callers -> Calls] /\ call'[c] = Outside
      /\ done' = done \cup {call[c].value}
      /\ \A d \in Callers \ {c} :
           /\ call'[d].at = call[d].at /\ call'[d].pool = call[d].pool
           /\ call'[d].value = call[d].value /\ call'[d].since = call[d].since
           /\ call[d].passed \subseteq call'[d].passed
           /\ At(d, "store") /\ call[d].value < call[c].value => call[c].value \in call'[d].passed
  BY ChangedEffect DEF Good
<1>2. \A d \in Callers : CallShape(d)
  <2> TAKE d \in Callers
  <2>1. CASE d = c
    BY <1>1, <2>1, ReturnShape
  <2>2. CASE d # c
    BY <1>1, <2>2, StayShape DEF Good
  <2> QED BY <2>1, <2>2
<1>3. JustDone(c)
  BY <1>1, OutsideIsCall DEF JustDone, At
<1>4. \A d \in Callers : call'[d].at \in Using => call'[d].pool \in 1..pools'
  <2> TAKE d \in Callers
  <2>1. CASE d = c
    BY <1>1, <2>1, ReturnShape
  <2>2. CASE d # c
    BY <1>1, <2>2, Types DEF Good, Using
  <2> QED BY <2>1, <2>2
<1>5. TypeOK'
  BY <1>1, <1>4, Types DEF Good, TypeOK, Using
<1> QED BY <1>2, <1>3, <1>5 DEF Sound, Shape

LEMMA LookSound == ASSUME Good, NEW c \in Callers, Look(c) PROVE Sound
<1>t. /\ entry \in [PoolIds -> Entries] /\ server \in Lists /\ At(c, "change")
      /\ call[c].pool \in 1..pools /\ call[c].pool \in PoolIds /\ call[c].value \in Changes
  BY Types DEF Good, Look, At, DoneIsMade, ChangeStages
<1>1. ASSUME NEW stage \in {"delete", "changeDrop"}, Go(c, stage), UNCHANGED done PROVE Sound
  <2>1. /\ call' \in [Callers -> Calls] /\ OthersStay(c) /\ call'[c].at = stage
        /\ call'[c].pool = call[c].pool /\ call'[c].value = call[c].value
        /\ call'[c].since = call[c].since
    BY <1>1, Goes DEF Good, Stages
  <2>2. CallShape(c)
    BY <1>t, <2>1
    DEF At, CallShape, InHandFrom, ReadFrom, HitFrom, LookFrom, MadeFrom, MakerFrom, SinceFrom, Looking, ChangeStages
  <2> QED BY <1>t, <1>1, <2>1, <2>2, SimpleSound, SamePools DEF Look
<1>2. CASE ~Found(c).here /\ Changed(c)
  <2>1. ~entry'[call[c].pool].here
    BY <1>2 DEF Look, Found
  <2> QED BY <1>t, <1>2, <2>1, DoneSound, SamePools DEF Look, At, Looking
<1> QED BY <1>1, <1>2 DEF Look

LEMMA DeleteSound == ASSUME Good, NEW c \in Callers, Delete(c) PROVE Sound
<1>t. /\ entry \in [PoolIds -> Entries] /\ call[c].at \in Looking
      /\ call[c].pool \in PoolIds /\ call[c].value \in Changes
  BY Types DEF Good, Delete, At, DoneIsMade, ChangeStages, Looking
<1>1. /\ entry' \in [PoolIds -> Entries] /\ ~entry'[call[c].pool].here
      /\ \A i \in PoolIds : entry'[i].here => entry'[i] = entry[i]
  BY <1>t, NothingIsEntry DEF Delete, Drop
<1>2. \A i \in PoolIds : ListFrom(i)
  BY <1>1 DEF ListFrom
<1> QED BY <1>t, <1>1, <1>2, DoneSound DEF Delete

LEMMA ExpireSound == ASSUME Good, NEW i \in PoolIds, Expire(i) PROVE Sound
<1>t. /\ entry \in [PoolIds -> Entries] /\ server \in Lists /\ call \in [Callers -> Calls]
  BY Types DEF Good
<1>1. entry' = [entry EXCEPT ![i] = [entry[i] EXCEPT !.old = TRUE]]
  BY DEF Expire
<1>2. /\ entry' \in [PoolIds -> Entries]
      /\ \A j \in PoolIds : /\ entry'[j].here = entry[j].here /\ entry'[j].list = entry[j].list
                            /\ entry'[j].passed = entry[j].passed
  BY <1>t, <1>1 DEF Entries
<1>3. \A j \in PoolIds : ListFrom(j)
  BY <1>2 DEF ListFrom
<1>4. \A d \in Callers : CallShape(d)
  BY StayShape DEF Good, Expire
<1>5. TypeOK'
  BY <1>t, <1>2 DEF Good, TypeOK, Expire
<1> QED BY <1>3, <1>4, <1>5 DEF Sound, Shape, Expire

LEMMA StepSound == Good /\ [Next]_vars => Sound
<1> SUFFICES ASSUME Good, [Next]_vars PROVE Sound
  OBVIOUS
<1>1. ASSUME NEW c \in Callers, CacheOperation(c) PROVE Sound
  <2>1. CASE LazyInit(c, "readInit", "readMake", "read")
    BY <2>1, LazyInitSound DEF Stages
  <2>2. CASE Make(c, "readMake", "read")
    BY <2>2, MakeSound DEF Stages
  <2> QED
    BY <1>1, <2>1, <2>2, BeginSound, ReadSound, ReadDropSound, FetchSound, StoreSound, HitSound
    DEF CacheOperation
<1>2. ASSUME NEW c \in Callers, DeleteCache(c) PROVE Sound
  <2>1. CASE LazyInit(c, "changeInit", "changeMake", "change")
    BY <2>1, LazyInitSound DEF Stages
  <2>2. CASE Make(c, "changeMake", "change")
    BY <2>2, MakeSound DEF Stages
  <2> QED BY <1>2, <2>1, <2>2, LookSound, DeleteSound DEF DeleteCache
<1>3. CASE UNCHANGED vars
  <2>1. \A d \in Callers : CallShape(d)
    BY <1>3, StayShape DEF Good, vars
  <2>2. TypeOK'
    BY <1>3 DEF Good, TypeOK, vars
  <2> QED BY <1>3, <2>1, <2>2, SamePools DEF Sound, Shape, vars
<1> QED BY <1>1, <1>2, <1>3, ChangeSound, ExpireSound DEF Next

-------------------------------------------------------------------------------
(* The invariant *)

LEMMA LastPoolStep == Good /\ Sound => LastPool'
<1> SUFFICES ASSUME Good, Sound PROVE LastPool'
  OBVIOUS
<1>f. /\ IsFiniteSet(Makers) /\ Cardinality(Makers) \in Nat
      /\ IsFiniteSet(Makers') /\ Cardinality(Makers') \in Nat /\ Cardinality(Makers') <= Cardinality(Callers)
  BY CacheMapAssumption, FS_Subset, FS_CardinalityType DEF Makers
<1>t. pools \in Nat /\ pools' \in Nat
  BY Types DEF Good, Sound, TypeOK, PoolIds
<1>1. pools' = 0 \/ Makers' \subseteq Makers
  BY DEF Sound, Shape, CallShape, MakerFrom, Makers
<1>2. CASE pools' = 0
  BY <1>2, <1>f, <1>t, Counts DEF Good, LastPool, Sound, Shape
<1>3. CASE Makers' \subseteq Makers /\ pools' = pools /\ pool' = pool
  <2>1. Cardinality(Makers') <= Cardinality(Makers)
    BY <1>3, <1>f, FS_Subset
  <2> QED BY <2>1, <1>3, <1>f, <1>t, Counts DEF Good, LastPool
<1>4. CASE Makers' \subseteq Makers /\ pools' = pools + 1 /\ pool' = pools'
           /\ \E c \in Makers : c \notin Makers'
  <2>1. Cardinality(Makers') <= Cardinality(Makers) /\ Cardinality(Makers') # Cardinality(Makers)
    BY <1>4, <1>f, FS_Subset
  <2> QED BY <2>1, <1>4, <1>f, <1>t, Counts DEF Good, LastPool
<1> QED BY <1>1, <1>2, <1>3, <1>4 DEF Sound, Shape

LEMMA DoneIsMadeStep == Good /\ Sound => DoneIsMade'
<1> SUFFICES ASSUME Good, Sound PROVE DoneIsMade'
  OBVIOUS
<1>t. server \in Nat /\ server <= server' /\ server' \in Nat
  BY Types DEF Good, Sound, Shape
<1>d. done \subseteq Changes /\ \A w \in Changes : w \in Nat
  BY Types DEF Good, Changes
<1>1. \A w \in done' : w <= server'
  <2>1. CASE done' = done
    BY <2>1, <1>t, <1>d DEF Good, DoneIsMade
  <2>2. ASSUME NEW c \in Callers, JustDone(c) PROVE \A w \in done' : w <= server'
    <3>1. call[c].value \in Changes /\ call[c].value <= server
      BY <2>2 DEF Good, DoneIsMade, JustDone, Looking, ChangeStages
    <3> QED BY <3>1, <2>2, <1>t, <1>d DEF Good, DoneIsMade, JustDone
  <2> QED BY <2>1, <2>2 DEF Sound, Shape
<1>2. done \subseteq done'
  BY DEF Sound, Shape, JustDone
<1>3. \A c \in Callers : call'[c].since \subseteq done'
  BY <1>2 DEF Good, DoneIsMade, Sound, Shape, CallShape, SinceFrom
<1>4. ASSUME NEW c \in Callers, call'[c].at \in ChangeStages
      PROVE  call'[c].value \in Changes /\ call'[c].value <= server'
  <2>1. MadeFrom(c)
    BY DEF Sound, Shape, CallShape
  <2>2. CASE call[c].at \in ChangeStages /\ call'[c].value = call[c].value
    BY <2>2, <1>t, <1>d DEF Good, DoneIsMade
  <2>3. CASE call'[c].value = server' /\ call'[c].value \in Changes
    BY <2>3, <1>t
  <2> QED BY <1>4, <2>1, <2>2, <2>3 DEF MadeFrom
<1> QED BY <1>1, <1>3, <1>4 DEF DoneIsMade

\* A pool that knows a change keeps knowing it: whatever comes into it was there,
\* in somebody's hands, or is read from the server now.
LEMMA KeepsKnowing ==
  ASSUME Good, Sound, NEW i \in PoolIds, NEW w \in Changes, w <= server, PoolKnows(i, w)
  PROVE  PoolKnows(i, w)'
<1>1. entry'[i].here => Knows(entry'[i].list, entry'[i].passed, w)
  BY DEF Sound, Shape, ListFrom, PoolKnows
<1>2. ASSUME NEW d \in Callers, At(d, "store")', call'[d].pool = i
      PROVE  Knows(call'[d].value, call'[d].passed, w)
  <2>1. InHandFrom(d)
    BY DEF Sound, Shape, CallShape
  <2>2. CASE /\ At(d, "store") /\ call'[d].pool = call[d].pool /\ call'[d].value = call[d].value
             /\ call[d].passed \subseteq call'[d].passed
    BY <1>2, <2>2 DEF PoolKnows, Knows
  <2>3. CASE call'[d].value = server
    BY <2>3 DEF Knows
  <2> QED BY <1>2, <2>1, <2>2, <2>3 DEF InHandFrom
<1> QED BY <1>1, <1>2 DEF PoolKnows

LEMMA KeepsHaving ==
  ASSUME Good, Sound, NEW i \in PoolIds, NEW w \in Changes, w <= server, PoolHas(i, w)
  PROVE  PoolHas(i, w)'
<1>1. entry'[i].here => entry'[i].list >= w
  BY DEF Sound, Shape, ListFrom, PoolHas
<1>2. ASSUME NEW d \in Callers, At(d, "store")', call'[d].pool = i
      PROVE  call'[d].value >= w
  <2>1. InHandFrom(d)
    BY DEF Sound, Shape, CallShape
  <2> QED BY <1>2, <2>1 DEF InHandFrom, PoolHas
<1> QED BY <1>1, <1>2 DEF PoolHas

LEMMA LaterHaveStep == Good /\ LaterHave /\ Sound => LaterHave'
<1> SUFFICES ASSUME Good, LaterHave, Sound,
                    NEW c \in Callers, call'[c].at \in {"change", "changeDrop", "delete"},
                    NEW i \in PoolIds, i > call'[c].pool
             PROVE  PoolHas(i, call[c].value)'
  BY DEF LaterHave
<1>1. LookFrom(c)
  BY DEF Sound, Shape, CallShape
<1>2. CASE call[c].at \in Looking /\ call'[c].pool = call[c].pool /\ call'[c].value = call[c].value
  <2>1. call[c].value \in Changes /\ call[c].value <= server
    BY <1>2 DEF Good, DoneIsMade, Looking, ChangeStages
  <2>2. PoolHas(i, call[c].value)
    BY <1>2 DEF LaterHave, Looking
  <2>3. \A w : w = call[c].value => PoolHas(i, w)'
    BY <2>1, <2>2, KeepsHaving
  <2> QED BY <2>3, <1>2 DEF PoolHas
<1>3. CASE call'[c].pool = pools'
  <2>1. ASSUME TypeOK', i > pools', NEW w PROVE PoolHas(i, w)'
    <3>1. ~entry'[i].here
      BY <2>1 DEF TypeOK, PoolIds
    <3>2. \A d \in Callers : At(d, "store")' => call'[d].pool <= pools'
      BY <2>1 DEF TypeOK, At
    <3>3. pools' \in Nat /\ i \in Nat /\ \A d \in Callers : call'[d].pool \in Nat
      BY <2>1, Counts DEF TypeOK, PoolIds, Calls
    <3> QED BY <2>1, <3>1, <3>2, <3>3 DEF PoolHas
  <2> QED BY <1>3, <2>1 DEF Sound, PoolHas
<1> QED BY <1>1, <1>2, <1>3 DEF LookFrom, Looking

LEMMA LatestKnowStep == Good /\ LaterHave /\ LatestKnow /\ Sound => LatestKnow'
<1> SUFFICES ASSUME Good, LaterHave, LatestKnow, Sound,
                    NEW w \in done', NEW i \in PoolIds, i >= pools'
             PROVE  PoolKnows(i, w)'
  BY DEF LatestKnow
<1>t. pools \in Nat /\ pools' >= pools /\ i \in Nat
  BY Types DEF Good, Sound, Shape
<1>1. CASE w \in done
  <2>1. w \in Changes /\ w <= server /\ i >= pools
    BY <1>1, <1>t, Types DEF Good, DoneIsMade, Sound, Shape
  <2> QED BY <1>1, <2>1, KeepsKnowing DEF LatestKnow
<1>2. ASSUME NEW c \in Callers, JustDone(c), w = call[c].value PROVE PoolKnows(i, w)'
  <2>1. w \in Changes /\ w <= server /\ w \in Nat /\ server \in Nat
    BY <1>2, Types DEF Good, DoneIsMade, JustDone, Looking, ChangeStages, Changes
  <2>2. call[c].pool \in Nat /\ call[c].pool <= i
    BY <1>2, <1>t, Types DEF Good, JustDone, Looking, Sound, Shape
  <2>3. CASE i = call[c].pool
    <3>1. ~entry'[i].here
      BY <1>2, <2>3 DEF JustDone
    <3>2. ASSUME NEW d \in Callers, At(d, "store")' PROVE Knows(call'[d].value, call'[d].passed, w)
      <4>1. InHandFrom(d)
        BY DEF Sound, Shape, CallShape
      <4>2. CASE call'[d].value = server
        BY <4>2, <2>1 DEF Knows
      <4>3. CASE call'[d].value = call[d].value
        <5>1. call[d].value \in Nat
          BY Types DEF Good, Lists
        <5> QED BY <1>2, <3>2, <4>3, <5>1, <2>1 DEF JustDone, Knows
      <4> QED BY <3>2, <4>1, <4>2, <4>3 DEF InHandFrom
    <3> QED BY <3>1, <3>2 DEF PoolKnows
  <2>4. CASE i > call[c].pool
    <3>1. PoolHas(i, w)
      BY <1>2, <2>4 DEF LaterHave, JustDone, Looking
    <3>2. PoolHas(i, w)'
      BY <2>1, <3>1, KeepsHaving
    <3> QED BY <3>2 DEF PoolHas, PoolKnows, Knows
  <2> QED BY <2>2, <2>3, <2>4, <1>t
<1>3. done' = done \/ \E c \in Callers : JustDone(c) /\ done' = done \cup {call[c].value}
  BY DEF Sound, Shape, JustDone
<1> QED BY <1>1, <1>2, <1>3

LEMMA ReadersKnowStep == Good /\ LatestKnow' /\ ReadersKnow /\ Sound => ReadersKnow'
<1> SUFFICES ASSUME Good, LatestKnow', ReadersKnow, Sound, NEW c \in Callers,
                    NEW w \in call'[c].since
             PROVE  /\ At(c, "read")' => PoolKnows(call[c].pool, w)'
                    /\ At(c, "hit")' => Knows(call[c].value, call[c].passed, w)'
  BY DEF ReadersKnow
<1>s. ReadFrom(c) /\ HitFrom(c)
  BY DEF Sound, Shape, CallShape
<1>d. ASSUME w \in call[c].since PROVE w \in done /\ w \in done' /\ w \in Changes /\ w <= server
  BY <1>d, Types DEF Good, DoneIsMade, Sound, Shape, JustDone
<1>1. ASSUME At(c, "read")' PROVE PoolKnows(call[c].pool, w)'
  <2>1. w \in call[c].since
    BY <1>1, <1>s DEF ReadFrom
  <2>2. CASE At(c, "read") /\ call'[c].pool = call[c].pool
    <3>1. PoolKnows(call[c].pool, w) /\ call[c].pool \in PoolIds
      BY <2>1, <2>2, Types DEF ReadersKnow, Good
    <3>2. \A i : i = call[c].pool => PoolKnows(i, w)'
      BY <3>1, <2>1, <1>d, KeepsKnowing
    <3> QED BY <3>2, <2>2 DEF PoolKnows
  <2>3. CASE call'[c].pool = pools'
    <3>1. pools' \in PoolIds /\ pools' \in Nat
      BY Counts DEF Sound, TypeOK, PoolIds
    <3>2. \A i \in PoolIds : i = pools' => PoolKnows(i, w)'
      BY <3>1, <2>1, <1>d DEF LatestKnow
    <3> QED BY <3>1, <3>2, <2>3 DEF PoolKnows
  <2> QED BY <1>1, <1>s, <2>2, <2>3 DEF ReadFrom
<1>2. ASSUME At(c, "hit")' PROVE Knows(call[c].value, call[c].passed, w)'
  <2>1. w \in call[c].since
    BY <1>2, <1>s DEF HitFrom
  <2>2. CASE At(c, "hit") /\ call'[c].value = call[c].value /\ call[c].passed \subseteq call'[c].passed
    BY <2>1, <2>2 DEF ReadersKnow, Knows
  <2>3. CASE /\ At(c, "read") /\ Found(c).here
             /\ call'[c].value = Found(c).list /\ call'[c].passed = Found(c).passed
    <3>1. PoolKnows(call[c].pool, w)
      BY <2>1, <2>3 DEF ReadersKnow
    <3> QED BY <3>1, <2>3 DEF PoolKnows, Found, Knows
  <2> QED BY <1>2, <1>s, <2>2, <2>3 DEF HitFrom
<1> QED BY <1>1, <1>2

LEMMA InitEstablishes == Init => IInv
<1> SUFFICES ASSUME Init PROVE IInv
  OBVIOUS
<1>1. \A c \in Callers : call[c] = Outside
  BY DEF Init
<1>2. \A i \in PoolIds : ~entry[i].here
  BY NothingIsEntry DEF Init
<1>3. TypeOK
  BY <1>1, <1>2, Counts, OutsideIsCall, NothingIsEntry DEF Init, TypeOK, Lists, PoolIds
<1>4. LastPool
  <2>1. Makers = {}
    BY <1>1, OutsideIsCall DEF Makers
  <2> QED BY <2>1, Counts, FS_EmptySet DEF LastPool, Init
<1>5. DoneIsMade
  BY <1>1 DEF DoneIsMade, Init, Outside, ChangeStages
<1>6. LatestKnow /\ LaterHave /\ ReadersKnow
  BY <1>1, OutsideIsCall DEF Init, LatestKnow, LaterHave, ReadersKnow, At
<1> QED BY <1>3, <1>4, <1>5, <1>6 DEF IInv

LEMMA InvStep == IInv /\ [Next]_vars => IInv'
BY StepSound, LastPoolStep, DoneIsMadeStep, LaterHaveStep, LatestKnowStep, ReadersKnowStep
DEF IInv, Good, Sound

LEMMA Invariance == Spec => []IInv
BY InitEstablishes, InvStep, PTL DEF Spec

\* At most one pool is made per caller, every list is in a pool that was made,
\* and a caller never uses the result of LazyInitCachePoolOp without a pool (a
\* nil dereference, cachemap.go:18-27), for any number of callers and changes.
THEOREM CacheTypeCorrect == Spec => []TypeOK
BY Invariance, PTL DEF IInv

\* A list from the cache has every change whose call returned before the read
\* began, unless that change passed it by in the hands of another caller: for
\* any number of callers, pools and changes (utils.go:7-22, cache.go:11-20).
THEOREM StaleLists == Spec => []StaleOnlyByOverlap
<1>1. IInv => StaleOnlyByOverlap
  BY DEF IInv, ReadersKnow, StaleOnlyByOverlap, Knows
<1> QED BY <1>1, Invariance, PTL

===============================================================================
