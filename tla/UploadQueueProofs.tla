-------------------------- MODULE UploadQueueProofs --------------------------
(***************************************************************************)
(* For any files, contents and parts, any number of runs, retries, crashes  *)
(* and modifications: what an upload puts together is the file on disk.     *)
(* The invariant says what makes a stored state trustworthy: as long as the *)
(* file has the time the entry was stored with, its MD5 and checksums are   *)
(* of what the file contains; an entry that shares the meta data of a task  *)
(* has that time; and the task itself knows nothing else of its file.  The  *)
(* last section is about the shape of the database: one entry for a file.   *)
(***************************************************************************)
EXTENDS UploadQueue, FiniteSetTheorems, SequenceTheorems, WellFoundedInduction, TLAPS

\* Modifications are events.
TimesInv == \A f \in Paths : mtime[f] <= events

\* A task has its file, and a process that is not running has nothing.
Working == {"search", "control", "rapid", "store", "upload"}
StageInv ==
  /\ pc \in Working \cup {"sleep"} => cur \in Paths
  /\ pc = "upload" => reporter[cur] # "off"
  /\ pc = "down" => /\ ~saving /\ db = <<>>
                    /\ \A f \in Paths : meta[f].md5 = None /\ reporter[f] = "off"

\* What an entry says of its file, if the file has not been modified since.
Honest(e) ==
  /\ e.meta.mtime <= mtime[e.path]
  /\ Unchanged(e) =>
       /\ e.meta.md5 \in {None, content[e.path]}
       /\ \A p \in Parts : e.state[p] \in {None, content[e.path]}

DiskInv == \A i \in DOMAIN disk : Honest(disk[i]) /\ ~disk[i].own
DbInv == \A i \in DOMAIN db : Honest(db[i]) /\ (db[i].own => Unchanged(db[i]))

\* What a task and its upload, which may be over, know of their file.
TaskInv ==
  /\ \A f \in Paths : meta[f].md5 \in {None, content[f]}
  /\ pc \in Working \ {"search"} => meta[cur].mtime = mtime[cur]
  /\ \A f \in Paths : reporter[f] # "off" =>
       /\ meta[f].mtime = mtime[f]
       /\ \A p \in Parts : sums[f][p] \in {None, content[f]}
  /\ \A f \in Paths : reporter[f] \in {"find", "put"} =>
       \A p \in Parts : shot[f][p] \in {None, content[f]}

Trust == ~excused => DiskInv /\ DbInv /\ TaskInv /\ ~mixed

-------------------------------------------------------------------------------
(* A finite set of numbers has an ascending enumeration: the inverse of the *)
(* function that counts the members up to a number.                         *)

Ascending(S) ==
  {q \in [1..Cardinality(S) -> S] : \A i, j \in DOMAIN q : i < j => q[i] < q[j]}

LEMMA AscendingExists ==
  ASSUME NEW S \in SUBSET Nat, IsFiniteSet(S)
  PROVE  Ascending(S) # {}
<1> DEFINE n == Cardinality(S)
           UpTo(p) == {r \in S : r <= p}
           rank == [p \in S |-> Cardinality(UpTo(p))]
<1>1. n \in Nat
  BY FS_CardinalityType
<1>2. \A p \in S : /\ IsFiniteSet(UpTo(p)) /\ Cardinality(UpTo(p)) \in Nat
                   /\ Cardinality(UpTo(p)) <= n /\ Cardinality(UpTo(p)) # 0
  <2> TAKE p \in S
  <2>1. UpTo(p) \in SUBSET S /\ p \in UpTo(p)
    OBVIOUS
  <2> HIDE DEF UpTo
  <2>2. IsFiniteSet(UpTo(p)) /\ Cardinality(UpTo(p)) <= n
    BY <2>1, FS_Subset
  <2> QED BY <2>1, <2>2, FS_CardinalityType, FS_EmptySet
<1>3. rank \in [S -> 1..n]
  BY <1>1, <1>2
<1>4. ASSUME NEW a \in S, NEW b \in S, a < b PROVE rank[a] < rank[b]
  <2>1. UpTo(a) \in SUBSET UpTo(b) /\ UpTo(a) # UpTo(b)
    <3> a \in Nat /\ b \in Nat /\ \A r \in S : r \in Nat
      OBVIOUS
    <3>1. b \in UpTo(b) /\ b \notin UpTo(a)
      BY <1>4
    <3>2. \A r \in S : r <= a => r <= b
      BY <1>4
    <3>3. UpTo(a) \subseteq UpTo(b)
      BY <3>2
    <3> QED BY <3>1, <3>3
  <2> HIDE DEF UpTo
  <2>2. Cardinality(UpTo(a)) <= Cardinality(UpTo(b)) /\ Cardinality(UpTo(a)) # Cardinality(UpTo(b))
    BY <1>2, <2>1, FS_Subset
  <2> QED BY <1>2, <2>2
<1> HIDE DEF rank, UpTo
<1>5. rank \in Injection(S, 1..n)
  BY <1>3, <1>4 DEF Injection, IsInjective
<1>6. rank \in Surjection(S, 1..n)
  <2>1. IsFiniteSet(1..n) /\ Cardinality(1..n) = n
    BY <1>1, FS_Interval
  <2> QED BY <1>5, <2>1, FS_Injection
<1> DEFINE q == [i \in 1..n |-> CHOOSE p \in S : rank[p] = i]
<1>7. \A i \in 1..n : q[i] \in S /\ rank[q[i]] = i
  BY <1>6 DEF Surjection
<1>8. q \in [1..n -> S] /\ DOMAIN q = 1..n
  BY <1>7
<1> HIDE DEF q
<1>9. ASSUME NEW i \in 1..n, NEW j \in 1..n, i < j PROVE q[i] < q[j]
  <2>1. /\ q[i] \in S /\ rank[q[i]] = i /\ i \in Nat
        /\ q[j] \in S /\ rank[q[j]] = j /\ j \in Nat
    BY <1>1, <1>7
  <2>2. q[i] \in Nat /\ q[j] \in Nat
    BY <2>1
  <2>3. q[i] # q[j]
    BY <1>9, <2>1
  <2>4. q[j] < q[i] => rank[q[j]] < rank[q[i]]
    BY <1>4, <2>1
  <2> QED BY <1>9, <2>1, <2>2, <2>3, <2>4
<1> QED BY <1>8, <1>9 DEF Ascending

-------------------------------------------------------------------------------
(* Lists of entries *)

\* Every entry of one list is an entry of the other.
From(new, old) == \A k \in DOMAIN new : \E i \in DOMAIN old : new[k] = old[i]

\* A set of positions has a first one.
LEMMA FirstExists ==
  ASSUME NEW H \in SUBSET Nat, H # {}
  PROVE  \E i \in H : \A j \in H : i <= j
<1>1. IsWellFoundedOn(OpToRel(<, Nat), Nat)
  BY NatLessThanWellFounded
<1>2. PICK i \in H : \A j \in H : ~(<<j, i>> \in OpToRel(<, Nat))
  BY <1>1, WFMin
<1>3. \A j \in H : ~(j < i)
  BY <1>2 DEF OpToRel
<1> QED BY <1>3

LEMMA MatchIs ==
  ASSUME NEW list \in Seq(Entries), NEW f
  PROVE  \/ Match(list, f) = 0
         \/ Match(list, f) \in DOMAIN list /\ Matches(list[Match(list, f)], f)
<1> DEFINE hits == {i \in DOMAIN list : Matches(list[i], f)}
<1>1. hits \in SUBSET Nat
  OBVIOUS
<1>2. CASE hits = {}
  BY <1>2 DEF Match
<1>3. CASE hits # {}
  <2>1. \E i \in hits : \A j \in hits : i <= j
    BY <1>1, <1>3, FirstExists
  <2>2. Match(list, f) = CHOOSE i \in hits : \A j \in hits : i <= j
    BY <1>3 DEF Match
  <2> HIDE DEF hits
  <2>3. Match(list, f) \in hits
    BY <2>1, <2>2
  <2> QED BY <2>3 DEF hits
<1> QED BY <1>2, <1>3

LEMMA ClearKeeps ==
  ASSUME NEW list \in Seq(Entries)
  PROVE  /\ ClearModTimeChange(list) \in Seq(Entries)
         /\ \A k \in DOMAIN ClearModTimeChange(list) :
              \E i \in DOMAIN list : /\ ClearModTimeChange(list)[k] = list[i]
                                     /\ Unchanged(list[i])
<1> DEFINE kept == {i \in DOMAIN list : Unchanged(list[i])}
           n == Cardinality(kept)
           order == CHOOSE q \in [1..n -> kept] : \A i, j \in DOMAIN q : i < j => q[i] < q[j]
<1>1. kept \in SUBSET Nat /\ IsFiniteSet(kept)
  <2>1. DOMAIN list = 1..Len(list) /\ Len(list) \in Nat
    OBVIOUS
  <2>2. IsFiniteSet(1..Len(list)) /\ kept \in SUBSET (1..Len(list))
    BY <2>1, FS_Interval
  <2> QED BY <2>2, FS_Subset
<1>2. n \in Nat
  BY <1>1, FS_CardinalityType
<1>3. order \in [1..n -> kept]
  BY <1>1, AscendingExists DEF Ascending
<1>4. ClearModTimeChange(list) = [i \in 1..n |-> list[order[i]]]
  BY DEF ClearModTimeChange
<1>5. \A i \in kept : i \in DOMAIN list /\ Unchanged(list[i]) /\ list[i] \in Entries
  OBVIOUS
<1> HIDE DEF kept, n, order
<1>6. ClearModTimeChange(list) \in [1..n -> Entries]
  BY <1>3, <1>4, <1>5
<1>7. ClearModTimeChange(list) \in Seq(Entries)
  <2>1. \A m \in Nat : [1..m -> Entries] \subseteq Seq(Entries)
    OBVIOUS
  <2> QED BY <1>2, <1>6, <2>1
<1> QED BY <1>3, <1>4, <1>5, <1>7

LEMMA Concatenation ==
  ASSUME NEW q \in Seq(Entries), NEW r \in Seq(Entries)
  PROVE  /\ q \o r \in Seq(Entries) /\ DOMAIN (q \o r) = 1..(Len(q) + Len(r))
         /\ \A k \in 1..Len(q) : (q \o r)[k] = q[k]
         /\ \A k \in 1..Len(r) : (q \o r)[Len(q) + k] = r[k]
OBVIOUS

LEMMA DeleteKeeps ==
  ASSUME NEW list \in Seq(Entries), NEW f
  PROVE  Delete(list, f) \in Seq(Entries) /\ From(Delete(list, f), list)
<1>1. PICK i : i = Match(list, f)
  OBVIOUS
<1>2. CASE i > 0
  <2>1. i \in DOMAIN list /\ Delete(list, f) = RemoveAt(list, i)
    BY <1>1, <1>2, MatchIs DEF Delete
  <2>2. RemoveAt(list, i) \in Seq(Entries) /\ From(RemoveAt(list, i), list)
    <3> DEFINE a == SubSeq(list, 1, i - 1)
               b == SubSeq(list, i + 1, Len(list))
    <3>1. /\ Len(list) \in Nat /\ DOMAIN list = 1..Len(list) /\ i \in 1..Len(list)
          /\ a \in Seq(Entries) /\ Len(a) = i - 1
          /\ b \in Seq(Entries) /\ Len(b) = Len(list) - i
          /\ \A k \in 1..(i - 1) : a[k] = list[k]
          /\ \A k \in 1..(Len(list) - i) : b[k] = list[i + k]
      BY <2>1
    <3> HIDE DEF a, b
    <3>2. PICK c : c = a \o b
      OBVIOUS
    <3>3. /\ c \in Seq(Entries) /\ DOMAIN c = 1..(Len(a) + Len(b))
          /\ \A k \in 1..Len(a) : c[k] = a[k]
          /\ \A k \in 1..Len(b) : c[Len(a) + k] = b[k]
      <4>1. a \in Seq(Entries) /\ b \in Seq(Entries)
        BY <3>1
      <4> QED BY <3>2, <4>1, Concatenation
    <3>4. /\ DOMAIN c = 1..(Len(list) - 1)
          /\ \A k \in 1..(i - 1) : c[k] = list[k]
          /\ \A k \in 1..(Len(list) - i) : c[(i - 1) + k] = list[i + k]
      <4>1. Len(a) + Len(b) = Len(list) - 1
        BY <3>1
      <4> QED BY <3>1, <3>3, <4>1
    <3>5. ASSUME NEW k \in 1..(Len(list) - 1) PROVE \E j \in DOMAIN list : c[k] = list[j]
      <4>1. CASE k < i
        <5>1. k \in 1..(i - 1) /\ k \in DOMAIN list
          BY <3>1, <4>1
        <5> QED BY <3>4, <5>1
      <4>2. CASE k >= i
        <5>1. PICK m \in 1..(Len(list) - i) : (i - 1) + m = k
          <6>1. k - (i - 1) \in 1..(Len(list) - i) /\ (i - 1) + (k - (i - 1)) = k
            BY <3>1, <4>2
          <6> QED BY <6>1
        <5>2. i + m \in DOMAIN list
          BY <3>1, <5>1
        <5> QED BY <3>4, <5>1, <5>2
      <4> QED BY <3>1, <4>1, <4>2
    <3> QED BY <3>2, <3>3, <3>4, <3>5 DEF RemoveAt, From, a, b
  <2> QED BY <2>1, <2>2
<1>3. CASE ~(i > 0)
  BY <1>1, <1>3 DEF Delete, From
<1> QED BY <1>2, <1>3

LEMMA MatchBound ==
  ASSUME NEW list \in Seq(Entries), NEW f
  PROVE  Match(list, f) \in Nat /\ Match(list, f) <= Len(list)
<1>1. DOMAIN list = 1..Len(list) /\ Len(list) \in Nat
  OBVIOUS
<1>2. Match(list, f) = 0 \/ Match(list, f) \in DOMAIN list
  BY MatchIs
<1> QED BY <1>1, <1>2

LEMMA UpdateIs ==
  ASSUME NEW f, db \in Seq(Entries), NEW s, NEW i \in Nat, i <= Len(db),
         NEW new, new = UpdateUploading(db, i, f, s)
  PROVE  \/ /\ i \in DOMAIN db /\ i > 0
            /\ new = [db EXCEPT ![i] = [@ EXCEPT !.state = s]]
         \/ /\ i = 0
            /\ new = Append(db, [path |-> f, meta |-> meta[f], state |-> s, own |-> TRUE])
<1>1. i = 0 \/ (i \in DOMAIN db /\ i > 0)
  OBVIOUS
<1>2. new = IF i > 0 THEN [db EXCEPT ![i] = [@ EXCEPT !.state = s]]
            ELSE Append(db, [path |-> f, meta |-> meta[f], state |-> s, own |-> TRUE])
  BY DEF UpdateUploading
<1> QED BY <1>1, <1>2

-------------------------------------------------------------------------------
(* Types *)

USE DEF fileVars, dbVars, taskVars, runVars, reportVars

LEMMA Constants ==
  /\ MaxRetry \in Nat /\ MaxEvents \in Nat /\ 0 \in 0..MaxRetry /\ 0 \in 0..MaxEvents
  /\ Files \in Seq(Paths) /\ Before \subseteq [Paths -> Contents] /\ NotRapid \subseteq BOOLEAN
  /\ Blank \in States /\ NoMeta \in [Paths -> Metas] /\ \A f \in Paths : NoMeta[f].md5 = None
<1>1. MaxRetry \in Nat /\ MaxEvents \in Nat /\ Files \in Seq(STRING)
  BY UploadQueueAssumption
<1>2. Files \in Seq(Paths)
  <2>1. Len(Files) \in Nat /\ Files \in [1..Len(Files) -> Paths]
    BY <1>1 DEF Paths
  <2>2. \A n \in Nat : [1..n -> Paths] \subseteq Seq(Paths)
    OBVIOUS
  <2> QED BY <2>1, <2>2
<1>3. Blank \in States
  BY DEF Blank, States
<1>4. NoMeta \in [Paths -> Metas] /\ \A f \in Paths : NoMeta[f].md5 = None
  BY <1>1 DEF NoMeta, Metas
<1> QED BY <1>1, <1>2, <1>3, <1>4, UploadQueueAssumption

\* No upload, and no report.
LEMMA NoReports ==
  /\ [f \in Paths |-> Blank] \in [Paths -> States] /\ [f \in Paths |-> FALSE] \in [Paths -> BOOLEAN]
  /\ [f \in Paths |-> "off"] \in [Paths -> Reporters] /\ [f \in Paths |-> 0] \in [Paths -> Nat]
BY Constants DEF Reporters

LEMMA InitTypes == Init => TypeOK
<1>1. <<>> \in Seq(Entries) /\ <<>> \in Seq(Paths)
  OBVIOUS
<1>2. /\ [f \in Paths |-> 0] \in [Paths -> 0..MaxEvents]
      /\ [f \in Paths |-> 0] \in [Paths -> 0..MaxRetry]
  BY Constants
<1> QED BY <1>1, <1>2, NoReports, Constants DEF Init, TypeOK, Stages

\* The fields that a step changes in meta data and entries.
LEMMA RefreshedIs ==
  ASSUME NEW m \in Metas, TypeOK, cur \in Paths
  PROVE  /\ Refreshed(m) \in Metas
         /\ Refreshed(m).md5 = m.md5 /\ Refreshed(m).mtime = mtime[cur]
<1>1. Length[content[cur]] \in {Length[c] : c \in Contents} /\ mtime[cur] \in 0..MaxEvents
  BY DEF TypeOK
<1> QED BY <1>1 DEF Refreshed, Metas

LEMMA EntryFields ==
  ASSUME NEW e \in Entries
  PROVE  /\ \A m \in Metas : LET n == [e EXCEPT !.meta = m] IN
              n \in Entries /\ n.meta = m /\ n.path = e.path /\ n.state = e.state /\ n.own = e.own
         /\ \A s \in States : LET n == [e EXCEPT !.state = s] IN
              n \in Entries /\ n.meta = e.meta /\ n.path = e.path /\ n.state = s /\ n.own = e.own
         /\ LET n == [e EXCEPT !.own = FALSE] IN
              n \in Entries /\ n.meta = e.meta /\ n.path = e.path /\ n.state = e.state /\ n.own = FALSE
BY DEF Entries

LEMMA Md5Fields ==
  ASSUME NEW m \in Metas, NEW c \in Contents \cup {None}
  PROVE  LET n == [m EXCEPT !.md5 = c] IN n \in Metas /\ n.md5 = c /\ n.mtime = m.mtime /\ n.length = m.length
BY DEF Metas

LEMMA UpdateTypes ==
  ASSUME TypeOK, NEW f \in Paths, NEW s \in States, NEW i \in Nat, i <= Len(db)
  PROVE  UpdateUploading(db, i, f, s) \in Seq(Entries)
<1>1. PICK new : new = UpdateUploading(db, i, f, s)
  OBVIOUS
<1>2. db \in Seq(Entries)
  BY DEF TypeOK
<1>3. CASE i \in DOMAIN db /\ new = [db EXCEPT ![i] = [@ EXCEPT !.state = s]]
  <2>1. db[i] \in Entries
    BY <1>2, <1>3
  <2>2. [db[i] EXCEPT !.state = s] \in Entries
    BY <2>1, EntryFields
  <2>3. \A e \in Entries : [db EXCEPT ![i] = e] \in Seq(Entries)
    BY <1>2, <1>3
  <2> QED BY <1>1, <1>3, <2>2, <2>3
<1>4. CASE new = Append(db, [path |-> f, meta |-> meta[f], state |-> s, own |-> TRUE])
  <2>1. [path |-> f, meta |-> meta[f], state |-> s, own |-> TRUE] \in Entries
    BY DEF TypeOK, Entries
  <2>2. \A e \in Entries : Append(db, e) \in Seq(Entries)
    BY <1>2
  <2> QED BY <1>1, <1>4, <2>1, <2>2
<1> QED BY <1>1, <1>2, <1>3, <1>4, UpdateIs

\* What a step of the process says of the checksums of the task and of the list.
LEMMA SaveTypes ==
  ASSUME TypeOK, NEW list \in Seq(Entries), Save(list)
  PROVE  /\ db' \in Seq(Entries) /\ saving' \in BOOLEAN /\ cut' \in BOOLEAN /\ disk' \in Seq(Entries)
BY DEF TypeOK, Save

LEMMA StopTypes ==
  ASSUME TypeOK, Stop, UNCHANGED <<fileVars, disk, cut, excused, mixed>>, events' \in 0..MaxEvents
  PROVE  TypeOK'
<1>1. <<>> \in Seq(Entries) /\ <<>> \in Seq(Paths)
  OBVIOUS
<1>2. [f \in Paths |-> 0] \in [Paths -> 0..MaxRetry]
  BY Constants
<1> QED BY <1>1, <1>2, NoReports, Constants DEF TypeOK, Stop, Stages

ReportTypes ==
  /\ sums \in [Paths -> States] /\ notice \in [Paths -> BOOLEAN]
  /\ reporter \in [Paths -> Reporters]
  /\ shot \in [Paths -> States] /\ found \in [Paths -> Nat]

LEMMA ExecuteTypes ==
  ASSUME TypeOK, cur \in Paths, NEW s \in States, Execute(s)
  PROVE  pc' \in Stages /\ ReportTypes'
BY DEF TypeOK, ReportTypes, Execute, Stages, Reporters

LEMMA SearchTypes ==
  ASSUME TypeOK, cur \in Paths, Search
  PROVE  TypeOK'
<1>1. PICK list : list = ClearModTimeChange(db)
  OBVIOUS
<1>2. PICK i : i = Match(list, cur)
  OBVIOUS
<1>3. list \in Seq(Entries) /\ (i > 0 => i \in DOMAIN list)
  BY <1>1, <1>2, ClearKeeps, MatchIs DEF TypeOK
<1>4. /\ Delete(list, cur) \in Seq(Entries)
      /\ i > 0 => list[i].state \in States /\ list[i].meta.md5 \in Contents \cup {None}
  <2>1. i > 0 => list[i] \in Entries
    BY <1>3
  <2>2. \A e \in Entries : e.state \in States /\ e.meta.md5 \in Contents \cup {None}
    BY DEF Entries, Metas
  <2> QED BY <1>3, <2>1, <2>2, DeleteKeeps
<1>5. meta[cur].md5 \in Contents \cup {None} /\ meta[cur] \in Metas
  BY DEF TypeOK, Metas
<1>6. /\ db' = list \/ db' = Delete(list, cur)
      /\ \E m \in Contents \cup {None} : meta' = [meta EXCEPT ![cur].md5 = m]
      /\ excused' = (excused \/ Mistaken(list, cur))
      /\ \/ pc' = "rapid" /\ UNCHANGED reportVars
         \/ \E s \in States : Execute(s)
  BY <1>1, <1>2, <1>4, <1>5, Constants DEF Search
<1>7. PICK m \in Contents \cup {None} : meta' = [meta EXCEPT ![cur].md5 = m]
  BY <1>6
<1>8. meta' \in [Paths -> Metas]
  <2>1. [meta[cur] EXCEPT !.md5 = m] \in Metas
    BY <1>5, Md5Fields
  <2> QED BY <1>7, <2>1 DEF TypeOK
<1>9. excused' \in BOOLEAN
  BY <1>6 DEF TypeOK
<1>10. pc' \in Stages /\ ReportTypes'
  <2>1. CASE pc' = "rapid" /\ UNCHANGED reportVars
    BY <2>1 DEF TypeOK, ReportTypes, Stages
  <2>2. ASSUME NEW s \in States, Execute(s) PROVE pc' \in Stages /\ ReportTypes'
    BY <2>2, ExecuteTypes
  <2> QED BY <1>6, <2>1, <2>2
<1>11. /\ db' \in Seq(Entries)
       /\ UNCHANGED <<fileVars, disk, cut, saving, retry, runVars, events, mixed>>
  BY <1>3, <1>4, <1>6 DEF Search
<1> QED BY <1>8, <1>9, <1>10, <1>11 DEF TypeOK, ReportTypes

\* Opening a file: the entries that share the meta data of its task follow it.
LEMMA OpenIs ==
  ASSUME TypeOK, cur \in Paths, OpenPath
  PROVE  \/ pc' = "top" /\ UNCHANGED <<meta, db>>
         \/ /\ pc' = "control" /\ meta' = [meta EXCEPT ![cur] = Refreshed(meta[cur])]
            /\ db' \in Seq(Entries) /\ DOMAIN db' = DOMAIN db
            /\ \A i \in DOMAIN db :
                 \/ db'[i] = db[i] /\ ~(db[i].own /\ db[i].path = cur)
                 \/ /\ db[i].own /\ db[i].path = cur
                    /\ db'[i] = [db[i] EXCEPT !.meta = Refreshed(db[i].meta)]
<1>1. CASE pc' = "top" /\ UNCHANGED <<meta, db>>
  BY <1>1
<1>2. CASE /\ pc' = "control" /\ meta' = [meta EXCEPT ![cur] = Refreshed(meta[cur])]
           /\ db' = [i \in DOMAIN db |->
                       IF db[i].own /\ db[i].path = cur THEN [db[i] EXCEPT !.meta = Refreshed(db[i].meta)]
                       ELSE db[i]]
  <2>1. /\ Len(db) \in Nat /\ DOMAIN db = 1..Len(db)
        /\ \A i \in DOMAIN db : db[i] \in Entries
    BY DEF TypeOK
  <2>2. \A e \in Entries : e.meta \in Metas
    BY DEF Entries
  <2>3. \A e \in Entries : [e EXCEPT !.meta = Refreshed(e.meta)] \in Entries
    BY <2>2, RefreshedIs, EntryFields
  <2>4. db' \in [1..Len(db) -> Entries]
    BY <1>2, <2>1, <2>3
  <2>5. \A n \in Nat : [1..n -> Entries] \subseteq Seq(Entries)
    OBVIOUS
  <2>6. db' \in Seq(Entries)
    BY <2>1, <2>4, <2>5
  <2> QED BY <1>2, <2>1, <2>6
<1> QED BY <1>1, <1>2 DEF OpenPath

LEMMA Cases ==
  Next => \/ Run \/ WriteAt \/ Modify \/ Touch \/ Crash \/ Terminated
          \/ End \/ TakeFront \/ OpenPath \/ Search \/ RapidUpload \/ RapidUploadFails \/ StoreRapid
          \/ (\E p \in Parts : UploadPart(p)) \/ Success \/ Expired \/ Retry \/ Wake \/ GiveUp
          \/ \E f \in Paths : Tick(f) \/ Find(f) \/ Put(f) \/ Panic(f) \/ Leave(f)
BY DEF Next, Goroutines, Process, Upload, Report

LEMMA ModifyToTypes ==
  ASSUME TypeOK, TimesInv, events < MaxEvents, events' = events + 1,
         NEW f \in Paths, NEW c \in Contents, ModifyTo(f, c), excused' \in BOOLEAN
  PROVE  TypeOK' /\ TimesInv'
<1>1. /\ MaxEvents \in Nat /\ events \in 0..MaxEvents /\ mtime \in [Paths -> 0..MaxEvents]
      /\ events' \in 0..MaxEvents /\ events <= events'
  BY Constants DEF TypeOK
<1>2. mtime[f] + 1 \in 0..MaxEvents /\ mtime[f] + 1 <= events'
  BY <1>1 DEF TimesInv
<1>3. mtime' = [mtime EXCEPT ![f] = mtime[f] + 1] /\ content' = [content EXCEPT ![f] = c]
  BY DEF ModifyTo
<1>4. mtime' \in [Paths -> 0..MaxEvents] /\ content' \in [Paths -> Contents]
  BY <1>1, <1>2, <1>3 DEF TypeOK
<1>5. \A g \in Paths : mtime'[g] <= events'
  <2> TAKE g \in Paths
  <2>1. mtime'[g] = IF g = f THEN mtime[f] + 1 ELSE mtime[g]
    BY <1>1, <1>3
  <2>2. mtime[g] <= events /\ mtime[g] \in Nat /\ events \in Nat /\ events' \in Nat
    BY <1>1 DEF TimesInv
  <2> QED BY <1>1, <1>2, <2>1, <2>2
<1> QED BY <1>1, <1>4, <1>5 DEF TypeOK, TimesInv, ModifyTo

LEMMA TypesStep ==
  ASSUME TypeOK, TimesInv, StageInv, [Next]_vars
  PROVE  TypeOK' /\ TimesInv'
<1>0. /\ MaxEvents \in Nat /\ events \in 0..MaxEvents /\ (events < MaxEvents => events + 1 \in 0..MaxEvents)
      /\ \A f \in Paths : mtime[f] \in Nat /\ mtime[f] <= events /\ mtime[f] <= events + 1
  BY Constants DEF TypeOK, TimesInv
<1>2. CASE Run
  <2>1. Files \in Seq(Paths) /\ NotRapid \subseteq BOOLEAN
    BY Constants
  <2>2. events' \in 0..MaxEvents
    BY <1>0, <1>2 DEF Run
  <2>3. TypeOK'
    BY <1>2, <2>1, <2>2 DEF TypeOK, Run, Stages
  <2> QED BY <1>0, <1>2, <2>3 DEF Run, TimesInv
<1>3. CASE WriteAt
  <2>1. disk' = [i \in DOMAIN db |-> [db[i] EXCEPT !.own = FALSE]]
    BY <1>3 DEF WriteAt
  <2>2. Len(db) \in Nat /\ DOMAIN db = 1..Len(db) /\ \A i \in DOMAIN db : db[i] \in Entries
    BY DEF TypeOK
  <2>3. disk' \in [1..Len(db) -> Entries]
    BY <2>1, <2>2, EntryFields
  <2>4. \A n \in Nat : [1..n -> Entries] \subseteq Seq(Entries)
    OBVIOUS
  <2>5. disk' \in Seq(Entries)
    BY <2>2, <2>3, <2>4
  <2> QED BY <1>3, <2>5 DEF TypeOK, TimesInv, WriteAt
<1>4. CASE Modify
  BY <1>4, ModifyToTypes DEF Modify, Happens, TypeOK
<1>5. CASE Touch
  BY <1>5, ModifyToTypes DEF Touch, Happens, TypeOK
<1>6. CASE Crash
  <2>1. events' \in 0..MaxEvents
    BY <1>0, <1>6 DEF Crash, Happens
  <2>2. TypeOK'
    BY <1>6, <2>1, StopTypes DEF Crash
  <2> QED BY <1>0, <1>6, <2>2 DEF Crash, Happens, TimesInv
<1>7. CASE Terminated \/ UNCHANGED vars
  BY <1>7 DEF Terminated, vars, TypeOK, TimesInv
<1>8. CASE End
  <2>1. TypeOK'
    <3>1. events' \in 0..MaxEvents
      BY <1>0, <1>8 DEF End
    <3> QED BY <1>8, <3>1, StopTypes DEF End
  <2> QED BY <1>8, <2>1 DEF End, TimesInv
<1>9. CASE TakeFront
  <2>1. Head(queue) \in Paths /\ Tail(queue) \in Seq(Paths)
    BY <1>9 DEF TakeFront, TypeOK
  <2> QED BY <1>9, <2>1, Constants DEF TakeFront, TypeOK, TimesInv, Stages
<1>10. CASE OpenPath
  <2>1. cur \in Paths
    BY <1>10 DEF OpenPath, StageInv, Working
  <2>2. /\ pc' \in Stages /\ db' \in Seq(Entries)
        /\ meta' = meta \/ meta' = [meta EXCEPT ![cur] = Refreshed(meta[cur])]
    BY <1>10, <2>1, OpenIs DEF TypeOK, Stages
  <2>3. meta[cur] \in Metas
    BY <2>1 DEF TypeOK
  <2>4. Refreshed(meta[cur]) \in Metas
    BY <2>1, <2>3, RefreshedIs
  <2>5. meta' \in [Paths -> Metas]
    BY <2>2, <2>4 DEF TypeOK
  <2> QED BY <1>10, <2>2, <2>5 DEF OpenPath, TypeOK, TimesInv
<1>11. CASE Search
  <2>1. TypeOK'
    BY <1>11, SearchTypes DEF Search, StageInv, Working
  <2> QED BY <1>11, <2>1 DEF Search, TimesInv
<1>12. CASE RapidUpload \/ RapidUploadFails
  <2>1. cur \in Paths /\ meta' = [meta EXCEPT ![cur] = [@ EXCEPT !.md5 = content[cur]]]
    BY <1>12 DEF RapidUpload, RapidUploadFails, StageInv, Working
  <2>2. meta[cur] \in Metas /\ content[cur] \in Contents \cup {None}
    BY <2>1 DEF TypeOK
  <2>3. [meta[cur] EXCEPT !.md5 = content[cur]] \in Metas
    BY <2>2, Md5Fields
  <2>4. meta' \in [Paths -> Metas]
    BY <2>1, <2>3 DEF TypeOK
  <2> QED BY <1>12, <2>4 DEF RapidUpload, RapidUploadFails, TypeOK, TimesInv, Stages
<1>13. CASE StoreRapid
  <2>1. cur \in Paths /\ Blank \in States /\ Match(db, cur) \in Nat /\ Match(db, cur) <= Len(db)
    BY <1>13, Constants, MatchBound DEF StoreRapid, StageInv, Working, TypeOK
  <2>2. UpdateUploading(db, Match(db, cur), cur, Blank) \in Seq(Entries)
    BY <2>1, UpdateTypes
  <2>3. db' \in Seq(Entries) /\ saving' \in BOOLEAN /\ cut' \in BOOLEAN /\ disk' \in Seq(Entries)
    BY <1>13, <2>2, SaveTypes DEF StoreRapid
  <2>4. pc' \in Stages /\ ReportTypes'
    BY <1>13, <2>1, ExecuteTypes DEF StoreRapid
  <2> QED BY <1>13, <2>3, <2>4 DEF StoreRapid, TypeOK, ReportTypes, TimesInv
<1>14. ASSUME NEW p \in Parts, UploadPart(p) PROVE TypeOK' /\ TimesInv'
  <2>1. cur \in Paths
    BY <1>14 DEF UploadPart, StageInv, Working
  <2>2. sums' \in [Paths -> States] /\ notice' \in [Paths -> BOOLEAN]
    BY <1>14, <2>1 DEF UploadPart, TypeOK, States
  <2> QED BY <1>14, <2>2 DEF UploadPart, TypeOK, TimesInv
<1>15. ASSUME NEW f \in Paths, Tick(f) \/ Find(f) \/ Put(f) \/ Panic(f) \/ Leave(f)
       PROVE  TypeOK' /\ TimesInv'
  <2>1. CASE Tick(f)
    BY <2>1 DEF Tick, TypeOK, TimesInv, Reporters
  <2>2. CASE Find(f)
    <3>1. Match(db, f) \in Nat
      BY MatchBound DEF TypeOK
    <3> QED BY <2>2, <3>1 DEF Find, TypeOK, TimesInv, Reporters
  <2>3. CASE Put(f)
    <3>1. found[f] \in Nat /\ found[f] <= Len(db) /\ shot[f] \in States
      BY <2>3 DEF Put, TypeOK
    <3>2. UpdateUploading(db, found[f], f, shot[f]) \in Seq(Entries)
      BY <3>1, UpdateTypes
    <3>3. db' \in Seq(Entries) /\ saving' \in BOOLEAN /\ cut' \in BOOLEAN /\ disk' \in Seq(Entries)
      BY <2>3, <3>2, SaveTypes DEF Put
    <3>4. /\ reporter' \in [Paths -> Reporters] /\ shot' \in [Paths -> States]
          /\ found' \in [Paths -> Nat] /\ excused' \in BOOLEAN
      BY <2>3, Constants DEF Put, TypeOK, Reporters
    <3> QED BY <2>3, <3>3, <3>4 DEF Put, TypeOK, TimesInv
  <2>4. CASE Panic(f)
    <3>1. events' \in 0..MaxEvents
      BY <1>0, <2>4 DEF Panic
    <3>2. TypeOK'
      BY <2>4, <3>1, StopTypes DEF Panic
    <3> QED BY <2>4, <3>2 DEF Panic, TimesInv
  <2>5. CASE Leave(f)
    BY <2>5, Constants DEF Leave, TypeOK, TimesInv, Reporters
  <2> QED BY <1>15, <2>1, <2>2, <2>3, <2>4, <2>5
<1>16. CASE Success \/ Expired
  <2>1. Delete(db, cur) \in Seq(Entries)
    BY DeleteKeeps DEF TypeOK
  <2>2. db' \in Seq(Entries) /\ saving' \in BOOLEAN /\ cut' \in BOOLEAN /\ disk' \in Seq(Entries)
    BY <1>16, <2>1, SaveTypes DEF Success, Expired
  <2>3. mixed' \in BOOLEAN
    BY <1>16 DEF Success, Expired, TypeOK
  <2> QED BY <1>16, <2>2, <2>3 DEF Success, Expired, TypeOK, TimesInv, Stages
<1>17. CASE Retry
  <2>1. cur \in Paths /\ Append(queue, cur) \in Seq(Paths)
    BY <1>17 DEF Retry, StageInv, Working, TypeOK
  <2>2. retry[cur] + 1 \in 0..MaxRetry
    BY <1>17, <2>1, Constants DEF Retry, TypeOK
  <2>3. retry' \in [Paths -> 0..MaxRetry]
    BY <1>17, <2>1, <2>2 DEF Retry, TypeOK
  <2> QED BY <1>17, <2>1, <2>3 DEF Retry, TypeOK, TimesInv, Stages
<1>18. CASE Wake \/ GiveUp
  BY <1>18 DEF Wake, GiveUp, TypeOK, TimesInv, Stages
<1> QED BY <1>2, <1>3, <1>4, <1>5, <1>6, <1>7, <1>8, <1>9, <1>10, <1>11, <1>12, <1>13, <1>14, <1>15,
    <1>16, <1>17, <1>18, Cases

-------------------------------------------------------------------------------
(* The stages of a run *)

LEMMA StageStep ==
  ASSUME TypeOK, StageInv, [Next]_vars
  PROVE  StageInv'
<1>1. CASE Run
  BY <1>1 DEF StageInv, Working, Run
<1>2. ASSUME Stop PROVE StageInv'
  BY <1>2, Constants DEF StageInv, Working, Stop
<1>3. CASE TakeFront
  BY <1>3 DEF StageInv, Working, TakeFront, TypeOK
<1>4. CASE OpenPath
  BY <1>4 DEF StageInv, Working, OpenPath
<1>5. ASSUME NEW s, Execute(s), cur \in Paths, cur' = cur PROVE StageInv'
  <2>1. pc' = "upload" /\ reporter'[cur] # "off"
    BY <1>5 DEF Execute, TypeOK
  <2> QED BY <1>5, <2>1 DEF StageInv, Working
<1>6. CASE Search
  <2>1. (\E s : Execute(s)) \/ (pc' = "rapid" /\ UNCHANGED reportVars)
    BY <1>6 DEF Search
  <2>2. cur \in Paths /\ cur' = cur
    BY <1>6 DEF Search, StageInv, Working
  <2>3. CASE pc' = "rapid" /\ UNCHANGED reportVars
    BY <2>2, <2>3 DEF StageInv, Working
  <2> QED BY <1>5, <2>1, <2>2, <2>3
<1>7. CASE StoreRapid
  <2>1. Execute(Blank) /\ cur \in Paths /\ cur' = cur
    BY <1>7 DEF StoreRapid, StageInv, Working
  <2> QED BY <1>5, <2>1
<1>8. CASE WriteAt
  BY <1>8 DEF StageInv, Working, WriteAt
<1>9. CASE Modify \/ Touch
  <2>1. UNCHANGED <<dbVars, taskVars, pc, cur, reporter>>
    BY <1>9 DEF Modify, Touch, ModifyTo
  <2> QED BY <2>1 DEF StageInv, Working
<1>10. CASE RapidUpload \/ RapidUploadFails
  BY <1>10 DEF StageInv, Working, RapidUpload, RapidUploadFails
<1>11. ASSUME NEW p \in Parts, UploadPart(p) PROVE StageInv'
  BY <1>11 DEF StageInv, Working, UploadPart
<1>12. CASE Success \/ Expired
  BY <1>12 DEF StageInv, Working, Success, Expired
<1>13. CASE Retry \/ Wake \/ GiveUp
  BY <1>13 DEF StageInv, Working, Retry, Wake, GiveUp
<1>14. CASE Terminated \/ UNCHANGED vars
  BY <1>14 DEF StageInv, Working, Terminated, vars
<1>15. ASSUME NEW f \in Paths, Tick(f) \/ Find(f) \/ Put(f) \/ Leave(f) PROVE StageInv'
  <2>1. /\ UNCHANGED <<pc, cur, meta>>
        /\ \E r \in {"on", "find", "put", "off"} :
             reporter' = [reporter EXCEPT ![f] = r] /\ (r = "off" => ~(pc = "upload" /\ cur = f))
        /\ reporter[f] # "off"
    BY <1>15 DEF Tick, Find, Put, Leave
  <2> QED BY <2>1 DEF StageInv, Working, TypeOK
<1>16. End => Stop
  BY DEF End
<1>17. Crash => Stop
  BY DEF Crash
<1>18. \A f \in Paths : Panic(f) => Stop
  BY DEF Panic
<1> QED BY <1>1, <1>2, <1>3, <1>4, <1>6, <1>7, <1>8, <1>9, <1>10, <1>11, <1>12, <1>13, <1>14,
  <1>15, <1>16, <1>17, <1>18, Cases

-------------------------------------------------------------------------------
(* What is stored can be trusted. *)

LEMMA HonestKept ==
  ASSUME NEW e, NEW n, n.path = e.path, n.meta = e.meta, n.state = e.state,
         Honest(e), UNCHANGED fileVars
  PROVE  Honest(n)' /\ (Unchanged(e) => Unchanged(n)')
BY DEF Honest, Unchanged

\* The entries of a list that is left alone, or that loses some.
LEMMA DiskKept ==
  ASSUME DiskInv, UNCHANGED <<fileVars, disk>>
  PROVE  DiskInv'
<1> SUFFICES ASSUME NEW i \in DOMAIN disk PROVE Honest(disk[i])' /\ ~disk[i].own
  BY DEF DiskInv
<1>1. PICK e : e = disk[i]
  OBVIOUS
<1>2. Honest(e)' /\ ~e.own
  BY <1>1, HonestKept DEF DiskInv
<1> QED BY <1>1, <1>2

LEMMA DbKept ==
  ASSUME DbInv, UNCHANGED fileVars,
         \A k \in DOMAIN db' : \E i \in DOMAIN db : db'[k] = db[i]
  PROVE  DbInv'
<1> SUFFICES ASSUME NEW k \in DOMAIN db' PROVE Honest(db[k])' /\ (db'[k].own => Unchanged(db[k])')
  BY DEF DbInv
<1>1. PICK i \in DOMAIN db : db'[k] = db[i]
  OBVIOUS
<1>2. PICK e : e = db[i]
  OBVIOUS
<1>3. Honest(e)' /\ (e.own => Unchanged(e)')
  BY <1>2, HonestKept DEF DbInv
<1> QED BY <1>1, <1>2, <1>3 DEF Honest, Unchanged

\* An update of the database: what the new state says must be true of the
\* content of the file of the entry, and the meta data of a new entry is that
\* of a task whose file has been opened.
LEMMA UpdateKept ==
  ASSUME TypeOK, DbInv, UNCHANGED fileVars, NEW f \in Paths, NEW s \in States,
         NEW i \in Nat, i <= Len(db),
         meta[f].mtime = mtime[f], meta[f].md5 \in {None, content[f]},
         \A p \in Parts : s[p] \in {None, content[f]},
         (\A p \in Parts : s[p] = None) \/ (i > 0 => ~Foreign(db[i], f)),
         db' = UpdateUploading(db, i, f, s)
  PROVE  DbInv'
<1> SUFFICES ASSUME NEW k \in DOMAIN db' PROVE Honest(db[k])' /\ (db'[k].own => Unchanged(db[k])')
  BY DEF DbInv
<1>1. PICK new : new = UpdateUploading(db, i, f, s)
  OBVIOUS
<1>2. db \in Seq(Entries) /\ db' = new
  BY <1>1 DEF TypeOK
<1>3. CASE i \in DOMAIN db /\ i > 0
           /\ new = [db EXCEPT ![i] = [@ EXCEPT !.state = s]]
  <2>1. DOMAIN db' = DOMAIN db /\ \A j \in DOMAIN db : db'[j] = IF j = i THEN [db[i] EXCEPT !.state = s] ELSE db[j]
    BY <1>2, <1>3
  <2>2. PICK e \in Entries : e = db[k]
    BY <1>2, <2>1
  <2>3. Honest(e) /\ (e.own => Unchanged(e))
    BY <2>1, <2>2 DEF DbInv
  <2>4. CASE k # i
    <3>1. Honest(e)' /\ (e.own => Unchanged(e)')
      BY <2>3, HonestKept
    <3> QED BY <2>1, <2>2, <2>4, <3>1 DEF Honest, Unchanged
  <2>5. CASE k = i
    <3>1. PICK n : n = [e EXCEPT !.state = s]
      OBVIOUS
    <3>2. n.path = e.path /\ n.meta = e.meta /\ n.state = s /\ n.own = e.own
      BY <3>1, EntryFields
    <3>3. ASSUME Unchanged(e), NEW p \in Parts PROVE s[p] \in {None, content[e.path]}
      <4>1. CASE e.path = f
        BY <4>1
      <4>2. CASE e.path # f
        <5>1. CASE s[p] # None
          <6>1. ~Foreign(e, f)
            BY <1>3, <2>2, <2>5, <5>1
          <6>2. e.meta.md5 = meta[f].md5 /\ e.meta.md5 # None
            BY <4>2, <6>1 DEF Foreign, EqualLengthMD5
          <6>3. content[e.path] = content[f]
            BY <2>3, <3>3, <6>2 DEF Honest
          <6> QED BY <6>3
        <5> QED BY <5>1
      <4> QED BY <4>1, <4>2
    <3>4. Honest(n)' /\ (n.own => Unchanged(n)')
      BY <2>3, <3>2, <3>3 DEF Honest, Unchanged
    <3>5. db'[k] = n
      BY <2>1, <2>2, <2>5, <3>1
    <3> QED BY <3>4, <3>5 DEF Honest, Unchanged
  <2> QED BY <2>4, <2>5
<1>4. CASE new = Append(db, [path |-> f, meta |-> meta[f], state |-> s, own |-> TRUE])
  <2>1. PICK n : n = [path |-> f, meta |-> meta[f], state |-> s, own |-> TRUE]
    OBVIOUS
  <2>2. n.path = f /\ n.meta = meta[f] /\ n.state = s /\ n.own = TRUE
    BY <2>1
  <2>3. Honest(n)' /\ Unchanged(n)'
    <3>1. mtime[f] <= mtime[f]
      BY Constants DEF TypeOK
    <3> QED BY <2>2, <3>1 DEF Honest, Unchanged
  <2>4. \/ db'[k] = n
        \/ k \in DOMAIN db /\ db'[k] = db[k]
    <3>1. \A e : /\ DOMAIN Append(db, e) = 1..(Len(db) + 1) /\ DOMAIN db = 1..Len(db) /\ Len(db) \in Nat
                 /\ \A j \in 1..Len(db) : Append(db, e)[j] = db[j]
                 /\ Append(db, e)[Len(db) + 1] = e
      BY <1>2
    <3>2. db' = Append(db, n)
      BY <1>2, <1>4, <2>1
    <3> QED BY <3>1, <3>2
  <2>5. CASE db'[k] = n
    BY <2>3, <2>5 DEF Honest, Unchanged
  <2>6. CASE k \in DOMAIN db /\ db'[k] = db[k]
    <3>1. PICK e : e = db[k]
      OBVIOUS
    <3>2. Honest(e)' /\ (e.own => Unchanged(e)')
      BY <2>6, <3>1, HonestKept DEF DbInv
    <3> QED BY <2>6, <3>1, <3>2 DEF Honest, Unchanged
  <2> QED BY <2>4, <2>5, <2>6
<1> QED BY <1>1, <1>2, <1>3, <1>4, UpdateIs

\* The reporter of an upload that starts knows what its task knows.
LEMMA ExecuteKeeps ==
  ASSUME TypeOK, TaskInv, cur \in Paths, NEW s, Execute(s), meta[cur].mtime = mtime[cur],
         \A p \in Parts : s[p] \in {None, content[cur]}
  PROVE  /\ \A f \in Paths : reporter'[f] # "off" =>
              meta[f].mtime = mtime[f] /\ \A p \in Parts : sums'[f][p] \in {None, content[f]}
         /\ \A f \in Paths : reporter'[f] \in {"find", "put"} =>
              \A p \in Parts : shot'[f][p] \in {None, content[f]}
<1>1. /\ shot' = shot /\ sums'[cur] = s /\ reporter'[cur] = "on"
      /\ \A f \in Paths \ {cur} : reporter'[f] = reporter[f] /\ sums'[f] = sums[f]
  BY DEF Execute, TypeOK
<1> QED BY <1>1 DEF TaskInv

\* The search: only entries whose file has not been modified are left, and what
\* the task takes over is of the content of its own file.
LEMMA SearchKept ==
  ASSUME TypeOK, cur \in Paths, DbInv, TaskInv, pc = "control", Search, ~excused'
  PROVE  DbInv' /\ TaskInv'
<1>1. PICK list : list = ClearModTimeChange(db)
  OBVIOUS
<1>2. PICK i : i = Match(list, cur)
  OBVIOUS
<1>3. /\ list \in Seq(Entries)
      /\ \A k \in DOMAIN list : \E j \in DOMAIN db : list[k] = db[j] /\ Unchanged(db[j])
      /\ i > 0 => i \in DOMAIN list /\ Matches(list[i], cur)
  BY <1>1, <1>2, ClearKeeps, MatchIs DEF TypeOK
<1>4. /\ UNCHANGED fileVars
      /\ \A k \in DOMAIN db' : \E j \in DOMAIN list : db'[k] = list[j]
  <2>1. \A k \in DOMAIN Delete(list, cur) : \E j \in DOMAIN list : Delete(list, cur)[k] = list[j]
    BY <1>3, DeleteKeeps DEF From
  <2>2. db' = list \/ db' = Delete(list, cur)
    BY <1>1 DEF Search
  <2> QED BY <2>1, <2>2 DEF Search
<1>5. DbInv'
  <2>1. \A k \in DOMAIN db' : \E j \in DOMAIN db : db'[k] = db[j]
    BY <1>3, <1>4
  <2> QED BY <1>4, <2>1, DbKept
<1>6. PICK m, s : /\ meta' = [meta EXCEPT ![cur].md5 = m]
                  /\ Execute(s) \/ UNCHANGED reportVars
                  /\ \/ m = meta[cur].md5 /\ s = Blank
                     \/ /\ i > 0 /\ m = list[i].meta.md5 /\ s = list[i].state
                        /\ ~Mistaken(list, cur)
  BY <1>1, <1>2 DEF Search
<1>7. m \in Contents \cup {None} /\ m \in {None, content[cur]} /\ \A p \in Parts : s[p] \in {None, content[cur]}
  <2>1. CASE m = meta[cur].md5 /\ s = Blank
    <3>1. meta[cur].md5 \in Contents \cup {None}
      BY DEF TypeOK, Metas
    <3> QED BY <2>1, <3>1 DEF TaskInv, Blank
  <2>2. CASE i > 0 /\ m = list[i].meta.md5 /\ s = list[i].state /\ ~Mistaken(list, cur)
    <3>1. PICK e \in Entries : e = list[i]
      BY <1>3, <2>2
    <3>2. Honest(e) /\ Unchanged(e)
      BY <1>3, <2>2, <3>1 DEF DbInv
    <3>3. m = e.meta.md5 /\ s = e.state /\ Matches(e, cur)
      BY <1>3, <2>2, <3>1
    <3>4. e.meta.md5 \in Contents \cup {None}
      BY DEF Entries, Metas
    <3>5. CASE e.path = cur
      BY <3>2, <3>3, <3>4, <3>5 DEF Honest
    <3>6. CASE e.path # cur
      <4>1. m = meta[cur].md5
        BY <3>3, <3>6 DEF Matches, EqualLengthMD5
      <4>2. m # None
        BY <1>2, <2>2, <3>1, <3>3, <3>6, <4>1 DEF Mistaken, Foreign, Matches
      <4>3. m = content[cur] /\ m = content[e.path]
        BY <3>2, <3>3, <4>1, <4>2 DEF Honest, TaskInv
      <4> QED BY <3>2, <3>3, <3>4, <4>3 DEF Honest
    <3> QED BY <3>5, <3>6
  <2> QED BY <1>6, <2>1, <2>2
<1>8. \A f \in Paths : meta'[f].md5 \in {None, content[f]} /\ meta'[f].mtime = meta[f].mtime
  <2>1. meta \in [Paths -> Metas] /\ meta[cur] \in Metas
    BY DEF TypeOK
  <2>2. PICK n : n = [meta[cur] EXCEPT !.md5 = m]
    OBVIOUS
  <2>3. n.md5 = m /\ n.mtime = meta[cur].mtime
    BY <1>7, <2>1, <2>2, Md5Fields
  <2>4. meta' = [meta EXCEPT ![cur] = n]
    BY <1>6, <2>2
  <2> QED BY <1>7, <2>1, <2>3, <2>4 DEF TaskInv
<1>9. meta[cur].mtime = mtime[cur]
  BY DEF TaskInv, Working
<1>10. /\ \A f \in Paths : reporter'[f] # "off" =>
            meta[f].mtime = mtime[f] /\ \A p \in Parts : sums'[f][p] \in {None, content[f]}
       /\ \A f \in Paths : reporter'[f] \in {"find", "put"} =>
            \A p \in Parts : shot'[f][p] \in {None, content[f]}
  <2>1. CASE UNCHANGED reportVars
    BY <2>1 DEF TaskInv
  <2>2. CASE Execute(s)
    BY <1>7, <1>9, <2>2, ExecuteKeeps
  <2> QED BY <1>6, <2>1, <2>2
<1>11. TaskInv'
  BY <1>4, <1>8, <1>9, <1>10 DEF TaskInv, Search
<1> QED BY <1>5, <1>11

\* Opening the file: the task and the entries that share its meta data have the
\* time of the file.
LEMMA OpenKept ==
  ASSUME TypeOK, cur \in Paths, DbInv, TaskInv, pc = "search", OpenPath
  PROVE  DbInv' /\ TaskInv'
<1>1. UNCHANGED <<fileVars, cur, reportVars>>
  BY DEF OpenPath
<1>2. CASE pc' = "top" /\ UNCHANGED <<meta, db>>
  BY <1>1, <1>2, DbKept DEF TaskInv, Working
<1>3. CASE /\ pc' = "control" /\ meta' = [meta EXCEPT ![cur] = Refreshed(meta[cur])]
           /\ db' \in Seq(Entries) /\ DOMAIN db' = DOMAIN db
           /\ \A i \in DOMAIN db :
                \/ db'[i] = db[i] /\ ~(db[i].own /\ db[i].path = cur)
                \/ /\ db[i].own /\ db[i].path = cur
                   /\ db'[i] = [db[i] EXCEPT !.meta = Refreshed(db[i].meta)]
  <2>1. ASSUME NEW k \in DOMAIN db' PROVE Honest(db[k])' /\ (db'[k].own => Unchanged(db[k])')
    <3>1. PICK e \in Entries : e = db[k]
      BY <1>3 DEF TypeOK
    <3>2. Honest(e) /\ (e.own => Unchanged(e)) /\ e.meta \in Metas
      BY <1>3, <3>1 DEF DbInv, Entries
    <3>3. CASE db'[k] = db[k]
      <4>1. Honest(e)' /\ (e.own => Unchanged(e)')
        BY <1>1, <3>2, HonestKept
      <4> QED BY <3>1, <3>3, <4>1 DEF Honest, Unchanged
    <3>4. CASE e.own /\ e.path = cur /\ db'[k] = [e EXCEPT !.meta = Refreshed(e.meta)]
      <4>1. PICK m : m = Refreshed(e.meta)
        OBVIOUS
      <4>2. m \in Metas /\ m.md5 = e.meta.md5 /\ m.mtime = mtime[cur]
        BY <3>2, <4>1, RefreshedIs
      <4>3. PICK n : n = [e EXCEPT !.meta = m]
        OBVIOUS
      <4>4. n.meta = m /\ n.path = e.path /\ n.state = e.state /\ n.own = e.own /\ db'[k] = n
        <5>1. db'[k] = n
          BY <3>4, <4>1, <4>3
        <5>2. n.meta = m /\ n.path = e.path /\ n.state = e.state /\ n.own = e.own
          BY <4>2, <4>3, EntryFields
        <5> QED BY <5>1, <5>2
      <4>5. mtime[cur] <= mtime[cur]
        BY Constants DEF TypeOK
      <4>6. Honest(n)' /\ Unchanged(n)'
        BY <1>1, <3>2, <3>4, <4>2, <4>4, <4>5 DEF Honest, Unchanged
      <4> QED BY <4>4, <4>6 DEF Honest, Unchanged
    <3> QED BY <1>3, <3>1, <3>3, <3>4
  <2>2. DbInv'
    BY <2>1 DEF DbInv
  <2>3. meta[cur] \in Metas /\ meta \in [Paths -> Metas]
    BY DEF TypeOK
  <2>4. /\ meta'[cur].md5 = meta[cur].md5 /\ meta'[cur].mtime = mtime[cur]
        /\ \A f \in Paths : f # cur => meta'[f] = meta[f]
    BY <1>3, <2>3, RefreshedIs
  <2>5. TaskInv'
    BY <1>1, <1>3, <2>4 DEF TaskInv, Working
  <2> QED BY <2>2, <2>5
<1> QED BY <1>2, <1>3, OpenIs

\* A modification between two runs: what the database file says of the file is
\* about an earlier time from now on.
LEMMA ModifyKept ==
  ASSUME TypeOK, StageInv, Trust, ~excused, Modify
  PROVE  DiskInv' /\ DbInv' /\ TaskInv'
<1>1. PICK f \in Paths, c \in Contents : ModifyTo(f, c)
  BY DEF Modify
<1>2. /\ UNCHANGED <<dbVars, taskVars, pc, cur, reportVars>>
      /\ content' = [content EXCEPT ![f] = c] /\ mtime' = [mtime EXCEPT ![f] = mtime[f] + 1]
      /\ pc = "down" /\ db = <<>> /\ \A g \in Paths : meta[g].md5 = None /\ reporter[g] = "off"
  BY <1>1 DEF ModifyTo, Modify, StageInv
<1>3. DbInv'
  BY <1>2 DEF DbInv
<1>4. TaskInv'
  BY <1>2 DEF TaskInv, Working
<1>5. ASSUME NEW i \in DOMAIN disk PROVE Honest(disk[i])' /\ ~disk[i].own
  <2>1. PICK e \in Entries : e = disk[i]
    BY DEF TypeOK
  <2>2. Honest(e) /\ ~e.own /\ e.path \in Paths /\ e.meta.mtime \in Nat
    <3>1. e.path \in Paths /\ e.meta.mtime \in Nat
      BY Constants DEF Entries, Metas
    <3> QED BY <2>1, <3>1 DEF Trust, DiskInv
  <2>3. mtime \in [Paths -> 0..MaxEvents] /\ content \in [Paths -> Contents] /\ mtime[f] \in Nat
    BY Constants DEF TypeOK
  <2>4. CASE e.path = f
    <3>1. mtime'[e.path] = mtime[f] + 1 /\ e.meta.mtime <= mtime[f]
      BY <1>2, <2>2, <2>3, <2>4 DEF Honest
    <3>2. Honest(e)'
      BY <2>2, <2>3, <3>1 DEF Honest, Unchanged
    <3> QED BY <1>2, <2>1, <2>2, <3>2
  <2>5. CASE e.path # f
    <3>1. mtime'[e.path] = mtime[e.path] /\ content'[e.path] = content[e.path]
      BY <1>2, <2>2, <2>3, <2>5
    <3>2. Honest(e)'
      BY <2>2, <3>1 DEF Honest, Unchanged
    <3> QED BY <1>2, <2>1, <2>2, <3>2
  <2> QED BY <2>4, <2>5
<1>6. DiskInv'
  BY <1>2, <1>5 DEF DiskInv
<1> QED BY <1>3, <1>4, <1>6

LEMMA TrustStep ==
  ASSUME TypeOK, StageInv, Trust, [Next]_vars
  PROVE  Trust'
<1> SUFFICES ASSUME ~excused' PROVE DiskInv' /\ DbInv' /\ TaskInv' /\ ~mixed'
  BY DEF Trust
<1>1. ~excused
  BY Cases DEF vars, Run, WriteAt, Modify, Touch, Crash, Terminated, End, TakeFront, OpenPath, Search,
    RapidUpload, RapidUploadFails, StoreRapid, UploadPart, Success, Expired, Retry, Wake, GiveUp,
    Tick, Find, Put, Panic, Leave
<1>2. DiskInv /\ DbInv /\ TaskInv /\ ~mixed
  BY <1>1 DEF Trust
<1>3. CASE Run
  <2>1. UNCHANGED <<fileVars, disk, meta, cur, reportVars, mixed>> /\ db' = disk /\ pc' = "top"
    BY <1>3 DEF Run, StageInv
  <2>2. DbInv'
    <3> SUFFICES ASSUME NEW k \in DOMAIN db' PROVE Honest(db[k])' /\ ~db'[k].own
      BY DEF DbInv
    <3>1. PICK e : e = disk[k]
      OBVIOUS
    <3>2. Honest(e)' /\ ~e.own
      BY <1>2, <2>1, <3>1, HonestKept DEF DiskInv
    <3> QED BY <2>1, <3>1, <3>2 DEF Honest, Unchanged
  <2>3. TaskInv'
    BY <1>2, <2>1 DEF TaskInv, Working
  <2> QED BY <1>2, <2>1, <2>2, <2>3, DiskKept
<1>4. CASE WriteAt
  <2>1. /\ UNCHANGED <<fileVars, db, meta, pc, cur, reportVars, mixed>>
        /\ disk' = [i \in DOMAIN db |-> [db[i] EXCEPT !.own = FALSE]]
    BY <1>4 DEF WriteAt
  <2>2. DiskInv'
    <3> SUFFICES ASSUME NEW k \in DOMAIN disk' PROVE Honest(disk[k])' /\ ~disk'[k].own
      BY DEF DiskInv
    <3>1. k \in DOMAIN db
      BY <2>1
    <3>2. PICK e \in Entries : e = db[k]
      BY <3>1 DEF TypeOK
    <3>3. PICK n : n = [e EXCEPT !.own = FALSE]
      OBVIOUS
    <3>4. n.path = e.path /\ n.meta = e.meta /\ n.state = e.state /\ n.own = FALSE
      BY <3>3, EntryFields
    <3>5. Honest(e)
      BY <1>2, <3>1, <3>2 DEF DbInv
    <3>6. Honest(n)'
      BY <2>1, <3>4, <3>5, HonestKept
    <3>7. disk'[k] = n
      BY <2>1, <3>1, <3>2, <3>3
    <3> QED BY <3>4, <3>6, <3>7 DEF Honest, Unchanged
  <2>3. DbInv'
    BY <1>2, <2>1, DbKept
  <2>4. TaskInv'
    BY <1>2, <2>1 DEF TaskInv, Working
  <2> QED BY <1>2, <2>1, <2>2, <2>3, <2>4
<1>5. CASE Modify
  <2>1. mixed' = mixed
    BY <1>5 DEF Modify, ModifyTo
  <2> QED BY <1>1, <1>2, <1>5, <2>1, ModifyKept
<1>6. CASE Touch
  BY <1>6 DEF Touch
<1>7. ASSUME Stop, UNCHANGED <<fileVars, disk, mixed>> PROVE DiskInv' /\ DbInv' /\ TaskInv' /\ ~mixed'
  <2>1. /\ db' = <<>> /\ pc' = "down" /\ meta' = NoMeta
        /\ reporter' = [f \in Paths |-> "off"]
    BY <1>7 DEF Stop
  <2>2. DbInv'
    BY <2>1 DEF DbInv
  <2>3. TaskInv'
    BY <1>7, <2>1, Constants DEF TaskInv, Working
  <2> QED BY <1>2, <1>7, <2>2, <2>3, DiskKept
<1>8. CASE TakeFront
  <2>1. UNCHANGED <<fileVars, disk, db, meta, reportVars, mixed>> /\ pc' = "search"
    BY <1>8 DEF TakeFront
  <2>2. TaskInv'
    BY <1>2, <2>1 DEF TaskInv, Working
  <2> QED BY <1>2, <2>1, <2>2, DiskKept, DbKept
<1>9. CASE OpenPath
  <2>1. cur \in Paths /\ UNCHANGED <<fileVars, disk, mixed>> /\ pc = "search"
    BY <1>9 DEF OpenPath, StageInv, Working
  <2> QED BY <1>2, <1>9, <2>1, DiskKept, OpenKept
<1>10. CASE Search
  <2>1. cur \in Paths /\ UNCHANGED <<fileVars, disk, mixed>> /\ pc = "control"
    BY <1>10 DEF Search, StageInv, Working
  <2> QED BY <1>2, <1>10, <2>1, DiskKept, SearchKept
<1>11. CASE RapidUpload \/ RapidUploadFails
  <2>1. /\ UNCHANGED <<fileVars, disk, db, cur, reportVars, mixed>> /\ pc = "rapid" /\ pc' \in {"top", "store"}
        /\ meta' = [meta EXCEPT ![cur] = [@ EXCEPT !.md5 = content[cur]]] /\ cur \in Paths
    BY <1>11 DEF RapidUpload, RapidUploadFails, StageInv, Working
  <2>2. meta[cur] \in Metas /\ meta \in [Paths -> Metas] /\ content[cur] \in Contents \cup {None}
    BY <2>1 DEF TypeOK
  <2>3. PICK n : n = [meta[cur] EXCEPT !.md5 = content[cur]]
    OBVIOUS
  <2>4. n.md5 = content[cur] /\ n.mtime = meta[cur].mtime
    BY <2>2, <2>3, Md5Fields
  <2>5. meta' = [meta EXCEPT ![cur] = n]
    BY <2>1, <2>3
  <2>6. TaskInv'
    BY <1>2, <2>1, <2>2, <2>4, <2>5 DEF TaskInv, Working
  <2> QED BY <1>2, <2>1, <2>6, DiskKept, DbKept
<1>12. CASE StoreRapid
  <2>1. /\ UNCHANGED <<fileVars, disk, meta, cur, mixed>> /\ pc = "store" /\ cur \in Paths
        /\ db' = UpdateUploading(db, Match(db, cur), cur, Blank) /\ Execute(Blank)
    BY <1>12 DEF StoreRapid, Save, StageInv, Working
  <2>2. meta[cur].mtime = mtime[cur] /\ meta[cur].md5 \in {None, content[cur]}
    BY <1>2, <2>1 DEF TaskInv, Working
  <2>3. Match(db, cur) \in Nat /\ Match(db, cur) <= Len(db) /\ Blank \in States
        /\ \A p \in Parts : Blank[p] = None
    BY MatchBound, Constants DEF TypeOK, Blank
  <2>4. DbInv'
    BY <1>2, <2>1, <2>2, <2>3, UpdateKept
  <2>5. /\ \A f \in Paths : reporter'[f] # "off" =>
             meta[f].mtime = mtime[f] /\ \A p \in Parts : sums'[f][p] \in {None, content[f]}
        /\ \A f \in Paths : reporter'[f] \in {"find", "put"} =>
             \A p \in Parts : shot'[f][p] \in {None, content[f]}
    BY <1>2, <2>1, <2>2, <2>3, ExecuteKeeps
  <2>6. TaskInv'
    BY <1>2, <2>1, <2>2, <2>5 DEF TaskInv, Execute, Working
  <2> QED BY <1>2, <2>1, <2>4, <2>6, DiskKept
<1>13. ASSUME NEW p \in Parts, UploadPart(p) PROVE DiskInv' /\ DbInv' /\ TaskInv' /\ ~mixed'
  <2>1. /\ UNCHANGED <<fileVars, disk, db, meta, pc, cur, reporter, shot, mixed>>
        /\ pc = "upload" /\ cur \in Paths
        /\ sums' = [sums EXCEPT ![cur] = [@ EXCEPT ![p] = content[cur]]]
    BY <1>13 DEF UploadPart, StageInv, Working
  <2>2. \A f \in Paths, r \in Parts : sums'[f][r] = sums[f][r] \/ (f = cur /\ sums'[f][r] = content[f])
    BY <2>1 DEF TypeOK, States
  <2>3. TaskInv'
    BY <1>2, <2>1, <2>2 DEF TaskInv, Working
  <2> QED BY <1>2, <2>1, <2>3, DiskKept, DbKept
<1>14. CASE Success \/ Expired
  <2>1. /\ UNCHANGED <<fileVars, disk, meta, cur, reportVars>> /\ pc = "upload" /\ pc' = "top"
        /\ db' = Delete(db, cur)
        /\ mixed' = mixed \/ mixed' = (mixed \/ \E p \in Parts : sums[cur][p] # content[cur])
        /\ \A p \in Parts : sums[cur][p] # None
        /\ cur \in Paths /\ reporter[cur] # "off"
    BY <1>14 DEF Success, Expired, Uploaded, Save, StageInv, Working
  <2>2. ~mixed'
    BY <1>2, <2>1 DEF TaskInv
  <2>3. \A k \in DOMAIN db' : \E i \in DOMAIN db : db'[k] = db[i]
    BY <2>1, DeleteKeeps DEF TypeOK, From
  <2>4. TaskInv'
    BY <1>2, <2>1 DEF TaskInv, Working
  <2> QED BY <1>2, <2>1, <2>2, <2>3, <2>4, DiskKept, DbKept
<1>15. CASE Retry \/ Wake \/ GiveUp \/ Terminated \/ UNCHANGED vars
  <2>1. /\ UNCHANGED <<fileVars, disk, db, meta, cur, reportVars, mixed>>
        /\ pc' = pc \/ pc' \in {"top", "sleep"}
    BY <1>15 DEF Retry, Wake, GiveUp, Terminated, vars
  <2>2. TaskInv'
    BY <1>2, <2>1 DEF TaskInv, Working
  <2> QED BY <1>2, <2>1, <2>2, DiskKept, DbKept
<1>16. ASSUME NEW f \in Paths, Tick(f) \/ Find(f) \/ Leave(f) PROVE DiskInv' /\ DbInv' /\ TaskInv' /\ ~mixed'
  <2>1. /\ UNCHANGED <<fileVars, disk, db, meta, pc, cur, mixed>>
        /\ \A g \in Paths : reporter'[g] # "off" => reporter[g] # "off"
        /\ \A g \in Paths : sums'[g] = sums[g] \/ sums'[g] = Blank
        /\ \A g \in Paths : reporter'[g] \in {"find", "put"} =>
             (reporter[g] \in {"find", "put"} /\ shot'[g] = shot[g]) \/ shot'[g] = sums[g]
    BY <1>16 DEF Tick, Find, Leave, TypeOK
  <2>2. TaskInv'
    BY <1>2, <2>1 DEF TaskInv, Working, Blank
  <2> QED BY <1>2, <2>1, <2>2, DiskKept, DbKept
<1>17. ASSUME NEW f \in Paths, Put(f) PROVE DiskInv' /\ DbInv' /\ TaskInv' /\ ~mixed'
  <2>1. /\ UNCHANGED <<fileVars, disk, meta, pc, cur, sums, mixed>> /\ reporter[f] = "put"
        /\ db' = UpdateUploading(db, found[f], f, shot[f])
        /\ found[f] \in Nat /\ found[f] <= Len(db) /\ shot[f] \in States
        /\ found[f] > 0 => ~Foreign(db[found[f]], f)
        /\ \A g \in Paths : reporter'[g] # "off" => reporter[g] # "off"
        /\ \A g \in Paths : reporter'[g] \in {"find", "put"} =>
             reporter[g] \in {"find", "put"} /\ shot'[g] = shot[g]
    BY <1>17 DEF Put, Save, TypeOK
  <2>2. /\ meta[f].mtime = mtime[f] /\ meta[f].md5 \in {None, content[f]}
        /\ \A p \in Parts : shot[f][p] \in {None, content[f]}
    BY <1>2, <2>1 DEF TaskInv
  <2>3. DbInv'
    BY <1>2, <2>1, <2>2, UpdateKept
  <2>4. TaskInv'
    BY <1>2, <2>1 DEF TaskInv, Working, Blank
  <2> QED BY <1>2, <2>1, <2>3, <2>4, DiskKept
<1>18. End \/ Crash \/ (\E f \in Paths : Panic(f)) => Stop /\ UNCHANGED <<fileVars, disk, mixed>>
  BY DEF End, Crash, Panic
<1> QED BY <1>3, <1>4, <1>5, <1>6, <1>7, <1>8, <1>9, <1>10, <1>11, <1>12, <1>13, <1>14, <1>15, <1>16,
  <1>17, <1>18, Cases

-------------------------------------------------------------------------------
LEMMA Invariance == Spec => [](TypeOK /\ TimesInv /\ StageInv /\ Trust)
<1>1. Init => TypeOK /\ TimesInv /\ StageInv /\ Trust
  <2> SUFFICES ASSUME Init PROVE TypeOK /\ TimesInv /\ StageInv /\ Trust
    OBVIOUS
  <2>1. TypeOK
    BY InitTypes
  <2>2. TimesInv
    BY DEF Init, TimesInv
  <2>3. StageInv
    BY Constants DEF Init, StageInv, Working
  <2>4. Trust
    BY Constants DEF Init, Trust, DiskInv, DbInv, TaskInv, Working
  <2> QED BY <2>1, <2>2, <2>3, <2>4
<1>2. TypeOK /\ TimesInv /\ StageInv /\ Trust /\ [Next]_vars => (TypeOK /\ TimesInv /\ StageInv /\ Trust)'
  BY TypesStep, StageStep, TrustStep
<1> QED BY <1>1, <1>2, PTL DEF Spec

\* The upload queue and its database keep their types (RunUpload and
\* UploadingDatabase): the entries in memory and in the file are of files of
\* the command line, retries stay within their limit, and a file has been
\* modified no more often than the environment may do so.
THEOREM UploadQueueTypeCorrect == Spec => []TypeOK
BY Invariance, PTL

\* As long as none of the excused cases has occurred, an entry of the database file
\* whose file has the time it was stored with has the MD5 and the checksums of
\* what that file contains: a crash between any two steps, or a state stored
\* late, leaves nothing in the file that a later run could resume from wrongly
\* (UpdateUploading, Save, clearModTimeChange).
THEOREM StoredStatesAreHonest == Spec => [](~excused => DiskInv)
<1>1. Trust => (~excused => DiskInv)
  BY DEF Trust
<1> QED BY <1>1, Invariance, PTL

\* What an upload puts together is the file as it is on disk, whatever was
\* stored in the database by other runs, for other files or before a crash;
\* the three cases UploadedIsLocal excuses apart (Search, UpdateUploading,
\* clearModTimeChange, and OnSuccess with the checksums of all parts).
THEOREM UploadsLocalFile == Spec => []UploadedIsLocal
<1>1. Trust => UploadedIsLocal
  BY DEF Trust, UploadedIsLocal
<1> QED BY <1>1, Invariance, PTL

-------------------------------------------------------------------------------
(* One entry for each file *)

Once(list) == \A i, j \in DOMAIN list : list[i].path = list[j].path => i = j

\* The database, in memory and in the file, has one entry at most for each file of
\* the command line, and so no more entries than there are files.
OneEntryPerFile ==
  /\ Once(db) /\ Len(db) <= Cardinality(Paths)
  /\ Once(disk) /\ Len(disk) <= Cardinality(Paths)

\* Nothing is put on the list twice, and while its reporter has not ended a file is
\* not taken off it again: nobody adds an entry that the reporter did not find.
Waiting(f) == \E i \in DOMAIN queue : queue[i] = f
QueueInv ==
  /\ \A i, j \in DOMAIN queue : queue[i] = queue[j] => i = j
  /\ pc \in Working => ~Waiting(cur)
  /\ \A f \in Paths : reporter[f] # "off" =>
       /\ pc # "sleep" => ~Waiting(f)
       /\ pc \in Working \ {"upload"} => cur # f
FoundInv ==
  \A f \in Paths : reporter[f] = "put" /\ found[f] = 0 => \A i \in DOMAIN db : db[i].path # f

\* A list with some entries left out, each taken from a position of its own.
Part(new, old) ==
  \E g \in [DOMAIN new -> DOMAIN old] : \A k, l \in DOMAIN new :
    new[k] = old[g[k]] /\ (g[k] = g[l] => k = l)

LEMMA PartIs ==
  ASSUME NEW old, NEW new, NEW g \in [DOMAIN new -> DOMAIN old],
         \A k \in DOMAIN new : new[k] = old[g[k]],
         \A k, l \in DOMAIN new : g[k] = g[l] => k = l
  PROVE  Part(new, old)
BY Zenon DEF Part

LEMMA PartOnce ==
  ASSUME NEW old, NEW new, Once(old), Part(new, old)
  PROVE  Once(new)
<1>1. PICK g \in [DOMAIN new -> DOMAIN old] : \A k, l \in DOMAIN new :
        new[k] = old[g[k]] /\ (g[k] = g[l] => k = l)
  BY DEF Part
<1> QED BY <1>1 DEF Once

LEMMA SameOnce ==
  ASSUME NEW old, NEW new, Once(old), DOMAIN new = DOMAIN old,
         \A i \in DOMAIN old : new[i].path = old[i].path
  PROVE  Once(new)
BY DEF Once

LEMMA ClearPart ==
  ASSUME NEW list \in Seq(Entries)
  PROVE  Part(ClearModTimeChange(list), list)
<1> DEFINE kept == {i \in DOMAIN list : Unchanged(list[i])}
           n == Cardinality(kept)
           order == CHOOSE q \in [1..n -> kept] : \A i, j \in DOMAIN q : i < j => q[i] < q[j]
<1>1. kept \in SUBSET Nat /\ IsFiniteSet(kept) /\ kept \subseteq DOMAIN list
  <2>1. DOMAIN list = 1..Len(list) /\ Len(list) \in Nat
    OBVIOUS
  <2>2. IsFiniteSet(1..Len(list)) /\ kept \in SUBSET (1..Len(list))
    BY <2>1, FS_Interval
  <2> QED BY <2>1, <2>2, FS_Subset
<1>2. n \in Nat
  BY <1>1, FS_CardinalityType
<1>3. order \in [1..n -> kept] /\ \A i, j \in DOMAIN order : i < j => order[i] < order[j]
  BY <1>1, AscendingExists DEF Ascending
<1>4. ClearModTimeChange(list) = [i \in 1..n |-> list[order[i]]]
  BY DEF ClearModTimeChange
<1> HIDE DEF kept, n, order
<1>5. \A k, l \in 1..n : order[k] = order[l] => k = l
  <2> SUFFICES ASSUME NEW k \in 1..n, NEW l \in 1..n, order[k] = order[l] PROVE k = l
    OBVIOUS
  <2>1. k \in Nat /\ l \in Nat /\ DOMAIN order = 1..n /\ order[k] \in kept
    BY <1>2, <1>3
  <2>2. \A i \in kept : i \in Nat
    BY <1>1
  <2>3. order[k] \in Nat /\ ~(order[k] < order[k])
    BY <2>1, <2>2
  <2>4. ~(k < l) /\ ~(l < k)
    BY <1>3, <2>1, <2>3
  <2> QED BY <2>1, <2>4
<1>6. order \in [1..n -> DOMAIN list]
  BY <1>1, <1>3
<1>7. PICK new : new = ClearModTimeChange(list)
  OBVIOUS
<1>8. DOMAIN new = 1..n /\ \A k \in 1..n : new[k] = list[order[k]]
  BY <1>4, <1>7
<1>9. Part(new, list)
  <2>1. order \in [DOMAIN new -> DOMAIN list]
    BY <1>6, <1>8
  <2>2. \A k \in DOMAIN new : new[k] = list[order[k]]
    BY <1>8
  <2>3. \A k, l \in DOMAIN new : order[k] = order[l] => k = l
    BY <1>5, <1>8
  <2> QED BY <2>1, <2>2, <2>3, PartIs
<1> QED BY <1>7, <1>9

LEMMA RemovePart ==
  ASSUME NEW list \in Seq(Entries), NEW i \in DOMAIN list
  PROVE  Part(RemoveAt(list, i), list)
<1> DEFINE a == SubSeq(list, 1, i - 1)
           b == SubSeq(list, i + 1, Len(list))
           g == [k \in 1..(Len(list) - 1) |-> IF k < i THEN k ELSE k + 1]
<1>1. /\ Len(list) \in Nat /\ DOMAIN list = 1..Len(list) /\ i \in 1..Len(list)
      /\ a \in Seq(Entries) /\ Len(a) = i - 1
      /\ b \in Seq(Entries) /\ Len(b) = Len(list) - i
      /\ \A k \in 1..(i - 1) : a[k] = list[k]
      /\ \A k \in 1..(Len(list) - i) : b[k] = list[i + k]
  OBVIOUS
<1>2. PICK c : c = RemoveAt(list, i)
  OBVIOUS
<1>3. c = a \o b
  BY <1>2 DEF RemoveAt
<1> HIDE DEF a, b
<1>4. /\ DOMAIN c = 1..(Len(a) + Len(b))
      /\ \A k \in 1..Len(a) : c[k] = a[k]
      /\ \A k \in 1..Len(b) : c[Len(a) + k] = b[k]
  <2>1. a \in Seq(Entries) /\ b \in Seq(Entries)
    BY <1>1
  <2> QED BY <1>3, <2>1, Concatenation
<1>5. /\ DOMAIN c = 1..(Len(list) - 1)
      /\ \A k \in 1..(i - 1) : c[k] = list[k]
      /\ \A k \in 1..(Len(list) - i) : c[(i - 1) + k] = list[i + k]
  <2>1. Len(a) + Len(b) = Len(list) - 1
    BY <1>1
  <2> QED BY <1>1, <1>4, <2>1
<1>6. ASSUME NEW k \in 1..(Len(list) - 1)
      PROVE  g[k] \in 1..Len(list) /\ c[k] = list[g[k]]
  <2>1. CASE k < i
    <3>1. k \in 1..(i - 1) /\ g[k] = k
      BY <1>1, <2>1
    <3> QED BY <1>1, <1>5, <3>1
  <2>2. CASE ~(k < i)
    <3>1. PICK m \in 1..(Len(list) - i) : (i - 1) + m = k
      <4>1. k - (i - 1) \in 1..(Len(list) - i) /\ (i - 1) + (k - (i - 1)) = k
        BY <1>1, <2>2
      <4> QED BY <4>1
    <3>2. g[k] = i + m /\ i + m \in 1..Len(list)
      BY <1>1, <2>2, <3>1
    <3> QED BY <1>5, <3>1, <3>2
  <2> QED BY <2>1, <2>2
<1>7. \A k, l \in 1..(Len(list) - 1) : g[k] = g[l] => k = l
  BY <1>1
<1>8. g \in [1..(Len(list) - 1) -> 1..Len(list)]
  BY <1>6
<1> HIDE DEF g
<1>9. Part(c, list)
  <2>1. g \in [DOMAIN c -> DOMAIN list]
    BY <1>1, <1>5, <1>8
  <2>2. \A k \in DOMAIN c : c[k] = list[g[k]]
    BY <1>5, <1>6
  <2>3. \A k, l \in DOMAIN c : g[k] = g[l] => k = l
    BY <1>5, <1>7
  <2> QED BY <2>1, <2>2, <2>3, PartIs
<1> QED BY <1>2, <1>9

LEMMA DeleteOnce ==
  ASSUME NEW list \in Seq(Entries), NEW f, Once(list)
  PROVE  Once(Delete(list, f))
<1>1. PICK i : i = Match(list, f)
  OBVIOUS
<1>2. CASE i > 0
  <2>1. i \in DOMAIN list /\ Delete(list, f) = RemoveAt(list, i)
    BY <1>1, <1>2, MatchIs DEF Delete
  <2> QED BY <2>1, RemovePart, PartOnce
<1>3. CASE ~(i > 0)
  BY <1>1, <1>3 DEF Delete
<1> QED BY <1>2, <1>3

\* An entry is added only when none has the path.
LEMMA NoMatch ==
  ASSUME db \in Seq(Entries), NEW f, ~(Match(db, f) > 0)
  PROVE  \A i \in DOMAIN db : db[i].path # f
<1> DEFINE hits == {i \in DOMAIN db : Matches(db[i], f)}
<1>1. hits \in SUBSET Nat /\ \A i \in hits : i > 0
  OBVIOUS
<1>2. hits = {}
  <2> SUFFICES ASSUME hits # {} PROVE FALSE
    OBVIOUS
  <2>1. \E i \in hits : \A j \in hits : i <= j
    BY <1>1, FirstExists
  <2>2. Match(db, f) = CHOOSE i \in hits : \A j \in hits : i <= j
    BY DEF Match
  <2> HIDE DEF hits
  <2>3. Match(db, f) \in hits
    BY <2>1, <2>2
  <2> QED BY <1>1, <2>3
<1> QED BY <1>2 DEF Matches

LEMMA UpdateOnce ==
  ASSUME TypeOK, Once(db), NEW f \in Paths, NEW s \in States, NEW i \in Nat, i <= Len(db),
         i = 0 => \A k \in DOMAIN db : db[k].path # f
  PROVE  Once(UpdateUploading(db, i, f, s))
<1>d. db \in Seq(Entries)
  BY DEF TypeOK
<1>2. PICK new : new = UpdateUploading(db, i, f, s)
  OBVIOUS
<1>3. CASE /\ i \in DOMAIN db
           /\ new = [db EXCEPT ![i] = [@ EXCEPT !.state = s]]
  <2>1. PICK e : e = [db[i] EXCEPT !.state = s]
    OBVIOUS
  <2>2. e.path = db[i].path
    BY <1>3, <1>d, <2>1 DEF Entries
  <2>3. new = [db EXCEPT ![i] = e]
    BY <1>3, <2>1
  <2>4. DOMAIN new = DOMAIN db /\ \A k \in DOMAIN db : new[k].path = db[k].path
    BY <2>2, <2>3
  <2> QED BY <1>2, <2>4, SameOnce
<1>4. CASE /\ i = 0
           /\ new = Append(db, [path |-> f, meta |-> meta[f], state |-> s, own |-> TRUE])
  <2>1. \A k \in DOMAIN db : db[k].path # f
    BY <1>4
  <2>2. PICK e : e = [path |-> f, meta |-> meta[f], state |-> s, own |-> TRUE]
    OBVIOUS
  <2>3. e.path = f
    BY <2>2
  <2>4. /\ Len(db) \in Nat /\ DOMAIN db = 1..Len(db)
        /\ DOMAIN Append(db, e) = 1..(Len(db) + 1)
        /\ Append(db, e)[Len(db) + 1] = e
        /\ \A k \in 1..Len(db) : Append(db, e)[k] = db[k]
    BY <1>d
  <2>5. \A k \in 1..(Len(db) + 1) : k \in 1..Len(db) \/ k = Len(db) + 1
    BY <2>4
  <2>6. new = Append(db, e)
    BY <1>4, <2>2
  <2> QED BY <1>2, <2>1, <2>3, <2>4, <2>5, <2>6 DEF Once
<1> QED BY <1>d, <1>2, <1>3, <1>4, UpdateIs

\* What may happen to the paths of the entries.
NoneAdded == \A k \in DOMAIN db' : \E i \in DOMAIN db : db'[k].path = db[i].path
OneAdded(f) == \A k \in DOMAIN db' : db'[k].path = f \/ \E i \in DOMAIN db : db'[k].path = db[i].path

LEMMA UpdateAdds ==
  ASSUME TypeOK, NEW f \in Paths, NEW s \in States, NEW i \in Nat, i <= Len(db),
         db' = UpdateUploading(db, i, f, s)
  PROVE  OneAdded(f)
<1>1. db \in Seq(Entries)
  BY DEF TypeOK
<1>2. CASE i \in DOMAIN db /\ db' = [db EXCEPT ![i] = [@ EXCEPT !.state = s]]
  <2>1. PICK e : e = [db[i] EXCEPT !.state = s]
    OBVIOUS
  <2>2. e.path = db[i].path
    BY <1>1, <1>2, <2>1 DEF Entries
  <2>3. DOMAIN db' = DOMAIN db /\ \A k \in DOMAIN db : db'[k].path = db[k].path
    BY <1>2, <2>1, <2>2
  <2> QED BY <2>3 DEF OneAdded
<1>3. CASE db' = Append(db, [path |-> f, meta |-> meta[f], state |-> s, own |-> TRUE])
  <2>1. PICK e : e = [path |-> f, meta |-> meta[f], state |-> s, own |-> TRUE]
    OBVIOUS
  <2>2. e.path = f
    BY <2>1
  <2>3. /\ Len(db) \in Nat /\ DOMAIN db = 1..Len(db)
        /\ DOMAIN Append(db, e) = 1..(Len(db) + 1)
        /\ Append(db, e)[Len(db) + 1] = e
        /\ \A k \in 1..Len(db) : Append(db, e)[k] = db[k]
    BY <1>1
  <2>4. \A k \in 1..(Len(db) + 1) : k \in 1..Len(db) \/ k = Len(db) + 1
    BY <2>3
  <2>5. db' = Append(db, e)
    BY <1>3, <2>1
  <2> QED BY <2>2, <2>3, <2>4, <2>5 DEF OneAdded
<1> QED BY <1>1, <1>2, <1>3, UpdateIs

LEMMA OnceStep ==
  ASSUME TypeOK, StageInv, FoundInv, Once(db), Once(disk), [Next]_vars
  PROVE  Once(db)' /\ Once(disk)'
<1>t. db \in Seq(Entries) /\ disk \in Seq(Entries)
  BY DEF TypeOK
<1>0. Once(<<>>)
  BY DEF Once
<1>1. CASE Run
  BY <1>1 DEF Run
<1>2. CASE WriteAt
  <2>1. db' = db /\ disk' = [i \in DOMAIN db |-> [db[i] EXCEPT !.own = FALSE]]
    BY <1>2 DEF WriteAt
  <2>2. ASSUME NEW i \in DOMAIN db PROVE disk'[i].path = db[i].path
    <3>1. PICK e \in Entries : e = db[i]
      BY <1>t
    <3>2. PICK n : n = [e EXCEPT !.own = FALSE]
      OBVIOUS
    <3>3. n.path = e.path
      BY <3>2, EntryFields
    <3>4. disk'[i] = n
      BY <2>1, <3>1, <3>2
    <3> QED BY <3>1, <3>3, <3>4
  <2>3. DOMAIN disk' = DOMAIN db /\ \A i \in DOMAIN db : disk'[i].path = db[i].path
    BY <2>1, <2>2
  <2> QED BY <2>1, <2>3, SameOnce
<1>3. CASE End \/ Crash \/ \E f \in Paths : Panic(f)
  <2>1. Stop /\ disk' = disk
    BY <1>3 DEF End, Crash, Panic
  <2> QED BY <1>0, <2>1 DEF Stop
<1>4. CASE OpenPath
  <2>1. disk' = disk /\ cur \in Paths
    BY <1>4 DEF OpenPath, StageInv, Working
  <2>2. CASE db' = db
    BY <2>1, <2>2
  <2>3. CASE /\ DOMAIN db' = DOMAIN db
             /\ \A i \in DOMAIN db :
                  db'[i] = db[i] \/ db'[i] = [db[i] EXCEPT !.meta = Refreshed(db[i].meta)]
    <3>1. ASSUME NEW i \in DOMAIN db PROVE db'[i].path = db[i].path
      <4>1. PICK e \in Entries : e = db[i]
        BY <1>t
      <4>2. PICK m : m = Refreshed(e.meta)
        OBVIOUS
      <4>3. e.meta \in Metas
        BY DEF Entries
      <4>4. m \in Metas
        BY <2>1, <4>2, <4>3, RefreshedIs
      <4>5. PICK n : n = [e EXCEPT !.meta = m]
        OBVIOUS
      <4>6. n.path = e.path
        BY <4>4, <4>5, EntryFields
      <4>7. db'[i] = e \/ db'[i] = n
        BY <2>3, <4>1, <4>2, <4>5
      <4> QED BY <4>1, <4>6, <4>7
    <3> QED BY <2>1, <2>3, <3>1, SameOnce
  <2> QED BY <1>4, <2>1, <2>2, <2>3, OpenIs
<1>5. CASE Search
  <2>1. PICK list : list = ClearModTimeChange(db)
    OBVIOUS
  <2>2. list \in Seq(Entries) /\ Once(list)
    BY <1>t, <2>1, ClearKeeps, ClearPart, PartOnce
  <2>3. disk' = disk /\ db' \in {list, Delete(list, cur)}
    BY <1>5, <2>1 DEF Search
  <2> QED BY <2>2, <2>3, DeleteOnce
<1>6. CASE StoreRapid
  <2>1. cur \in Paths /\ Blank \in States /\ Match(db, cur) \in Nat /\ Match(db, cur) <= Len(db)
    BY <1>6, <1>t, Constants, MatchBound DEF StoreRapid, StageInv, Working
  <2>2. disk' = disk /\ db' = UpdateUploading(db, Match(db, cur), cur, Blank)
    BY <1>6 DEF StoreRapid, Save
  <2>3. Match(db, cur) = 0 => \A k \in DOMAIN db : db[k].path # cur
    BY <1>t, NoMatch
  <2> QED BY <2>1, <2>2, <2>3, UpdateOnce
<1>7. CASE Success \/ Expired
  <2>1. disk' = disk /\ db' = Delete(db, cur)
    BY <1>7 DEF Success, Expired, Save
  <2> QED BY <1>t, <2>1, DeleteOnce
<1>8. CASE \/ Modify \/ Touch \/ Terminated \/ TakeFront \/ RapidUpload \/ RapidUploadFails
           \/ (\E p \in Parts : UploadPart(p)) \/ Retry \/ Wake \/ GiveUp \/ UNCHANGED vars
           \/ \E f \in Paths : Tick(f) \/ Find(f) \/ Leave(f)
  <2>1. UNCHANGED <<db, disk>>
    BY <1>8 DEF Modify, Touch, ModifyTo, Terminated, TakeFront, RapidUpload, RapidUploadFails,
                UploadPart, Retry, Wake, GiveUp, Tick, Find, Leave, vars
  <2> QED BY <2>1
<1>9. ASSUME NEW f \in Paths, Put(f) PROVE Once(db)' /\ Once(disk)'
  <2>1. /\ disk' = disk /\ db' = UpdateUploading(db, found[f], f, shot[f])
        /\ found[f] \in Nat /\ found[f] <= Len(db) /\ shot[f] \in States /\ reporter[f] = "put"
    BY <1>9 DEF Put, Save, TypeOK
  <2>2. found[f] = 0 => \A k \in DOMAIN db : db[k].path # f
    BY <2>1 DEF FoundInv
  <2> QED BY <2>1, <2>2, UpdateOnce
<1> QED BY <1>1, <1>2, <1>3, <1>4, <1>5, <1>6, <1>7, <1>8, <1>9, Cases

\* Appending what the list does not hold.
LEMMA AppendOnce ==
  ASSUME NEW q \in Seq(Paths), NEW f \in Paths, \A i \in DOMAIN q : q[i] # f,
         \A i, j \in DOMAIN q : q[i] = q[j] => i = j
  PROVE  /\ \A i, j \in DOMAIN Append(q, f) : Append(q, f)[i] = Append(q, f)[j] => i = j
         /\ \A i \in DOMAIN Append(q, f) : Append(q, f)[i] = f \/ \E j \in DOMAIN q : q[j] = Append(q, f)[i]
<1>1. /\ Len(q) \in Nat /\ DOMAIN q = 1..Len(q) /\ DOMAIN Append(q, f) = 1..(Len(q) + 1)
      /\ Append(q, f)[Len(q) + 1] = f /\ \A k \in 1..Len(q) : Append(q, f)[k] = q[k]
  OBVIOUS
<1>2. \A k \in 1..(Len(q) + 1) : k \in 1..Len(q) \/ k = Len(q) + 1
  BY <1>1
<1> QED BY <1>1, <1>2

\* The head of a list without duplicates is not in the tail.
LEMMA TailOnce ==
  ASSUME NEW q \in Seq(Paths), q # <<>>, \A i, j \in DOMAIN q : q[i] = q[j] => i = j
  PROVE  /\ \A i, j \in DOMAIN Tail(q) : Tail(q)[i] = Tail(q)[j] => i = j
         /\ \A i \in DOMAIN Tail(q) : Tail(q)[i] # Head(q) /\ \E j \in DOMAIN q : q[j] = Tail(q)[i]
         /\ \E j \in DOMAIN q : q[j] = Head(q)
<1>1. /\ Len(q) \in Nat /\ Len(q) > 0 /\ DOMAIN q = 1..Len(q) /\ DOMAIN Tail(q) = 1..(Len(q) - 1)
      /\ Head(q) = q[1] /\ \A k \in 1..(Len(q) - 1) : Tail(q)[k] = q[k + 1]
  OBVIOUS
<1>2. \A k \in 1..(Len(q) - 1) : k + 1 \in 1..Len(q) /\ k + 1 # 1
  BY <1>1
<1>3. \A i, j \in 1..(Len(q) - 1) : i + 1 = j + 1 => i = j
  BY <1>1
<1> QED BY <1>1, <1>2, <1>3

LEMMA QueueStep ==
  ASSUME TypeOK, StageInv, QueueInv, [Next]_vars
  PROVE  QueueInv'
<1>0. pc \in Working => pc # "sleep" /\ pc # "top" /\ pc # "down"
  BY DEF Working
<1>1. CASE Run
  <2>1. \A f \in Paths : reporter'[f] = "off"
    BY <1>1 DEF Run, StageInv
  <2>2. queue' = Files /\ pc' = "top" /\ \A i, j \in DOMAIN Files : Files[i] = Files[j] => i = j
    BY <1>1, UploadQueueAssumption DEF Run
  <2> QED BY <2>1, <2>2 DEF QueueInv, Working
<1>2. CASE End \/ Crash \/ \E f \in Paths : Panic(f)
  <2>1. Stop
    BY <1>2 DEF End, Crash, Panic
  <2>2. queue' = <<>> /\ pc' = "down" /\ \A f \in Paths : reporter'[f] = "off"
    BY <2>1 DEF Stop
  <2>3. DOMAIN queue' = {}
    BY <2>2
  <2> QED BY <2>2, <2>3 DEF QueueInv, Working
<1>3. CASE TakeFront
  <2>1. /\ pc = "top" /\ pc' = "search" /\ cur' = Head(queue) /\ queue' = Tail(queue) /\ reporter' = reporter
        /\ queue # <<>> /\ queue \in Seq(Paths)
    BY <1>3 DEF TakeFront, TypeOK
  <2>2. /\ \A i, j \in DOMAIN queue' : queue'[i] = queue'[j] => i = j
        /\ \A i \in DOMAIN queue' : queue'[i] # cur' /\ \E j \in DOMAIN queue : queue[j] = queue'[i]
        /\ \E j \in DOMAIN queue : queue[j] = cur'
    BY <2>1, TailOnce DEF QueueInv
  <2>3. \A f \in Paths : reporter[f] # "off" => ~Waiting(f)
    BY <2>1 DEF QueueInv
  <2> QED BY <2>1, <2>2, <2>3 DEF QueueInv, Waiting, Working
<1>4. CASE Retry
  <2>1. /\ pc = "upload" /\ pc' = "sleep" /\ queue' = Append(queue, cur) /\ cur' = cur /\ reporter' = reporter
        /\ cur \in Paths /\ queue \in Seq(Paths) /\ ~Waiting(cur)
    BY <1>4 DEF Retry, TypeOK, StageInv, QueueInv, Working
  <2>2. \A i, j \in DOMAIN queue' : queue'[i] = queue'[j] => i = j
    BY <2>1, AppendOnce DEF QueueInv, Waiting
  <2> QED BY <2>1, <2>2 DEF QueueInv, Working
<1>5. CASE Wake
  <2>1. pc' = "top" /\ UNCHANGED <<queue, cur, reporter>> /\ \A f \in Paths : reporter[f] = "off"
    BY <1>5 DEF Wake
  <2> QED BY <2>1 DEF QueueInv, Waiting, Working
<1>6. CASE \/ WriteAt \/ Modify \/ Touch \/ Terminated \/ (\E p \in Parts : UploadPart(p)) \/ UNCHANGED vars
  <2>1. UNCHANGED <<pc, queue, cur, reporter>>
    BY <1>6 DEF WriteAt, Modify, Touch, ModifyTo, Terminated, UploadPart, vars
  <2> QED BY <2>1 DEF QueueInv, Waiting
<1>7. CASE OpenPath \/ RapidUpload \/ RapidUploadFails
  <2>1. /\ UNCHANGED <<queue, cur, reporter>> /\ pc \in Working \ {"upload"}
        /\ pc' = "top" \/ pc' \in Working \ {"upload"}
    BY <1>7 DEF OpenPath, RapidUpload, RapidUploadFails, Working
  <2> QED BY <1>0, <2>1 DEF QueueInv, Waiting, Working
<1>8. CASE Success \/ Expired \/ GiveUp
  <2>1. UNCHANGED <<queue, cur, reporter>> /\ pc = "upload" /\ pc' = "top"
    BY <1>8 DEF Success, Expired, GiveUp
  <2> QED BY <1>0, <2>1 DEF QueueInv, Waiting, Working
<1>9. CASE Search \/ StoreRapid
  <2>1. /\ UNCHANGED <<queue, cur>> /\ pc \in Working \ {"upload"} /\ cur \in Paths
        /\ (\E s : Execute(s)) \/ (pc' = "rapid" /\ UNCHANGED reportVars)
    BY <1>9 DEF Search, StoreRapid, StageInv, Working
  <2>2. CASE pc' = "rapid" /\ UNCHANGED reportVars
    BY <1>0, <2>1, <2>2 DEF QueueInv, Waiting, Working
  <2>3. CASE \E s : Execute(s)
    <3>1. pc' = "upload" /\ \A f \in Paths : reporter'[f] # "off" => f = cur \/ reporter[f] # "off"
      BY <2>3 DEF Execute, TypeOK
    <3>2. ~Waiting(cur) /\ \A f \in Paths : reporter[f] # "off" => ~Waiting(f)
      BY <1>0, <2>1 DEF QueueInv
    <3> QED BY <2>1, <3>1, <3>2 DEF QueueInv, Waiting, Working
  <2> QED BY <2>1, <2>2, <2>3
<1>10. ASSUME NEW f \in Paths, Tick(f) \/ Find(f) \/ Put(f) \/ Leave(f) PROVE QueueInv'
  <2>1. /\ UNCHANGED <<pc, queue, cur>>
        /\ \A g \in Paths : reporter'[g] # "off" => reporter[g] # "off"
    BY <1>10 DEF Tick, Find, Put, Leave, TypeOK
  <2> QED BY <2>1 DEF QueueInv, Waiting
<1> QED BY <1>1, <1>2, <1>3, <1>4, <1>5, <1>6, <1>7, <1>8, <1>9, <1>10, Cases

\* While a reporter is about to append, no entry gets the path of its file.
LEMMA FoundKept ==
  ASSUME FoundInv, NoneAdded, \A f \in Paths : reporter'[f] = "put" => reporter[f] = "put" /\ found'[f] = found[f]
  PROVE  FoundInv'
BY DEF FoundInv, NoneAdded

LEMMA FoundStep ==
  ASSUME TypeOK, StageInv, QueueInv, FoundInv, [Next]_vars
  PROVE  FoundInv'
<1>t. db \in Seq(Entries) /\ disk \in Seq(Entries)
  BY DEF TypeOK
<1>1. CASE Run
  <2>1. \A f \in Paths : reporter'[f] = "off"
    BY <1>1 DEF Run, StageInv
  <2> QED BY <2>1 DEF FoundInv
<1>2. CASE End \/ Crash \/ \E f \in Paths : Panic(f)
  <2>1. Stop
    BY <1>2 DEF End, Crash, Panic
  <2> QED BY <2>1 DEF FoundInv, Stop
<1>3. CASE OpenPath
  <2>1. UNCHANGED <<reporter, found>> /\ cur \in Paths
    BY <1>3 DEF OpenPath, StageInv, Working
  <2>2. ASSUME DOMAIN db' = DOMAIN db, NEW i \in DOMAIN db,
               db'[i] = db[i] \/ db'[i] = [db[i] EXCEPT !.meta = Refreshed(db[i].meta)]
        PROVE  db'[i].path = db[i].path
    <3>1. PICK e \in Entries : e = db[i]
      BY <1>t
    <3>2. PICK m : m = Refreshed(e.meta)
      OBVIOUS
    <3>3. m \in Metas
      <4>1. e.meta \in Metas
        BY DEF Entries
      <4> QED BY <2>1, <3>2, <4>1, RefreshedIs
    <3>4. PICK n : n = [e EXCEPT !.meta = m]
      OBVIOUS
    <3>5. n.path = e.path
      BY <3>3, <3>4, EntryFields
    <3>6. db'[i] = e \/ db'[i] = n
      BY <2>2, <3>1, <3>2, <3>4
    <3> QED BY <3>1, <3>5, <3>6
  <2>3. NoneAdded
    BY <1>3, <2>1, <2>2, OpenIs DEF NoneAdded
  <2> QED BY <2>1, <2>3, FoundKept
<1>4. CASE Search
  <2>1. PICK list : list = ClearModTimeChange(db)
    OBVIOUS
  <2>2. /\ list \in Seq(Entries)
        /\ \A k \in DOMAIN list : \E i \in DOMAIN db : list[k] = db[i]
        /\ \A k \in DOMAIN Delete(list, cur) : \E i \in DOMAIN list : Delete(list, cur)[k] = list[i]
    BY <1>t, <2>1, ClearKeeps, DeleteKeeps DEF From
  <2>3. NoneAdded
    <3>1. db' \in {list, Delete(list, cur)}
      BY <1>4, <2>1 DEF Search
    <3> QED BY <2>2, <3>1 DEF NoneAdded
  <2>4. \A f \in Paths : reporter'[f] = "put" => reporter[f] = "put" /\ found'[f] = found[f]
    <3>1. (\E s : Execute(s)) \/ UNCHANGED reportVars
      BY <1>4 DEF Search
    <3> QED BY <3>1 DEF Execute, TypeOK
  <2> QED BY <2>3, <2>4, FoundKept
<1>5. CASE StoreRapid
  <2>1. /\ cur \in Paths /\ Blank \in States /\ Match(db, cur) \in Nat /\ Match(db, cur) <= Len(db)
        /\ pc = "store" /\ db' = UpdateUploading(db, Match(db, cur), cur, Blank) /\ Execute(Blank)
    BY <1>5, <1>t, Constants, MatchBound DEF StoreRapid, Save, StageInv, Working
  <2>2. OneAdded(cur)
    BY <2>1, UpdateAdds
  <2>3. \A f \in Paths : reporter'[f] = "put" => reporter[f] = "put" /\ found'[f] = found[f]
    BY <2>1 DEF Execute, TypeOK
  <2>4. \A f \in Paths : reporter'[f] = "put" => f # cur
    BY <2>1, <2>3 DEF QueueInv, Working
  <2> QED BY <2>2, <2>3, <2>4 DEF FoundInv, OneAdded
<1>6. CASE Success \/ Expired
  <2>1. UNCHANGED <<reporter, found>> /\ db' = Delete(db, cur)
    BY <1>6 DEF Success, Expired, Save
  <2>2. NoneAdded
    BY <1>t, <2>1, DeleteKeeps DEF NoneAdded, From
  <2> QED BY <2>1, <2>2, FoundKept
<1>7. CASE \/ WriteAt \/ Modify \/ Touch \/ Terminated \/ TakeFront \/ RapidUpload \/ RapidUploadFails
           \/ (\E p \in Parts : UploadPart(p)) \/ Retry \/ Wake \/ GiveUp \/ UNCHANGED vars
  <2>1. UNCHANGED <<db, reporter, found>>
    BY <1>7 DEF WriteAt, Modify, Touch, ModifyTo, Terminated, TakeFront, RapidUpload, RapidUploadFails,
                UploadPart, Retry, Wake, GiveUp, vars
  <2> QED BY <2>1 DEF FoundInv
<1>8. ASSUME NEW f \in Paths, Tick(f) \/ Leave(f) PROVE FoundInv'
  <2>1. db' = db /\ \A g \in Paths : reporter'[g] = "put" => reporter[g] = "put" /\ found'[g] = found[g]
    BY <1>8 DEF Tick, Leave, TypeOK
  <2>2. NoneAdded
    BY <2>1 DEF NoneAdded
  <2> QED BY <2>1, <2>2, FoundKept
<1>9. ASSUME NEW f \in Paths, Find(f) PROVE FoundInv'
  <2>1. db' = db /\ \A g \in Paths : g # f => reporter'[g] = reporter[g] /\ found'[g] = found[g]
    BY <1>9 DEF Find, TypeOK
  <2>2. found'[f] = Match(db, f)
    BY <1>9 DEF Find, TypeOK
  <2>3. Match(db, f) = 0 => \A i \in DOMAIN db : db[i].path # f
    BY <1>t, NoMatch
  <2> QED BY <2>1, <2>2, <2>3 DEF FoundInv
<1>10. ASSUME NEW f \in Paths, Put(f) PROVE FoundInv'
  <2>1. /\ db' = UpdateUploading(db, found[f], f, shot[f])
        /\ found[f] \in Nat /\ found[f] <= Len(db) /\ shot[f] \in States
    BY <1>10 DEF Put, Save, TypeOK
  <2>2. OneAdded(f)
    BY <2>1, UpdateAdds
  <2>3. \A g \in Paths : reporter'[g] = "put" => g # f /\ reporter[g] = "put" /\ found'[g] = found[g]
    BY <1>10 DEF Put, TypeOK
  <2> QED BY <2>2, <2>3 DEF FoundInv, OneAdded
<1> QED BY <1>1, <1>2, <1>3, <1>4, <1>5, <1>6, <1>7, <1>8, <1>9, <1>10, Cases

\* There are only so many paths.
LEMMA OnceIsShort ==
  ASSUME NEW list \in Seq(Entries), Once(list)
  PROVE  Len(list) <= Cardinality(Paths)
<1> DEFINE path == [i \in 1..Len(list) |-> list[i].path]
           at == [i \in DOMAIN Files |-> Files[i]]
<1>0. \A e \in Entries : e.path \in Paths
  BY DEF Entries
<1>1. Len(list) \in Nat /\ DOMAIN list = 1..Len(list) /\ \A i \in 1..Len(list) : list[i].path \in Paths
  <2>1. \A i \in 1..Len(list) : list[i] \in Entries
    OBVIOUS
  <2> QED BY <1>0, <2>1
<1>2. path \in Injection(1..Len(list), Paths)
  BY <1>1 DEF Once, Injection, IsInjective
<1>3. IsFiniteSet(Paths)
  <2>1. DOMAIN Files = 1..Len(Files) /\ Len(Files) \in Nat
    BY Constants
  <2>2. at \in Surjection(DOMAIN Files, Paths)
    BY DEF Surjection, Paths
  <2>3. IsFiniteSet(DOMAIN Files)
    BY <2>1, FS_Interval
  <2> HIDE DEF at
  <2> QED BY <2>2, <2>3, FS_Surjection
<1>4. Cardinality(1..Len(list)) = Len(list)
  BY <1>1, FS_Interval
<1> HIDE DEF path
<1> QED BY <1>2, <1>3, <1>4, FS_Injection

\* However often uploads fail, are run again, die between two steps or have their
\* state put back by a late report, the database keeps one entry for each file at
\* most: a file has one state to resume from, none hidden behind an older one, and
\* the database does not grow beyond the files it is about (UpdateUploading, Search,
\* Delete, clearModTimeChange).
THEOREM DatabaseHasOneEach == Spec => []OneEntryPerFile
<1> DEFINE OnceInv == QueueInv /\ FoundInv /\ Once(db) /\ Once(disk)
<1>1. Spec => [](TypeOK /\ StageInv)
  BY Invariance, PTL
<1>2. Init => OnceInv
  <2>1. Init => queue = <<>> /\ db = <<>> /\ disk = <<>> /\ pc = "down" /\ \A f \in Paths : reporter[f] = "off"
    BY DEF Init
  <2> QED BY <2>1 DEF QueueInv, FoundInv, Once, Working
<1>3. (TypeOK /\ StageInv) /\ OnceInv /\ [Next]_vars => OnceInv'
  BY OnceStep, QueueStep, FoundStep
<1>4. TypeOK /\ OnceInv => OneEntryPerFile
  BY OnceIsShort DEF TypeOK, OneEntryPerFile
<1> HIDE DEF OnceInv
<1> QED BY <1>1, <1>2, <1>3, <1>4, PTL DEF Spec

===============================================================================
