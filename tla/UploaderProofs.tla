---------------------------- MODULE UploaderProofs ----------------------------
(***************************************************************************)
(* For any number of parts and of parallel requests: what the runs of       *)
(* Uploader check but for its liveness.  The invariant says where the main  *)
(* goroutine may be while parts are in hand, that a part is in one place    *)
(* at a time, and that a checksum is only kept of an acknowledged part.     *)
(***************************************************************************)
EXTENDS Uploader, FiniteSetTheorems, SequenceTheorems, TLAPS

\* The wait group counts the goroutines of the parts.
Running == {s \in Slots : task[s] = "run"}
CountIsRunning == count = Cardinality(Running)

\* A slot has a part from its CountUp to its CountDown.
StagesRun == \A s \in Slots : stage[s] # "none" <=> task[s] = "run"

\* Where the main goroutine is in the wait group; past Wait, no part is in hand.
Past == Mains \ {"shift", "spawn", "join"}
MainInGroup ==
  /\ main = "shift" => caller = "free"
  /\ main = "spawn" => caller \in {"send", "add"}
  /\ main = "join" => caller = "wait"
  /\ main \in Past => caller = "joined" /\ \A s \in Slots : stage[s] = "none"

\* The part about to be started is in nobody's hands either.
NextIsFree ==
  main = "spawn" =>
    ~InDeque(next) /\ next \notin sum /\ \A s \in Slots : stage[s] = "request" => job[s] # next

\* A goroutine notifies the reporter of a part that is done.
NotifiedIsDone == \A s \in Slots : stage[s] = "notify" => job[s] \in sum

\* A checksum is kept of acknowledged parts only.
Kept == sum \cup mem \cup disk \cup image \cup text.main \cup text.reporter
Acknowledged ==
  /\ Kept \subseteq acked
  /\ \A s \in Slots : stage[s] = "request" /\ answer[s] = "ok" => job[s] \in acked

\* How Execute comes to its result.
Outcome ==
  /\ main = "decide" => deque = <<>>
  /\ main = "create" \/ result = "success" => Parts \subseteq sum
  /\ main \in {"shift", "spawn", "join", "round", "decide", "create"} <=> result = "none"
  /\ uperr => canceled

\* Until there is a result, the reporter alone changes what is stored, and what it
\* stores next holds all that is stored now.
OnlyGrows ==
  result = "none" =>
    /\ mem \subseteq sum /\ image \subseteq sum
    /\ reporter = "store" => mem \subseteq image
    /\ reporter = "write" => text.reporter = mem

IInv ==
  /\ TypeOK /\ CountIsRunning /\ StagesRun /\ MainInGroup
  /\ NoPartLost /\ OneUploadPerPart /\ NextIsFree /\ NotifiedIsDone
  /\ Acknowledged /\ Outcome /\ TerminationIsReported /\ OnlyGrows

-------------------------------------------------------------------------------
(* Sequences of parts *)

In(q, p) == \E i \in DOMAIN q : q[i] = p
NoDup(q) == \A i, j \in DOMAIN q : q[i] = q[j] => i = j

LEMMA TailOf ==
  ASSUME NEW q \in Seq(Parts), q # <<>>, NoDup(q)
  PROVE  /\ Head(q) \in Parts /\ Tail(q) \in Seq(Parts) /\ NoDup(Tail(q)) /\ In(q, Head(q))
         /\ \A p : In(Tail(q), p) <=> In(q, p) /\ p # Head(q)
<1>1. /\ Len(q) \in Nat \ {0} /\ DOMAIN q = 1..Len(q)
      /\ Tail(q) \in Seq(Parts) /\ DOMAIN Tail(q) = 1..(Len(q) - 1)
      /\ Head(q) = q[1] /\ Head(q) \in Parts
      /\ \A i \in 1..(Len(q) - 1) : Tail(q)[i] = q[i + 1]
  OBVIOUS
<1>2. NoDup(Tail(q))
  <2> SUFFICES ASSUME NEW i \in 1..(Len(q) - 1), NEW j \in 1..(Len(q) - 1), q[i + 1] = q[j + 1]
               PROVE  i = j
    BY <1>1 DEF NoDup
  <2>1. i + 1 \in DOMAIN q /\ j + 1 \in DOMAIN q
    BY <1>1
  <2> QED BY <2>1 DEF NoDup
<1>3. ASSUME NEW p, In(Tail(q), p) PROVE In(q, p) /\ p # Head(q)
  <2>1. PICK i \in 1..(Len(q) - 1) : q[i + 1] = p
    BY <1>1, <1>3 DEF In
  <2>2. i + 1 \in DOMAIN q /\ 1 \in DOMAIN q /\ i + 1 # 1
    BY <1>1
  <2> QED BY <1>1, <2>1, <2>2 DEF In, NoDup
<1>4. ASSUME NEW p, In(q, p), p # Head(q) PROVE In(Tail(q), p)
  <2>1. PICK i \in 1..Len(q) : q[i] = p
    BY <1>1, <1>4 DEF In
  <2>2. i - 1 \in 1..(Len(q) - 1) /\ (i - 1) + 1 = i
    BY <1>1, <1>4, <2>1
  <2>3. Tail(q)[i - 1] = p
    BY <1>1, <2>1, <2>2
  <2> QED BY <1>1, <2>2, <2>3 DEF In
<1>5. In(q, Head(q))
  BY <1>1 DEF In
<1> QED BY <1>1, <1>2, <1>3, <1>4, <1>5

LEMMA AppendTo ==
  ASSUME NEW q \in Seq(Parts), NEW e \in Parts, NoDup(q), ~In(q, e)
  PROVE  /\ Append(q, e) \in Seq(Parts) /\ NoDup(Append(q, e))
         /\ \A p : In(Append(q, e), p) <=> In(q, p) \/ p = e
<1>1. /\ Len(q) \in Nat /\ DOMAIN q = 1..Len(q)
      /\ Append(q, e) \in Seq(Parts) /\ DOMAIN Append(q, e) = 1..(Len(q) + 1)
      /\ Append(q, e)[Len(q) + 1] = e
      /\ \A i \in 1..Len(q) : Append(q, e)[i] = q[i]
  OBVIOUS
<1>2. \A i \in 1..(Len(q) + 1) : i \in 1..Len(q) \/ i = Len(q) + 1
  BY <1>1
<1>3. NoDup(Append(q, e))
  BY <1>1, <1>2 DEF NoDup, In
<1>4. ASSUME NEW p PROVE In(Append(q, e), p) <=> In(q, p) \/ p = e
  <2>1. 1..Len(q) \subseteq 1..(Len(q) + 1) /\ Len(q) + 1 \in 1..(Len(q) + 1)
    BY <1>1
  <2> QED BY <1>1, <1>2, <2>1 DEF In
<1> QED BY <1>1, <1>3, <1>4

\* There are only P parts to put into a deque without duplicates.
LEMMA NoDupIsShort ==
  ASSUME NEW q \in Seq(Parts), NoDup(q)
  PROVE  Len(q) \in Nat /\ Len(q) <= P
<1>1. Len(q) \in Nat /\ q \in [1..Len(q) -> Parts]
  OBVIOUS
<1>2. q \in Injection(1..Len(q), Parts)
  BY <1>1 DEF NoDup, Injection, IsInjective
<1>3. IsFiniteSet(Parts) /\ Cardinality(Parts) = P
  BY FS_Interval, UploaderAssumption DEF Parts
<1>4. Cardinality(1..Len(q)) = Len(q)
  BY <1>1, FS_Interval
<1> QED BY <1>1, <1>2, <1>3, <1>4, FS_Injection

-------------------------------------------------------------------------------
(* A finite set of numbers has an ascending enumeration: the inverse of the *)
(* function that counts the members up to a number.                         *)

Ascending(S) ==
  {q \in [1..Cardinality(S) -> S] : \A i, j \in DOMAIN q : i < j => q[i] < q[j]}

LEMMA AscendingExists ==
  ASSUME NEW S \in SUBSET Nat, IsFiniteSet(S)
  PROVE  Ascending(S) # {}
<1> DEFINE n == Cardinality(S)
           UpTo(p) == {r \in S : r <= p}
           rank == [p \in S |-> Cardinality(UpTo(p))]
<1>1. n \in Nat
  BY FS_CardinalityType
<1>2. \A p \in S : /\ IsFiniteSet(UpTo(p)) /\ Cardinality(UpTo(p)) \in Nat
                   /\ Cardinality(UpTo(p)) <= n /\ Cardinality(UpTo(p)) # 0
  <2> TAKE p \in S
  <2>1. UpTo(p) \in SUBSET S /\ p \in UpTo(p)
    OBVIOUS
  <2> HIDE DEF UpTo
  <2>2. IsFiniteSet(UpTo(p)) /\ Cardinality(UpTo(p)) <= n
    BY <2>1, FS_Subset
  <2> QED BY <2>1, <2>2, FS_CardinalityType, FS_EmptySet
<1>3. rank \in [S -> 1..n]
  BY <1>1, <1>2
<1>4. ASSUME NEW a \in S, NEW b \in S, a < b PROVE rank[a] < rank[b]
  <2>1. UpTo(a) \in SUBSET UpTo(b) /\ UpTo(a) # UpTo(b)
    <3> a \in Nat /\ b \in Nat /\ \A r \in S : r \in Nat
      OBVIOUS
    <3>1. b \in UpTo(b) /\ b \notin UpTo(a)
      BY <1>4
    <3>2. \A r \in S : r <= a => r <= b
      BY <1>4
    <3>3. UpTo(a) \subseteq UpTo(b)
      BY <3>2
    <3> QED BY <3>1, <3>3
  <2> HIDE DEF UpTo
  <2>2. Cardinality(UpTo(a)) <= Cardinality(UpTo(b)) /\ Cardinality(UpTo(a)) # Cardinality(UpTo(b))
    BY <1>2, <2>1, FS_Subset
  <2> QED BY <1>2, <2>2
<1> HIDE DEF rank, UpTo
<1>5. rank \in Injection(S, 1..n)
  BY <1>3, <1>4 DEF Injection, IsInjective
<1>6. rank \in Surjection(S, 1..n)
  <2>1. IsFiniteSet(1..n) /\ Cardinality(1..n) = n
    BY <1>1, FS_Interval
  <2> QED BY <1>5, <2>1, FS_Injection
<1> DEFINE q == [i \in 1..n |-> CHOOSE p \in S : rank[p] = i]
<1>7. \A i \in 1..n : q[i] \in S /\ rank[q[i]] = i
  BY <1>6 DEF Surjection
<1>8. q \in [1..n -> S] /\ DOMAIN q = 1..n
  BY <1>7
<1> HIDE DEF q
<1>9. ASSUME NEW i \in 1..n, NEW j \in 1..n, i < j PROVE q[i] < q[j]
  <2>1. /\ q[i] \in S /\ rank[q[i]] = i /\ i \in Nat
        /\ q[j] \in S /\ rank[q[j]] = j /\ j \in Nat
    BY <1>1, <1>7
  <2>2. q[i] \in Nat /\ q[j] \in Nat
    BY <2>1
  <2>3. q[i] # q[j]
    BY <1>9, <2>1
  <2>4. q[j] < q[i] => rank[q[j]] < rank[q[i]]
    BY <1>4, <2>1
  <2> QED BY <1>9, <2>1, <2>2, <2>3, <2>4
<1> QED BY <1>8, <1>9 DEF Ascending

\* Every part without a checksum is uploaded, once.
LEMMA ToUploadIs ==
  ASSUME NEW done \in SUBSET Parts
  PROVE  /\ ToUpload(done) \in Seq(Parts) /\ NoDup(ToUpload(done))
         /\ \A p \in Parts : In(ToUpload(done), p) <=> p \notin done
<1> DEFINE S == Parts \ done
           q == ToUpload(done)
<1>1. S \in SUBSET Nat /\ S \subseteq Parts /\ IsFiniteSet(S)
  <2>1. IsFiniteSet(Parts) /\ Parts \subseteq Nat
    BY FS_Interval, UploaderAssumption DEF Parts
  <2> QED BY <2>1, FS_Subset
<1>2. Cardinality(S) \in Nat
  BY <1>1, FS_CardinalityType
<1>3. q \in Ascending(S)
  BY <1>1, AscendingExists DEF Ascending, ToUpload
<1>4. /\ q \in [1..Cardinality(S) -> S] /\ DOMAIN q = 1..Cardinality(S)
      /\ \A i, j \in 1..Cardinality(S) : i < j => q[i] < q[j]
  BY <1>3 DEF Ascending
<1> HIDE DEF q, S
<1>5. NoDup(q)
  <2> SUFFICES ASSUME NEW i \in 1..Cardinality(S), NEW j \in 1..Cardinality(S), q[i] = q[j]
               PROVE  i = j
    BY <1>4 DEF NoDup
  <2>1. i \in Nat /\ j \in Nat
    BY <1>2
  <2>2. q[i] \in S
    BY <1>4
  <2>3. q[i] \in Nat
    BY <1>1, <2>2
  <2>4. ~(i < j) /\ ~(j < i)
    BY <1>4, <2>3
  <2> QED BY <2>1, <2>4
<1>6. q \in Seq(Parts)
  <2>1. \A m \in Nat : [1..m -> Parts] \subseteq Seq(Parts)
    OBVIOUS
  <2>2. q \in [1..Cardinality(S) -> Parts]
    BY <1>1, <1>4
  <2> QED BY <1>2, <2>1, <2>2
<1>7. q \in Surjection(1..Cardinality(S), S)
  <2>1. q \in Injection(1..Cardinality(S), S)
    BY <1>4, <1>5 DEF NoDup, Injection, IsInjective
  <2>2. Cardinality(1..Cardinality(S)) = Cardinality(S)
    BY <1>2, FS_Interval
  <2> QED BY <1>1, <2>1, <2>2, FS_Injection
<1>8. \A p : In(q, p) <=> p \in S
  BY <1>4, <1>7 DEF In, Surjection
<1> QED BY <1>5, <1>6, <1>8 DEF q, S

-------------------------------------------------------------------------------
(* Types, without the wait group *)

USE DEF groupVars, partVars, storeVars, serverVars

Types ==
  /\ main \in Mains /\ deque \in Seq(Parts) /\ next \in Parts
  /\ job \in [Slots -> Parts] /\ stage \in [Slots -> PartStages]
  /\ answer \in [Slots -> Answers]
  /\ sum \in SUBSET Parts /\ canceled \in BOOLEAN /\ uperr \in BOOLEAN
  /\ notice \in BOOLEAN /\ finished \in BOOLEAN /\ reporter \in Reporters
  /\ mem \in SUBSET Parts /\ disk \in SUBSET Parts /\ image \in SUBSET Parts
  /\ text \in [main : SUBSET Parts, reporter : SUBSET Parts] /\ result \in Results
  /\ server \in SUBSET Parts /\ acked \in SUBSET Parts
  /\ loose \in [Parts -> Nat] /\ events \in Nat

LEMMA OnePart == 1 \in Parts
BY UploaderAssumption DEF Parts

\* A request that nobody waits for ends.
Arrives == \E p \in Parts : Arrive(p)

LEMMA EventTypes ==
  ASSUME events \in Nat
  PROVE  /\ Quiet => events' \in Nat
         /\ \A e : Happens(e) => events' \in Nat
BY DEF Quiet, Happens

LEMMA LooseTypes ==
  ASSUME loose \in [Parts -> Nat]
  PROVE  /\ \A parts : Loosen(parts) => loose' \in [Parts -> Nat]
         /\ Arrives => loose' \in [Parts -> Nat]
<1>1. \A parts : Loosen(parts) => loose' \in [Parts -> Nat]
  BY DEF Loosen
<1>2. ASSUME NEW p \in Parts, Arrive(p) PROVE loose' \in [Parts -> Nat]
  <2>1. loose[p] \in Nat /\ loose[p] > 0 /\ loose' = [loose EXCEPT ![p] = @ - 1]
    BY <1>2 DEF Arrive
  <2>2. loose[p] - 1 \in Nat
    BY <2>1
  <2> QED BY <2>1, <2>2
<1> QED BY <1>1, <1>2 DEF Arrives

LEMMA ResumeTypes ==
  ASSUME Types, NEW done \in SUBSET Parts, Resume(done), events' \in Nat
  PROVE  Types'
<1>1. ToUpload(done) \in Seq(Parts)
  BY ToUploadIs
<1>2. loose' \in [Parts -> Nat]
  BY LooseTypes DEF Resume, Types
<1> HIDE DEF ToUpload
<1> QED
  BY <1>1, <1>2, OnePart DEF Types, Resume, NoText, Mains, PartStages, Answers, Reporters, Results

\* The three kinds of steps of the main goroutine, with what each leaves alone.
MainFrame == UNCHANGED <<sum, canceled, uperr, notice, reporter, server, acked, loose>>
Handing(A) == A /\ Quiet /\ MainFrame /\ UNCHANGED <<finished, mem, disk, image, text>>
Deciding(A) ==
  /\ A /\ MainFrame
  /\ UNCHANGED <<count, tokens, caller, task, deque, next, job, stage, answer, finished,
                 mem, disk, image, text>>
Ending(A) ==
  /\ A /\ Quiet /\ MainFrame
  /\ UNCHANGED <<count, tokens, caller, task, deque, next, job, stage, answer, result>>

LEMMA MainCases ==
  MainStep =>
    \/ Handing(Shift) \/ Handing(Spawn) \/ Handing(NextRound)
    \/ Deciding(Decide /\ Quiet) \/ Deciding(Create)
    \/ Ending(Finish) \/ Ending(Forget) \/ Ending(Save) \/ Ending(Write)
<1> USE DEF MainStep, MainFrame
<1> HIDE DEF Shift, Spawn, NextRound, Decide, Create, Finish, Forget, Save, Write
<1> QED BY Zenon DEF Handing, Deciding, Ending

LEMMA MainTypes == ASSUME Types, MainStep PROVE Types'
<1> USE DEF MainFrame, Handing, Deciding, Ending
<1>e. events' \in Nat
  BY EventTypes DEF Types, MainStep, Create
<1>1. CASE Handing(Shift)
  <2>1. deque # <<>> => Head(deque) \in Parts /\ Tail(deque) \in Seq(Parts)
    BY DEF Types
  <2> QED BY <1>1, <1>e, <2>1 DEF Types, Shift, Mains
<1>2. CASE Handing(Spawn)
  <2>1. \/ UNCHANGED <<main, job, stage, answer>>
        \/ \E s \in Slots : /\ job' = [job EXCEPT ![s] = next]
                            /\ stage' = [stage EXCEPT ![s] = "request"]
                            /\ answer' = [answer EXCEPT ![s] = "none"]
                            /\ main' = "shift"
    BY <1>2 DEF Spawn
  <2>2. /\ main' \in Mains /\ job' \in [Slots -> Parts] /\ stage' \in [Slots -> PartStages]
        /\ answer' \in [Slots -> Answers]
    <3>t. /\ next \in Parts /\ main \in Mains /\ job \in [Slots -> Parts]
          /\ stage \in [Slots -> PartStages] /\ answer \in [Slots -> Answers]
      BY DEF Types
    <3>1. "shift" \in Mains /\ "request" \in PartStages /\ "none" \in Answers
      BY DEF Mains, PartStages, Answers
    <3>2. ASSUME NEW s \in Slots, job' = [job EXCEPT ![s] = next],
                 stage' = [stage EXCEPT ![s] = "request"],
                 answer' = [answer EXCEPT ![s] = "none"]
          PROVE  /\ job' \in [Slots -> Parts] /\ stage' \in [Slots -> PartStages]
                 /\ answer' \in [Slots -> Answers]
      BY <3>t, <3>1, <3>2
    <3> QED BY <2>1, <3>t, <3>1, <3>2
  <2>3. UNCHANGED <<deque, next, sum, canceled, uperr, notice, finished, reporter, mem, disk,
                    image, text, result, server, acked, loose>>
    BY <1>2 DEF Spawn
  <2> QED BY <1>e, <2>2, <2>3 DEF Types
<1>3. CASE Handing(NextRound)
  BY <1>3, <1>e DEF Types, NextRound, Round, Mains
<1>4. CASE Deciding(Decide /\ Quiet)
  BY <1>4, <1>e DEF Types, Decide, Mains, Results
<1>5. CASE Deciding(Create)
  BY <1>5, <1>e DEF Types, Create, Mains, Results
<1>6. CASE Ending(Finish) \/ Ending(Forget) \/ Ending(Save) \/ Ending(Write)
  BY <1>6, <1>e DEF Types, Finish, Forget, Save, Write, Mains
<1> QED BY <1>1, <1>2, <1>3, <1>4, <1>5, <1>6, MainCases

LEMMA PartTypes == ASSUME Types, NEW s \in Slots, PartStep(s) PROVE Types'
<1>1. CASE Request(s)
  BY <1>1, EventTypes, LooseTypes DEF Types, PartStep, Request, Answers
<1>2. CASE Abandon(s) \/ Terminate(s)
  BY <1>2, EventTypes, LooseTypes DEF Types, PartStep, Abandon, Terminate, PartStages
<1>3. CASE Retry(s)
  <2>1. Append(deque, job[s]) \in Seq(Parts)
    BY DEF Types
  <2> QED BY <1>3, <2>1, EventTypes DEF Types, PartStep, Retry, Requeue, PartStages
<1>4. CASE Succeed(s)
  BY <1>4, EventTypes DEF Types, PartStep, Succeed, PartStages
<1>5. CASE Notify(s) \/ Done(s)
  BY <1>5, EventTypes DEF Types, PartStep, Notify, Done, PartStages
<1> QED BY <1>1, <1>2, <1>3, <1>4, <1>5 DEF PartStep

LEMMA TypesStep == Types /\ [Next]_vars => Types'
<1> SUFFICES ASSUME Types, [Next]_vars PROVE Types'
  OBVIOUS
<1>1. CASE Report
  BY <1>1, EventTypes
  DEF Types, Report, Tick, Store, StoreSave, StoreWrite, ReporterEnd, InstanceState, Reporters
<1>2. CASE Arrives \/ Expire \/ Cancel
  BY <1>2, EventTypes, LooseTypes DEF Types, Arrives, Arrive, Expire, Cancel
<1>3. CASE Again \/ Panic \/ Crash
  <2>1. mem \in SUBSET Parts /\ disk \in SUBSET Parts /\ events' \in Nat
    BY <1>3, EventTypes DEF Types, Again, Panic, Crash
  <2> QED BY <1>3, <2>1, ResumeTypes DEF Again, Panic, Crash
<1>4. CASE Terminated \/ UNCHANGED vars
  BY <1>4 DEF Types, Terminated, vars
<1> QED BY <1>1, <1>2, <1>3, <1>4, MainTypes, PartTypes DEF Next, Arrives

-------------------------------------------------------------------------------
(* The wait group: who runs, and where the main goroutine is *)

GroupTypes ==
  /\ count \in Nat /\ tokens \in Nat
  /\ caller \in WG!Callers
  /\ task \in [Slots -> WG!TaskStates]

GroupInv == GroupTypes /\ CountIsRunning /\ StagesRun /\ MainInGroup

LEMMA FiniteRunning == IsFiniteSet(Running) /\ Cardinality(Running) \in Nat
<1>1. IsFiniteSet(Slots) /\ Running \in SUBSET Slots
  BY FS_Interval, UploaderAssumption DEF Slots, Running
<1> QED BY <1>1, FS_Subset, FS_CardinalityType

\* A counter of zero means that no part is in hand.
LEMMA ZeroMeansNone ==
  ASSUME GroupInv, count = 0
  PROVE  \A s \in Slots : stage[s] = "none"
<1>1. Running = {}
  BY FiniteRunning, FS_EmptySet DEF GroupInv, CountIsRunning
<1> QED BY <1>1 DEF GroupInv, StagesRun, Running

\* A new group, and no part in hand.
LEMMA FreshGroup ==
  ASSUME count' = 0, tokens' = 0, caller' = "free", task' = [s \in Slots |-> "none"],
         main' = "shift", \A s \in Slots : stage'[s] = "none"
  PROVE  GroupInv'
<1>1. Running' = {}
  BY DEF Running
<1>2. CountIsRunning'
  BY <1>1, FS_EmptySet DEF CountIsRunning
<1> QED BY <1>2 DEF GroupInv, GroupTypes, StagesRun, MainInGroup, Past, WG!Callers, WG!TaskStates

\* The main goroutine takes part in the group and starts no part.
LEMMA MainMoves ==
  ASSUME GroupInv, count' = count, tokens' \in Nat, task' = task, stage' = stage,
         caller' \in WG!Callers, MainInGroup'
  PROVE  GroupInv'
<1>1. Running' = Running
  BY DEF Running
<1> QED BY <1>1 DEF GroupInv, GroupTypes, CountIsRunning, StagesRun

LEMMA MainGroup == ASSUME Types, GroupInv, MainStep PROVE GroupInv'
<1> USE DEF MainFrame, Handing, Deciding, Ending
<1>1. CASE Handing(Shift)
  <2>1. count' = count /\ tokens' = tokens /\ task' = task /\ stage' = stage
    BY <1>1 DEF Shift, WG!AddDelta, WG!Wait
  <2>2. MainInGroup' /\ caller' \in WG!Callers
    BY <1>1 DEF Shift, WG!AddDelta, WG!Wait, WG!Callers, MainInGroup, Past
  <2> QED BY <2>1, <2>2, MainMoves DEF GroupInv, GroupTypes
<1>2. CASE Handing(Spawn)
  <2>1. CASE WG!SendToken /\ UNCHANGED <<main, partVars>>
    <3>1. count' = count /\ tokens' \in Nat /\ task' = task /\ stage' = stage
      BY <2>1 DEF WG!SendToken, GroupInv, GroupTypes
    <3>2. MainInGroup' /\ caller' \in WG!Callers
      BY <1>2, <2>1 DEF WG!SendToken, WG!Callers, Spawn, MainInGroup, Past
    <3> QED BY <3>1, <3>2, MainMoves
  <2>2. ASSUME NEW s \in Slots, WG!CountUp(s), main' = "shift", stage' = [stage EXCEPT ![s] = "request"]
        PROVE  GroupInv'
    <3>1. /\ task[s] = "none" /\ task' = [task EXCEPT ![s] = "run"]
          /\ count' = count + 1 /\ caller' = "free" /\ tokens' = tokens
      BY <2>2 DEF WG!CountUp
    <3>2. Running' = Running \cup {s} /\ s \notin Running
      BY <3>1 DEF Running, GroupInv, GroupTypes
    <3>3. CountIsRunning'
      BY <3>1, <3>2, FiniteRunning, FS_AddElement DEF GroupInv, CountIsRunning
    <3>4. StagesRun'
      BY <2>2, <3>1 DEF GroupInv, GroupTypes, StagesRun, Types
    <3> QED
      BY <2>2, <3>1, <3>3, <3>4
      DEF GroupInv, GroupTypes, MainInGroup, Past, WG!Callers, WG!TaskStates
  <2> QED BY <1>2, <2>1, <2>2 DEF Spawn
<1>3. CASE Handing(NextRound)
  <2>1. CASE main = "join" /\ WG!Join /\ main' = "round"
    <3>1. /\ count = 0 /\ caller' = "joined" /\ stage' = stage
          /\ UNCHANGED <<count, tokens, task>>
      BY <1>3, <2>1 DEF WG!Join, NextRound
    <3>2. \A s \in Slots : stage'[s] = "none"
      BY <3>1, ZeroMeansNone
    <3> QED BY <2>1, <3>1, <3>2, MainMoves DEF MainInGroup, Past, WG!Callers, GroupInv, GroupTypes
  <2>2. CASE main = "round" /\ WG!New /\ main' = "shift"
    <3>1. \A s \in Slots : stage'[s] = "none"
      BY <1>3, <2>2 DEF NextRound, GroupInv, MainInGroup, Past, Mains
    <3> QED BY <2>2, <3>1, FreshGroup DEF WG!New
  <2>3. CASE main = "round" /\ main' = "decide" /\ UNCHANGED groupVars
    <3>1. MainInGroup'
      BY <1>3, <2>3 DEF NextRound, GroupInv, MainInGroup, Past, Mains
    <3> QED BY <1>3, <2>3, <3>1, MainMoves DEF NextRound, GroupInv, GroupTypes
  <2> QED BY <1>3, <2>1, <2>2, <2>3 DEF NextRound, Round
<1>4. CASE \/ Deciding(Decide /\ Quiet) \/ Deciding(Create)
           \/ Ending(Finish) \/ Ending(Forget) \/ Ending(Save) \/ Ending(Write)
  <2>1. UNCHANGED <<count, tokens, caller, task, stage>>
    BY <1>4
  <2>2. main \in Past /\ main' \in Past
    BY <1>4 DEF Decide, Create, Finish, Forget, Save, Write, Past, Mains
  <2>3. MainInGroup'
    BY <2>1, <2>2 DEF GroupInv, MainInGroup, Past
  <2> QED BY <2>1, <2>3, MainMoves DEF GroupInv, GroupTypes
<1> QED BY <1>1, <1>2, <1>3, <1>4, MainCases

\* A part that stays in hand disturbs nobody in the group.
LEMMA PartMoves ==
  ASSUME GroupInv, NEW s \in Slots, stage[s] # "none", UNCHANGED <<groupVars, main>>,
         NEW to \in PartStages \ {"none"}, stage \in [Slots -> PartStages],
         stage' = [stage EXCEPT ![s] = to]
  PROVE  GroupInv'
<1>1. Running' = Running
  BY DEF Running
<1>2. StagesRun'
  BY DEF GroupInv, StagesRun, PartStages
<1>3. MainInGroup'
  BY DEF GroupInv, MainInGroup
<1> QED BY <1>1, <1>2, <1>3 DEF GroupInv, GroupTypes, CountIsRunning

LEMMA PartGroup == ASSUME Types, GroupInv, NEW s \in Slots, PartStep(s) PROVE GroupInv'
<1>t. stage \in [Slots -> PartStages] /\ main' = main
  BY DEF Types, PartStep
<1>1. CASE Request(s)
  <2>1. UNCHANGED <<groupVars, main, stage>>
    BY <1>1, <1>t DEF Request
  <2>2. MainInGroup'
    BY <2>1 DEF GroupInv, MainInGroup
  <2> QED BY <2>1, <2>2, MainMoves DEF GroupInv, GroupTypes
<1>2. CASE Abandon(s) \/ Terminate(s) \/ Retry(s) \/ Notify(s)
  <2>1. /\ stage[s] # "none" /\ stage' = [stage EXCEPT ![s] = "return"]
        /\ UNCHANGED groupVars
    BY <1>2 DEF Abandon, Terminate, Retry, Notify
  <2> QED BY <2>1, <1>t, PartMoves DEF PartStages
<1>3. CASE Succeed(s)
  <2>1. PICK to \in {"return", "notify"} : stage' = [stage EXCEPT ![s] = to]
    BY <1>3 DEF Succeed
  <2>2. stage[s] # "none" /\ UNCHANGED groupVars
    BY <1>3 DEF Succeed
  <2> QED BY <2>1, <2>2, <1>t, PartMoves DEF PartStages
<1>4. CASE stage[s] = "return" /\ WG!CountDown(s) /\ stage' = [stage EXCEPT ![s] = "none"]
  <2>1. /\ task[s] = "run" /\ task' = [task EXCEPT ![s] = "leave"]
        /\ count' = count - 1 /\ UNCHANGED <<tokens, caller>>
    BY <1>4 DEF WG!CountDown
  <2>2. Running' = Running \ {s} /\ s \in Running
    BY <2>1 DEF Running, GroupInv, GroupTypes
  <2>3. count # 0
    BY <1>4, ZeroMeansNone
  <2>4. CountIsRunning'
    BY <2>1, <2>2, FiniteRunning, FS_RemoveElement DEF GroupInv, CountIsRunning
  <2>5. StagesRun'
    BY <1>4, <1>t, <2>1 DEF GroupInv, GroupTypes, StagesRun
  <2>6. MainInGroup'
    BY <1>4, <1>t, <2>1 DEF GroupInv, MainInGroup
  <2> QED BY <2>1, <2>3, <2>4, <2>5, <2>6 DEF GroupInv, GroupTypes, WG!TaskStates
<1>5. CASE WG!TakeToken(s) /\ UNCHANGED stage
  <2>1. /\ task[s] = "leave" /\ task' = [task EXCEPT ![s] = "none"]
        /\ tokens' \in Nat /\ UNCHANGED <<count, caller>>
    BY <1>5 DEF WG!TakeToken, GroupInv, GroupTypes
  <2>2. Running' = Running
    BY <2>1 DEF Running, GroupInv, GroupTypes
  <2>3. StagesRun'
    BY <1>5, <2>1 DEF GroupInv, GroupTypes, StagesRun
  <2>4. MainInGroup'
    BY <1>5, <1>t, <2>1 DEF GroupInv, MainInGroup
  <2> QED BY <2>1, <2>2, <2>3, <2>4 DEF GroupInv, GroupTypes, CountIsRunning, WG!TaskStates
<1> QED BY <1>1, <1>2, <1>3, <1>4, <1>5 DEF PartStep, Done

LEMMA GroupStep == Types /\ GroupInv /\ [Next]_vars => GroupInv'
<1> SUFFICES ASSUME Types, GroupInv, [Next]_vars PROVE GroupInv'
  OBVIOUS
<1>1. CASE Report \/ Arrives \/ Expire \/ Cancel \/ Terminated \/ UNCHANGED vars
  <2>1. UNCHANGED <<count, tokens, caller, task, main, stage>>
    BY <1>1 DEF Report, Arrives, Arrive, Expire, Cancel, Terminated, vars
  <2>2. MainInGroup'
    BY <2>1 DEF GroupInv, MainInGroup
  <2> QED BY <2>1, <2>2, MainMoves DEF GroupInv, GroupTypes
<1>2. ASSUME NEW done, Resume(done) PROVE GroupInv'
  BY <1>2, FreshGroup DEF Resume
<1> QED BY <1>1, <1>2, MainGroup, PartGroup DEF Next, Arrives, Again, Panic, Crash

-------------------------------------------------------------------------------
(* Where the parts are *)

PartsInv == NoPartLost /\ OneUploadPerPart /\ NextIsFree /\ NotifiedIsDone

\* The same, of the deque as a sequence.
LEMMA DequeParts ==
  OneUploadPerPart <=>
    /\ NoDup(deque)
    /\ \A s \in Slots : stage[s] = "request" =>
         /\ ~In(deque, job[s]) /\ job[s] \notin sum
         /\ \A u \in Slots : stage[u] = "request" /\ job[u] = job[s] => u = s
    /\ \A p \in sum : ~In(deque, p)
BY DEF OneUploadPerPart, NoDup, InDeque, In

\* Steps that move no part.
LEMMA PartsStay ==
  ASSUME PartsInv, UNCHANGED <<deque, next, job, stage, sum>>, canceled => canceled',
         main' = "spawn" <=> main = "spawn"
  PROVE  PartsInv'
<1>1. \A p : InDeque(p)' <=> InDeque(p)
  BY DEF InDeque
<1>2. \A p : InHand(p)' <=> InHand(p)
  BY DEF InHand
<1>3. NoPartLost'
  BY <1>1, <1>2 DEF PartsInv, NoPartLost
<1>4. OneUploadPerPart'
  BY DEF PartsInv, OneUploadPerPart, InDeque
<1>5. NextIsFree'
  BY <1>1 DEF PartsInv, NextIsFree
<1>6. NotifiedIsDone'
  BY DEF PartsInv, NotifiedIsDone
<1> QED BY <1>3, <1>4, <1>5, <1>6 DEF PartsInv

\* A fresh run uploads what has no checksum.
LEMMA PartsResume ==
  ASSUME NEW done \in SUBSET Parts, Resume(done)
  PROVE  PartsInv'
<1> DEFINE q == ToUpload(done)
<1>1. NoDup(q) /\ \A p \in Parts : In(q, p) <=> p \notin done
  BY ToUploadIs
<1> HIDE DEF q
<1>2. /\ deque' = q /\ sum' = done /\ main' = "shift"
      /\ \A s \in Slots : stage'[s] = "none"
  BY DEF Resume, q
<1>3. NoPartLost'
  BY <1>1, <1>2 DEF NoPartLost, InDeque, In
<1>4. OneUploadPerPart'
  BY <1>1, <1>2 DEF OneUploadPerPart, InDeque, In, NoDup
<1> QED BY <1>2, <1>3, <1>4 DEF PartsInv, NextIsFree, NotifiedIsDone

LEMMA PartsShift ==
  ASSUME Types, PartsInv, main = "shift", main' = "spawn", deque # <<>>,
         next' = Head(deque), deque' = Tail(deque), UNCHANGED <<job, stage, sum, canceled>>
  PROVE  PartsInv'
<1>o. /\ NoDup(deque)
      /\ \A s \in Slots : stage[s] = "request" =>
           /\ ~In(deque, job[s]) /\ job[s] \notin sum
           /\ \A u \in Slots : stage[u] = "request" /\ job[u] = job[s] => u = s
      /\ \A p \in sum : ~In(deque, p)
  BY DequeParts DEF PartsInv
<1>1. /\ NoDup(deque') /\ In(deque, next')
      /\ \A p : In(deque', p) <=> In(deque, p) /\ p # next'
  BY <1>o, TailOf DEF Types
<1>2. NoPartLost'
  <2>1. \A p : InHand(p)' <=> InHand(p)
    BY DEF InHand
  <2>2. \A p : /\ InDeque(p)' <=> In(deque', p)
               /\ InDeque(p) <=> In(deque, p)
    BY DEF InDeque, In
  <2> QED BY <1>1, <2>1, <2>2 DEF PartsInv, NoPartLost
<1>3. OneUploadPerPart'
  <2>1. \A i, j \in DOMAIN deque' : deque'[i] = deque'[j] => i = j
    BY <1>1 DEF NoDup
  <2>2. \A p : InDeque(p)' <=> In(deque', p)
    BY DEF InDeque, In
  <2> QED BY <1>o, <1>1, <2>1, <2>2 DEF OneUploadPerPart
<1>4. NextIsFree'
  <2>1. InDeque(next)' <=> In(deque', next')
    BY DEF InDeque, In
  <2> QED BY <1>o, <1>1, <2>1 DEF NextIsFree
<1>5. NotifiedIsDone'
  BY DEF PartsInv, NotifiedIsDone
<1> QED BY <1>2, <1>3, <1>4, <1>5 DEF PartsInv

LEMMA PartsSpawn ==
  ASSUME Types, PartsInv, main = "spawn", main' = "shift", NEW s \in Slots, stage[s] = "none",
         job' = [job EXCEPT ![s] = next], stage' = [stage EXCEPT ![s] = "request"],
         UNCHANGED <<deque, next, sum, canceled>>
  PROVE  PartsInv'
<1>1. /\ job'[s] = next /\ stage'[s] = "request"
      /\ \A u \in Slots \ {s} : job'[u] = job[u] /\ stage'[u] = stage[u]
  BY DEF Types
<1>2. \A p : InDeque(p)' <=> InDeque(p)
  BY DEF InDeque
<1>3. NoPartLost'
  <2>1. \A p : InHand(p) => InHand(p)'
    BY <1>1 DEF InHand
  <2>2. InHand(next)'
    BY <1>1 DEF InHand
  <2> QED BY <1>2, <2>1, <2>2 DEF PartsInv, NoPartLost
<1>4. OneUploadPerPart'
  <2>1. ASSUME NEW u \in Slots, stage'[u] = "request"
        PROVE  /\ ~InDeque(job[u])' /\ job'[u] \notin sum'
               /\ \A v \in Slots : stage'[v] = "request" /\ job'[v] = job'[u] => v = u
    BY <1>1, <2>1 DEF PartsInv, OneUploadPerPart, NextIsFree, InDeque
  <2>2. \A p \in sum' : ~InDeque(p)'
    BY <1>2 DEF PartsInv, OneUploadPerPart
  <2> QED BY <2>1, <2>2 DEF PartsInv, OneUploadPerPart
<1>5. NotifiedIsDone'
  BY <1>1 DEF PartsInv, NotifiedIsDone
<1> QED BY <1>3, <1>4, <1>5 DEF PartsInv, NextIsFree

\* Goroutine s is done with its part: the part has its checksum, or the upload is
\* canceled, or it was not in hand any more.
LEMMA PartsReturn ==
  ASSUME Types, PartsInv, NEW s \in Slots, NEW to \in {"return", "none"},
         stage' = [stage EXCEPT ![s] = to],
         UNCHANGED <<main, deque, next, job, sum>>,
         canceled' \/ (canceled' = canceled /\ stage[s] \notin {"request"})
  PROVE  PartsInv'
<1>1. stage'[s] = to /\ \A u \in Slots \ {s} : stage'[u] = stage[u]
  BY DEF Types
<1>2. \A p : InDeque(p)' <=> InDeque(p)
  BY DEF InDeque
<1>3. NoPartLost'
  <2>1. \A p : InHand(p) => InHand(p)' \/ (p = job[s] /\ stage[s] \in {"request", "notify"})
    BY <1>1 DEF InHand
  <2>2. CASE stage[s] = "notify"
    BY <1>2, <2>1, <2>2 DEF PartsInv, NoPartLost, NotifiedIsDone
  <2> QED BY <1>2, <2>1, <2>2 DEF PartsInv, NoPartLost
<1>4. OneUploadPerPart'
  BY <1>1 DEF PartsInv, OneUploadPerPart, InDeque
<1>5. NextIsFree' /\ NotifiedIsDone'
  BY <1>1 DEF PartsInv, NextIsFree, NotifiedIsDone, InDeque
<1> QED BY <1>3, <1>4, <1>5 DEF PartsInv

LEMMA PartsRetry ==
  ASSUME Types, PartsInv, NEW s \in Slots, stage[s] = "request",
         stage' = [stage EXCEPT ![s] = "return"], deque' = Append(deque, job[s]),
         UNCHANGED <<main, next, job, sum, canceled>>
  PROVE  PartsInv'
<1>1. stage'[s] = "return" /\ \A u \in Slots \ {s} : stage'[u] = stage[u]
  BY DEF Types
<1>o. /\ NoDup(deque)
      /\ \A u \in Slots : stage[u] = "request" =>
           /\ ~In(deque, job[u]) /\ job[u] \notin sum
           /\ \A v \in Slots : stage[v] = "request" /\ job[v] = job[u] => v = u
      /\ \A p \in sum : ~In(deque, p)
  BY DequeParts DEF PartsInv
<1>2. /\ NoDup(deque')
      /\ \A p : In(deque', p) <=> In(deque, p) \/ p = job[s]
  BY <1>o, AppendTo DEF Types
<1>3. \A p : /\ InDeque(p)' <=> In(deque', p)
             /\ InDeque(p) <=> In(deque, p)
  BY DEF InDeque, In
<1>4. NoPartLost'
  <2>1. \A p : InHand(p) => InHand(p)' \/ p = job[s]
    BY <1>1 DEF InHand
  <2> QED BY <1>2, <1>3, <2>1 DEF PartsInv, NoPartLost
<1>5. OneUploadPerPart'
  <2>1. \A i, j \in DOMAIN deque' : deque'[i] = deque'[j] => i = j
    BY <1>2 DEF NoDup
  <2>2. ASSUME NEW u \in Slots, stage'[u] = "request"
        PROVE  /\ ~InDeque(job[u])' /\ job'[u] \notin sum'
               /\ \A v \in Slots : stage'[v] = "request" /\ job'[v] = job'[u] => v = u
    <3>1. u # s /\ stage[u] = "request"
      BY <1>1, <2>2
    <3>2. \A p : p = job[u] => ~InDeque(p)'
      BY <1>o, <1>2, <1>3, <3>1
    <3>3. ~InDeque(job[u])'
      BY <3>2 DEF InDeque
    <3> QED BY <1>o, <1>1, <3>1, <3>3
  <2>3. \A p \in sum' : ~InDeque(p)'
    BY <1>o, <1>2, <1>3
  <2> QED BY <2>1, <2>2, <2>3 DEF OneUploadPerPart
<1>6. NextIsFree'
  <2>1. InDeque(next)' <=> In(deque', next')
    BY DEF InDeque, In
  <2>2. InDeque(next) <=> In(deque, next)
    BY <1>3
  <2> QED BY <1>1, <1>2, <2>1, <2>2 DEF PartsInv, NextIsFree
<1>7. NotifiedIsDone'
  BY <1>1 DEF PartsInv, NotifiedIsDone
<1> QED BY <1>4, <1>5, <1>6, <1>7 DEF PartsInv

LEMMA PartsSucceed ==
  ASSUME Types, PartsInv, NEW s \in Slots, stage[s] = "request",
         NEW to \in {"return", "notify"}, stage' = [stage EXCEPT ![s] = to],
         sum' = sum \cup {job[s]}, UNCHANGED <<main, deque, next, job, canceled>>
  PROVE  PartsInv'
<1>1. stage'[s] = to /\ \A u \in Slots \ {s} : stage'[u] = stage[u]
  BY DEF Types
<1>2. \A p : InDeque(p)' <=> InDeque(p)
  BY DEF InDeque
<1>3. NoPartLost'
  <2>1. \A p : InHand(p) => InHand(p)' \/ p = job[s]
    BY <1>1 DEF InHand
  <2> QED BY <1>2, <2>1 DEF PartsInv, NoPartLost
<1>4. OneUploadPerPart'
  BY <1>1 DEF PartsInv, OneUploadPerPart, InDeque
<1>5. NextIsFree' /\ NotifiedIsDone'
  BY <1>1 DEF PartsInv, NextIsFree, NotifiedIsDone, InDeque
<1> QED BY <1>3, <1>4, <1>5 DEF PartsInv

LEMMA PartsMain == ASSUME Types, GroupInv, PartsInv, MainStep PROVE PartsInv'
<1> USE DEF MainFrame, Handing, Deciding, Ending
<1>1. CASE Handing(Shift)
  <2>1. CASE deque # <<>> /\ next' = Head(deque) /\ deque' = Tail(deque) /\ main' = "spawn"
    BY <1>1, <2>1, PartsShift DEF Shift
  <2>2. CASE deque = <<>> /\ main' = "join" /\ UNCHANGED <<next, deque>>
    BY <1>1, <2>2, PartsStay DEF Shift
  <2> QED BY <1>1, <2>1, <2>2 DEF Shift
<1>2. CASE Handing(Spawn)
  <2>1. CASE UNCHANGED <<main, partVars>>
    BY <1>2, <2>1, PartsStay DEF Spawn
  <2>2. ASSUME NEW s \in Slots, WG!CountUp(s), job' = [job EXCEPT ![s] = next],
               stage' = [stage EXCEPT ![s] = "request"], main' = "shift"
        PROVE  PartsInv'
    <3>1. stage[s] = "none"
      BY <2>2 DEF WG!CountUp, GroupInv, StagesRun
    <3> QED BY <1>2, <2>2, <3>1, PartsSpawn DEF Spawn
  <2> QED BY <1>2, <2>1, <2>2 DEF Spawn
<1>3. CASE Handing(NextRound)
  BY <1>3, PartsStay DEF NextRound, Round
<1>4. CASE \/ Deciding(Decide /\ Quiet) \/ Deciding(Create)
           \/ Ending(Finish) \/ Ending(Forget) \/ Ending(Save) \/ Ending(Write)
  BY <1>4, PartsStay DEF Decide, Create, Finish, Forget, Save, Write
<1> QED BY <1>1, <1>2, <1>3, <1>4, MainCases

LEMMA PartsPart == ASSUME Types, PartsInv, NEW s \in Slots, PartStep(s) PROVE PartsInv'
<1>t. UNCHANGED <<main, next, job>>
  BY DEF PartStep
<1>1. CASE Request(s)
  BY <1>1, <1>t, PartsStay DEF Request
<1>2. CASE Abandon(s) \/ Terminate(s)
  <2>1. /\ stage' = [stage EXCEPT ![s] = "return"] /\ UNCHANGED <<deque, sum>>
        /\ canceled' = TRUE
    BY <1>2 DEF Abandon, Terminate, Types
  <2> QED BY <1>t, <2>1, PartsReturn
<1>3. CASE Retry(s)
  BY <1>3, <1>t, PartsRetry DEF Retry, Requeue
<1>4. CASE Succeed(s)
  <2>1. PICK to \in {"return", "notify"} : stage' = [stage EXCEPT ![s] = to]
    BY <1>4 DEF Succeed
  <2> QED BY <1>4, <1>t, <2>1, PartsSucceed DEF Succeed
<1>5. CASE Notify(s)
  BY <1>5, <1>t, PartsReturn DEF Notify
<1>6. CASE Done(s)
  <2>1. CASE stage[s] = "return" /\ stage' = [stage EXCEPT ![s] = "none"]
    BY <1>6, <1>t, <2>1, PartsReturn DEF Done
  <2>2. CASE UNCHANGED stage
    BY <1>6, <1>t, <2>2, PartsStay DEF Done
  <2> QED BY <1>6, <2>1, <2>2 DEF Done
<1> QED BY <1>1, <1>2, <1>3, <1>4, <1>5, <1>6 DEF PartStep

LEMMA PartsStep == Types /\ GroupInv /\ PartsInv /\ [Next]_vars => PartsInv'
<1> SUFFICES ASSUME Types, GroupInv, PartsInv, [Next]_vars PROVE PartsInv'
  OBVIOUS
<1>1. CASE Report \/ Arrives \/ Expire \/ Cancel \/ Terminated \/ UNCHANGED vars
  <2>1. UNCHANGED <<deque, next, job, stage, sum, main>> /\ (canceled => canceled')
    BY <1>1 DEF Report, Arrives, Arrive, Expire, Cancel, Terminated, vars
  <2> QED BY <2>1, PartsStay
<1>2. CASE Again \/ Panic \/ Crash
  <2>1. mem \in SUBSET Parts /\ disk \in SUBSET Parts
    BY DEF Types
  <2> QED BY <1>2, <2>1, PartsResume DEF Again, Panic, Crash
<1> QED BY <1>1, <1>2, PartsMain, PartsPart DEF Next, Arrives

-------------------------------------------------------------------------------
(* Checksums, and what is stored of them *)

LEMMA AckPart ==
  ASSUME Types, Acknowledged, NEW s \in Slots, PartStep(s)
  PROVE  Acknowledged'
<1>t. UNCHANGED <<job, mem, disk, image, text>> /\ job[s] \in Parts
      /\ stage \in [Slots -> PartStages] /\ answer \in [Slots -> Answers]
  BY DEF Types, PartStep
<1>1. CASE Request(s)
  <2>1. acked \subseteq acked' /\ UNCHANGED <<sum, stage>>
    BY <1>1 DEF Request
  <2>2. \/ answer' = [answer EXCEPT ![s] = "ok"] /\ job[s] \in acked'
        \/ \E a \in {"error", "fatal", "missed"} : answer' = [answer EXCEPT ![s] = a]
    BY <1>1 DEF Request
  <2> QED BY <1>t, <2>1, <2>2 DEF Acknowledged, Kept
<1>2. CASE Abandon(s) \/ Terminate(s) \/ Retry(s) \/ Notify(s)
  <2>1. /\ UNCHANGED <<sum, acked, answer>>
        /\ stage' = [stage EXCEPT ![s] = "return"]
    BY <1>2 DEF Abandon, Terminate, Retry, Notify
  <2> QED BY <1>t, <2>1 DEF Acknowledged, Kept
<1>3. CASE Succeed(s)
  <2>1. /\ sum' = sum \cup {job[s]} /\ job[s] \in acked /\ UNCHANGED <<acked, answer>>
        /\ \E to \in {"return", "notify"} : stage' = [stage EXCEPT ![s] = to]
    BY <1>3 DEF Succeed, Acknowledged
  <2> QED BY <1>t, <2>1 DEF Acknowledged, Kept
<1>4. CASE Done(s)
  <2>1. /\ UNCHANGED <<sum, acked, answer>>
        /\ stage' = stage \/ stage' = [stage EXCEPT ![s] = "none"]
    BY <1>4 DEF Done
  <2> QED BY <1>t, <2>1 DEF Acknowledged, Kept
<1> QED BY <1>1, <1>2, <1>3, <1>4 DEF PartStep

LEMMA AckMain == ASSUME Types, Acknowledged, MainStep PROVE Acknowledged'
<1> USE DEF MainFrame, Handing, Deciding, Ending
<1>1. CASE Handing(Shift) \/ Handing(NextRound) \/ Deciding(Decide /\ Quiet) \/ Deciding(Create)
  <2>1. UNCHANGED <<sum, mem, disk, image, text, acked, stage, answer, job>>
    BY <1>1 DEF Shift, NextRound
  <2> QED BY <2>1 DEF Acknowledged, Kept
<1>2. CASE Handing(Spawn)
  <2>1. \/ UNCHANGED <<stage, answer, job>>
        \/ \E s \in Slots : /\ job' = [job EXCEPT ![s] = next]
                            /\ stage' = [stage EXCEPT ![s] = "request"]
                            /\ answer' = [answer EXCEPT ![s] = "none"]
    BY <1>2 DEF Spawn
  <2>2. UNCHANGED <<sum, mem, disk, image, text, acked>>
    BY <1>2
  <2> QED BY <2>1, <2>2 DEF Acknowledged, Kept, Types
<1>3. CASE Ending(Finish) \/ Ending(Forget) \/ Ending(Save) \/ Ending(Write)
  <2>1. Kept' \subseteq Kept /\ UNCHANGED <<acked, stage, answer, job>>
    BY <1>3 DEF Finish, Forget, Save, Write, Types, Kept
  <2> QED BY <2>1 DEF Acknowledged
<1> QED BY <1>1, <1>2, <1>3, MainCases

LEMMA AckStep == Types /\ Acknowledged /\ [Next]_vars => Acknowledged'
<1> SUFFICES ASSUME Types, Acknowledged, [Next]_vars PROVE Acknowledged'
  OBVIOUS
<1>1. CASE Report
  <2>1. UNCHANGED <<acked, stage, answer, job>>
    BY <1>1 DEF Report
  <2>2. Kept' \subseteq Kept
    BY <1>1 DEF Report, Tick, Store, StoreSave, StoreWrite, ReporterEnd, InstanceState, Types, Kept
  <2> QED BY <2>1, <2>2 DEF Acknowledged
<1>2. CASE Arrives \/ Expire \/ Cancel \/ Terminated \/ UNCHANGED vars
  <2>1. UNCHANGED <<sum, mem, disk, image, text, acked, stage, answer, job>>
    BY <1>2 DEF Arrives, Arrive, Expire, Cancel, Terminated, vars
  <2> QED BY <2>1 DEF Acknowledged, Kept
<1>3. ASSUME NEW done, Resume(done), done \subseteq acked PROVE Acknowledged'
  <2>1. /\ Kept' = done \cup disk /\ acked' = acked
        /\ \A s \in Slots : stage'[s] = "none"
    BY <1>3 DEF Resume, NoText, Kept
  <2> QED BY <1>3, <2>1 DEF Acknowledged, Kept
<1>4. mem \subseteq acked /\ disk \subseteq acked
  BY DEF Acknowledged, Kept
<1> QED BY <1>1, <1>2, <1>3, <1>4, AckMain, AckPart DEF Next, Arrives, Again, Panic, Crash

-------------------------------------------------------------------------------
(* How Execute ends *)

EndInv == Outcome /\ TerminationIsReported

\* Past Wait with nothing left to upload, an upload that was not canceled has
\* every checksum.
LEMMA AllDone ==
  ASSUME PartsInv, GroupInv, main = "decide", deque = <<>>, ~canceled
  PROVE  Parts \subseteq sum
<1>1. \A s \in Slots : stage[s] = "none"
  BY DEF GroupInv, MainInGroup, Past, Mains
<1>2. \A p \in Parts : ~InDeque(p) /\ ~InHand(p)
  BY <1>1 DEF InDeque, InHand
<1> QED BY <1>2 DEF PartsInv, NoPartLost

LEMMA EndMain == ASSUME Types, GroupInv, PartsInv, EndInv, MainStep PROVE EndInv'
<1> USE DEF MainFrame, Handing, Deciding, Ending
<1>1. CASE Handing(Shift) \/ Handing(Spawn) \/ Handing(NextRound)
  <2>1. /\ main \in {"shift", "spawn", "join", "round"} /\ main' \in {"shift", "spawn", "join", "round", "decide"}
        /\ main' = "decide" => deque' = <<>>
        /\ UNCHANGED <<result, sum, uperr, canceled>>
    BY <1>1 DEF Shift, Spawn, NextRound, Round
  <2>2. result = "none"
    BY <2>1 DEF EndInv, Outcome
  <2> QED BY <2>1, <2>2 DEF EndInv, Outcome, TerminationIsReported
<1>2. CASE Deciding(Decide /\ Quiet)
  <2>1. /\ main = "decide" /\ result = "none" /\ deque = <<>>
        /\ UNCHANGED <<sum, uperr, canceled>> /\ (uperr => canceled)
    BY <1>2 DEF Decide, EndInv, Outcome
  <2>2. CASE canceled /\ main' = "finish" /\ result' = IF uperr THEN "error" ELSE "canceled"
    BY <2>1, <2>2 DEF EndInv, Outcome, TerminationIsReported
  <2>3. CASE ~canceled /\ main' = "create" /\ UNCHANGED result
    <3>1. Parts \subseteq sum
      BY <2>1, <2>3, AllDone
    <3> QED BY <2>1, <2>3, <3>1 DEF EndInv, Outcome, TerminationIsReported
  <2> QED BY <1>2, <2>2, <2>3 DEF Decide
<1>3. CASE Deciding(Create)
  <2>1. /\ main = "create" /\ main' = "finish" /\ result' \in {"success", "expired", "error"}
        /\ UNCHANGED <<sum, uperr, canceled>>
    BY <1>3 DEF Create
  <2>2. Parts \subseteq sum /\ ~uperr
    BY <2>1 DEF EndInv, Outcome, TerminationIsReported
  <2> QED BY <2>1, <2>2 DEF EndInv, Outcome, TerminationIsReported
<1>4. CASE Ending(Finish)
  <2>1. /\ main = "finish" /\ main' \in {"forget", "ended"}
        /\ UNCHANGED <<result, sum, uperr, canceled>>
    BY <1>4 DEF Finish
  <2> QED BY <2>1 DEF EndInv, Outcome, TerminationIsReported
<1>5. CASE Ending(Forget) \/ Ending(Save) \/ Ending(Write)
  <2>1. /\ main \in {"forget", "save", "write"} /\ main' \in {"save", "write", "ended"}
        /\ UNCHANGED <<result, sum, uperr, canceled>>
    BY <1>5 DEF Forget, Save, Write
  <2> QED BY <2>1 DEF EndInv, Outcome, TerminationIsReported
<1> QED BY <1>1, <1>2, <1>3, <1>4, <1>5, MainCases

LEMMA EndPart == ASSUME Types, GroupInv, EndInv, NEW s \in Slots, PartStep(s) PROVE EndInv'
<1>t. UNCHANGED <<main, result>>
  BY DEF PartStep
<1>1. CASE stage[s] = "none"
  <2>1. UNCHANGED <<deque, sum, uperr, canceled>>
    BY <1>1 DEF PartStep, Request, Abandon, Terminate, Retry, Succeed, Notify, Done
  <2> QED BY <1>t, <2>1 DEF EndInv, Outcome, TerminationIsReported
<1>2. CASE stage[s] # "none"
  <2>1. main \in {"shift", "spawn", "join"}
    BY <1>2 DEF GroupInv, MainInGroup, Past, Types
  <2>2. result = "none"
    BY <2>1 DEF EndInv, Outcome
  <2>3. \/ UNCHANGED <<uperr, canceled>>
        \/ canceled' = TRUE /\ uperr' = TRUE
    BY DEF PartStep, Request, Abandon, Terminate, Retry, Succeed, Notify, Done
  <2> QED BY <1>t, <2>1, <2>2, <2>3 DEF EndInv, Outcome, TerminationIsReported
<1> QED BY <1>1, <1>2

LEMMA EndStep == Types /\ GroupInv /\ PartsInv /\ EndInv /\ [Next]_vars => EndInv'
<1> SUFFICES ASSUME Types, GroupInv, PartsInv, EndInv, [Next]_vars PROVE EndInv'
  OBVIOUS
<1>1. CASE Report
  <2>1. UNCHANGED <<main, deque, result, sum, uperr, canceled>>
    BY <1>1 DEF Report
  <2> QED BY <2>1 DEF EndInv, Outcome, TerminationIsReported
<1>2. CASE Arrives \/ Expire \/ Terminated \/ UNCHANGED vars
  <2>1. UNCHANGED <<main, deque, result, sum, uperr, canceled>>
    BY <1>2 DEF Arrives, Arrive, Expire, Terminated, vars
  <2> QED BY <2>1 DEF EndInv, Outcome, TerminationIsReported
<1>3. CASE Cancel
  <2>1. UNCHANGED <<main, deque, result, sum, uperr>> /\ canceled' = TRUE
    BY <1>3 DEF Cancel
  <2> QED BY <2>1 DEF EndInv, Outcome, TerminationIsReported
<1>4. ASSUME NEW done, Resume(done) PROVE EndInv'
  <2>1. main' = "shift" /\ result' = "none" /\ uperr' = FALSE
    BY <1>4 DEF Resume
  <2> QED BY <2>1 DEF EndInv, Outcome, TerminationIsReported
<1> QED BY <1>1, <1>2, <1>3, <1>4, EndMain, EndPart DEF Next, Arrives, Again, Panic, Crash

-------------------------------------------------------------------------------
(* What is stored before there is a result *)

LEMMA GrowsStep ==
  ASSUME Types, EndInv, OnlyGrows, [Next]_vars
  PROVE  OnlyGrows'
<1> USE DEF MainFrame, Handing, Deciding, Ending
<1>1. CASE Handing(Shift) \/ Handing(Spawn) \/ Handing(NextRound)
  <2>1. UNCHANGED <<result, sum, mem, image, text, reporter>>
    BY <1>1 DEF Shift, Spawn, NextRound
  <2> QED BY <2>1 DEF OnlyGrows
<1>2. CASE Deciding(Decide /\ Quiet) \/ Deciding(Create)
  <2>1. /\ UNCHANGED <<sum, mem, image, text, reporter>>
        /\ result' = result \/ result' # "none"
    BY <1>2 DEF Decide, Create
  <2> QED BY <2>1 DEF OnlyGrows
<1>3. CASE Ending(Finish) \/ Ending(Forget) \/ Ending(Save) \/ Ending(Write)
  <2>1. main \in {"finish", "forget", "save", "write"} /\ result' = result
    BY <1>3 DEF Finish, Forget, Save, Write
  <2>2. result # "none"
    BY <2>1 DEF EndInv, Outcome
  <2> QED BY <2>1, <2>2 DEF OnlyGrows
<1>4. ASSUME NEW s \in Slots, PartStep(s) PROVE OnlyGrows'
  <2>1. UNCHANGED <<result, mem, image, text, reporter>> /\ sum \subseteq sum'
    BY <1>4 DEF PartStep, Request, Abandon, Terminate, Retry, Succeed, Notify, Done
  <2> QED BY <2>1 DEF OnlyGrows
<1>5. CASE Report
  <2>1. UNCHANGED <<result, sum>>
    BY <1>5 DEF Report
  <2>2. CASE Tick \/ ReporterEnd
    BY <2>1, <2>2 DEF Tick, ReporterEnd, OnlyGrows
  <2>3. CASE Store
    BY <2>1, <2>3 DEF Store, InstanceState, OnlyGrows
  <2>4. CASE StoreSave \/ StoreWrite
    BY <2>1, <2>4 DEF StoreSave, StoreWrite, OnlyGrows, Types
  <2> QED BY <1>5, <2>2, <2>3, <2>4 DEF Report
<1>6. CASE Arrives \/ Expire \/ Cancel \/ Terminated \/ UNCHANGED vars
  <2>1. UNCHANGED <<result, sum, mem, image, text, reporter>>
    BY <1>6 DEF Arrives, Arrive, Expire, Cancel, Terminated, vars
  <2> QED BY <2>1 DEF OnlyGrows
<1>7. ASSUME NEW done, Resume(done) PROVE OnlyGrows'
  BY <1>7 DEF Resume, OnlyGrows
<1> QED
  BY <1>1, <1>2, <1>3, <1>4, <1>5, <1>6, <1>7, MainCases DEF Next, Arrives, Again, Panic, Crash

-------------------------------------------------------------------------------
(* The invariant, and the theorems *)

LEMMA Split ==
  IInv <=> /\ Types /\ GroupInv /\ PartsInv /\ Acknowledged /\ EndInv
           /\ OnlyGrows /\ Len(deque) <= P
BY DEF IInv, TypeOK, WG!TypeOK, Types, GroupInv, GroupTypes, PartsInv, EndInv

LEMMA DequeIsShort == Types /\ PartsInv => Len(deque) <= P
<1> SUFFICES ASSUME Types, PartsInv PROVE Len(deque) <= P
  OBVIOUS
<1>1. NoDup(deque) /\ deque \in Seq(Parts)
  BY DequeParts DEF PartsInv, Types
<1> QED BY <1>1, NoDupIsShort

LEMMA InitEstablishes == Init => IInv
<1> SUFFICES ASSUME Init PROVE IInv
  OBVIOUS
<1> DEFINE q == ToUpload({})
<1>1. q \in Seq(Parts) /\ NoDup(q) /\ \A p \in Parts : In(q, p)
  BY ToUploadIs
<1> HIDE DEF q
<1>2. deque = q /\ sum = {} /\ main = "shift" /\ \A s \in Slots : stage[s] = "none"
  BY DEF Init, q
<1>3. Types
  <2> HIDE DEF ToUpload
  <2> QED
    BY <1>1, <1>2, OnePart DEF Init, NoText, Types, Mains, PartStages, Answers, Reporters, Results
<1>4. GroupInv
  <2>1. count = 0 /\ tokens = 0 /\ caller = "free" /\ task = [s \in Slots |-> "none"]
    BY DEF Init, WG!NewWaitGroup
  <2>2. Running = {}
    BY <2>1 DEF Running
  <2> QED
    BY <1>2, <2>1, <2>2, FS_EmptySet
    DEF GroupInv, GroupTypes, CountIsRunning, StagesRun, MainInGroup, Past, WG!Callers, WG!TaskStates
<1>5. PartsInv
  <2>1. NoPartLost
    BY <1>1, <1>2 DEF NoPartLost, InDeque, In
  <2>2. OneUploadPerPart
    BY <1>1, <1>2 DEF OneUploadPerPart, NoDup
  <2> QED BY <1>2, <2>1, <2>2 DEF PartsInv, NextIsFree, NotifiedIsDone
<1>6. Acknowledged /\ EndInv /\ OnlyGrows
  BY <1>2 DEF Init, NoText, Acknowledged, Kept, EndInv, Outcome, TerminationIsReported, OnlyGrows
<1> QED BY <1>3, <1>4, <1>5, <1>6, DequeIsShort, Split

LEMMA InvStep == IInv /\ [Next]_vars => IInv'
<1> SUFFICES ASSUME IInv, [Next]_vars PROVE IInv'
  OBVIOUS
<1>1. Types' /\ GroupInv' /\ PartsInv' /\ Acknowledged' /\ EndInv' /\ OnlyGrows'
  BY Split, TypesStep, GroupStep, PartsStep, AckStep, EndStep, GrowsStep
<1>2. (Len(deque) <= P)'
  <2>1. NoDup(deque') /\ deque' \in Seq(Parts)
    BY <1>1 DEF PartsInv, OneUploadPerPart, NoDup, Types
  <2> QED BY <2>1, NoDupIsShort
<1> QED
  BY <1>1, <1>2 DEF IInv, TypeOK, WG!TypeOK, Types, GroupInv, GroupTypes, PartsInv, EndInv

LEMMA Invariance == Spec => []IInv
BY InitEstablishes, InvStep, PTL DEF Spec

\* The deque never holds more than the parts of the file, nor does the counter of
\* the wait group go below zero, for any number of parts and of parallel requests.
THEOREM UploadTypeCorrect == Spec => []TypeOK
BY Invariance, PTL DEF IInv

\* No failure, retry or end of a round loses a part (multiworker.go:56-117).
THEOREM EveryPartIsSomewhere == Spec => []NoPartLost
BY Invariance, PTL DEF IInv

\* No part is with two goroutines, nor uploaded again after it has its checksum
\* (multiworker.go:49-54 and 87-103).
THEOREM PartsUploadedOnce == Spec => []OneUploadPerPart
BY Invariance, PTL DEF IInv

\* The server has acknowledged every part that the stored upload state skips
\* (upload.go:352-358).
THEOREM StoredWasAcked == Spec => []StoredIsAcked
<1>1. IInv => StoredIsAcked
  BY DEF IInv, Acknowledged, Kept, StoredIsAcked
<1> QED BY <1>1, Invariance, PTL

\* CreateSuperFile gets a checksum from the server for every part: the parts of
\* this run, of the runs it resumes, and those before a crash (multiworker.go:128).
THEOREM SuperFileHasAll == Spec => []SuperFileComplete
<1>1. IInv => SuperFileComplete
  BY DEF IInv, Acknowledged, Kept, Outcome, SuperFileComplete
<1> QED BY <1>1, Invariance, PTL

\* An upload that a part has terminated ends with that error, and the super file is
\* not created (multiworker.go:88-95 and 119-126).
THEOREM TerminationReported == Spec => []TerminationIsReported
BY Invariance, PTL DEF IInv

-------------------------------------------------------------------------------
(* The upload, as the queue sees it *)

Ended == main = "ended" /\ reporter = "ended"
seenVars == <<Sent, server, acked, mem, disk, result, Ended>>

\* A request is on its way for as long as it has no answer.
LEMMA SentStays ==
  ASSUME UNCHANGED <<job, stage, answer, loose>>
  PROVE  Sent' = Sent
BY DEF Sent, OnTheWay

\* A request that gets its answer was sent; when the goroutine leaves without one,
\* it still is.
LEMMA SentEnds ==
  ASSUME Types, NEW s \in Slots, PartStep(s)
  PROVE  \/ Sent' = Sent
         \/ Request(s) /\ job[s] \in Sent /\ Sent' \in {Sent, Sent \ {job[s]}}
<1> DEFINE others == {job[u] : u \in {v \in Slots \ {s} : stage[v] = "request" /\ answer[v] = "none"}}
           left == {p \in Parts : loose[p] > 0}
<1>t. /\ job' = job /\ job[s] \in Parts /\ stage \in [Slots -> PartStages]
      /\ answer \in [Slots -> Answers] /\ loose \in [Parts -> Nat]
  BY DEF PartStep, Types
<1>1. Sent = others \cup left \cup (IF stage[s] = "request" /\ answer[s] = "none" THEN {job[s]} ELSE {})
  BY DEF Sent, OnTheWay
<1>2. ASSUME \A u \in Slots \ {s} : stage'[u] = stage[u] /\ answer'[u] = answer[u]
      PROVE  Sent' = others \cup left'
                       \cup (IF stage'[s] = "request" /\ answer'[s] = "none" THEN {job[s]} ELSE {})
  BY <1>t, <1>2 DEF Sent, OnTheWay
<1> HIDE DEF others
<1>3. Loosen({job[s]}) => left' = left \cup {job[s]}
  BY <1>t DEF Loosen
<1>4. loose' = loose => left' = left
  OBVIOUS
<1> HIDE DEF left
<1>5. CASE Request(s)
  <2>1. /\ stage' = stage /\ stage[s] = "request" /\ answer[s] = "none" /\ answer'[s] # "none"
        /\ \A u \in Slots \ {s} : answer'[u] = answer[u]
        /\ Loosen({job[s]}) \/ loose' = loose
    BY <1>5, <1>t DEF Request
  <2> QED BY <1>1, <1>2, <1>3, <1>4, <1>5, <2>1
<1>6. CASE Abandon(s)
  <2>1. /\ answer' = answer /\ stage[s] = "request" /\ stage'[s] = "return"
        /\ \A u \in Slots \ {s} : stage'[u] = stage[u]
        /\ IF answer[s] = "none" THEN Loosen({job[s]}) ELSE loose' = loose
    BY <1>6, <1>t DEF Abandon
  <2> QED BY <1>1, <1>2, <1>3, <1>4, <2>1
<1>7. CASE Terminate(s) \/ Retry(s) \/ Succeed(s) \/ Notify(s) \/ Done(s)
  <2>1. /\ answer' = answer /\ loose' = loose
        /\ \A u \in Slots \ {s} : stage'[u] = stage[u]
        /\ stage' = stage \/ (stage'[s] # "request" /\ ~(stage[s] = "request" /\ answer[s] = "none"))
    BY <1>7, <1>t DEF Terminate, Retry, Succeed, Notify, Done
  <2> QED BY <1>1, <1>2, <1>4, <2>1
<1> QED BY <1>5, <1>6, <1>7 DEF PartStep

\* Nothing of an upload that has ended is running but requests that nobody waits
\* for: what is left are these, the environment, and a new run.
LEMMA StepReports ==
  ASSUME IInv, IInv', Report
  PROVE  [Contract!Next]_seenVars
<1> USE DEF seenVars, Ended
<1>1. /\ UNCHANGED <<main, result, sum, server, acked>> /\ (result = "none" => main # "ended")
      /\ Sent' = Sent
  BY SentStays DEF Report, IInv, Outcome
<1>2. CASE Tick
  BY <1>1, <1>2 DEF Tick
<1>3. CASE Store
  <2>1. mem' \subseteq acked /\ (result = "none" => mem \subseteq mem')
    BY <1>1, <1>3 DEF Store, InstanceState, IInv, Acknowledged, Kept, OnlyGrows
  <2>2. Contract!Remember
    BY <1>1, <1>3, <2>1 DEF Store, Contract!Remember
  <2> QED BY <2>2 DEF Contract!Next
<1>4. CASE StoreSave
  BY <1>1, <1>4 DEF StoreSave
<1>5. CASE StoreWrite
  <2>1. disk' \subseteq acked /\ (result = "none" => disk' = mem)
    BY <1>1, <1>5 DEF StoreWrite, IInv, Acknowledged, Kept, OnlyGrows
  <2>2. Contract!Write
    BY <1>1, <1>5, <2>1 DEF StoreWrite, Contract!Write
  <2> QED BY <2>2 DEF Contract!Next
<1>6. CASE ReporterEnd
  BY <1>1, <1>6 DEF ReporterEnd, Contract!Return, Contract!Next
<1> QED BY <1>2, <1>3, <1>4, <1>5, <1>6 DEF Report

\* A part is acknowledged while Execute waits for it, so before there is a result;
\* a request that nobody waits for any more may still arrive.
LEMMA StepUploads ==
  ASSUME IInv, NEW s \in Slots, PartStep(s)
  PROVE  [Contract!Next]_seenVars
<1> USE DEF seenVars, Ended
<1>1. UNCHANGED <<main, reporter, mem, disk, result>>
  BY DEF PartStep
<1>2. CASE Request(s) /\ Sent' # Sent
  <2>1. main \in {"shift", "spawn", "join"} /\ result = "none" /\ job[s] \in Parts
    BY <1>2 DEF Request, IInv, TypeOK, MainInGroup, Past, Outcome
  <2>2. job[s] \in Sent /\ Sent' \in {Sent, Sent \ {job[s]}}
    BY <1>2, SentEnds, Split
  <2>3. \/ server' = server \cup {job[s]} /\ acked' = acked \cup {job[s]}
        \/ UNCHANGED <<server, acked>>
    BY <1>2 DEF Request
  <2> HIDE DEF Sent
  <2>4. CASE server' = server \cup {job[s]} /\ acked' = acked \cup {job[s]}
    BY <1>1, <2>1, <2>2, <2>4 DEF Contract!Receive, Contract!Ends, Contract!Next
  <2>5. CASE UNCHANGED <<server, acked>>
    BY <1>1, <2>1, <2>2, <2>5 DEF Contract!Arrive, Contract!Ends, Contract!Next
  <2> QED BY <2>3, <2>4, <2>5
<1>3. CASE Request(s) /\ Sent' = Sent
  <2>1. main \in {"shift", "spawn", "join"} /\ result = "none" /\ job[s] \in Parts
    BY <1>3 DEF Request, IInv, TypeOK, MainInGroup, Past, Outcome
  <2>2. \/ server' = server \cup {job[s]} /\ acked' = acked \cup {job[s]} /\ job[s] \in Sent
        \/ UNCHANGED <<server, acked>>
    BY <1>3, <2>1 DEF Request, Sent, OnTheWay
  <2> HIDE DEF Sent
  <2>3. CASE server' = server \cup {job[s]} /\ acked' = acked \cup {job[s]} /\ job[s] \in Sent
    BY <1>1, <1>3, <2>1, <2>3 DEF Contract!Receive, Contract!Ends, Contract!Next
  <2> QED BY <1>1, <1>3, <2>2, <2>3
<1>4. CASE ~Request(s)
  <2>1. UNCHANGED <<server, acked>>
    BY <1>4 DEF PartStep, Abandon, Terminate, Retry, Succeed, Notify, Done
  <2>2. Sent' = Sent
    BY <1>4, SentEnds, Split
  <2> QED BY <1>1, <2>1, <2>2
<1> QED BY <1>2, <1>3, <1>4

\* The goroutine in Execute only adds a request: that of the part it starts.
LEMMA SentGrows ==
  ASSUME Types, GroupInv, MainStep
  PROVE  \/ Sent' = Sent
         \/ main = "spawn" /\ Sent' = Sent \cup {next}
<1> USE DEF MainFrame, Handing, Deciding, Ending
<1>1. CASE Handing(Spawn)
  <2>1. CASE UNCHANGED partVars
    BY <1>1, <2>1, SentStays
  <2>2. ASSUME NEW s \in Slots, job' = [job EXCEPT ![s] = next],
               stage' = [stage EXCEPT ![s] = "request"], answer' = [answer EXCEPT ![s] = "none"],
               WG!CountUp(s)
        PROVE  main = "spawn" /\ Sent' = Sent \cup {next}
    <3>1. main = "spawn" /\ stage[s] # "request" /\ loose' = loose
      BY <1>1, <2>2 DEF Spawn, WG!CountUp, GroupInv, StagesRun
    <3>2. /\ stage'[s] = "request" /\ answer'[s] = "none" /\ job'[s] = next
          /\ \A u \in Slots \ {s} : stage'[u] = stage[u] /\ answer'[u] = answer[u] /\ job'[u] = job[u]
      BY <2>2 DEF Types
    <3>3. OnTheWay' = OnTheWay \cup {next}
      BY <3>1, <3>2 DEF OnTheWay
    <3> QED BY <3>1, <3>3 DEF Sent
  <2> QED BY <1>1, <2>1, <2>2 DEF Spawn
<1>2. CASE ~Handing(Spawn)
  <2>1. UNCHANGED <<job, stage, answer, loose>>
    BY <1>2, MainCases DEF Shift, NextRound
  <2> QED BY <2>1, SentStays
<1> QED BY <1>1, <1>2

LEMMA StepExecutes ==
  ASSUME IInv, IInv', MainStep
  PROVE  [Contract!Next]_seenVars
<1> USE DEF seenVars, Ended, MainFrame, Handing, Deciding, Ending
<1>0. UNCHANGED <<reporter, server, acked>>
  BY DEF MainStep
<1>s. \/ Sent' = Sent
      \/ main = "spawn" /\ Sent' = Sent \cup {next}
  BY SentGrows, Split
<1> HIDE DEF Sent
<1>1. CASE Handing(Shift) \/ Handing(Spawn) \/ Handing(NextRound)
  <2>1. /\ UNCHANGED <<mem, disk, result>>
        /\ main # "ended" /\ main' # "ended"
    BY <1>1 DEF Shift, Spawn, NextRound, Round
  <2>2. main = "spawn" => result = "none" /\ next \in Parts
    BY DEF IInv, Outcome, TypeOK
  <2> QED BY <1>0, <1>s, <2>1, <2>2 DEF Contract!Send, Contract!Next
<1>2. CASE Deciding(Decide /\ Quiet)
  <2>1. /\ UNCHANGED <<mem, disk>> /\ main = "decide" /\ main' # "ended"
        /\ result' = result \/ result' \in {"error", "canceled"}
    BY <1>2 DEF Decide
  <2>2. result = "none"
    BY <2>1 DEF IInv, Outcome
  <2> QED BY <1>0, <1>s, <2>1, <2>2 DEF Contract!Fail, Contract!Next
<1>3. CASE Deciding(Create)
  <2>1. UNCHANGED <<mem, disk>> /\ main = "create" /\ main' = "finish"
    BY <1>3 DEF Create
  <2>2. result = "none" /\ acked = Parts
    BY <2>1 DEF IInv, TypeOK, Outcome, Acknowledged, Kept
  <2>3. \/ result' = IF server = Parts THEN "success" ELSE "expired"
        \/ result' = "error"
    BY <1>3 DEF Create
  <2> QED
    BY <1>0, <1>s, <2>1, <2>2, <2>3 DEF Contract!Complete, Contract!Fail, Contract!Next
<1>4. CASE Ending(Finish)
  <2>1. UNCHANGED <<mem, disk, result>> /\ main = "finish"
    BY <1>4 DEF Finish
  <2>2. result # "none"
    BY <2>1 DEF IInv, Outcome
  <2> QED BY <1>0, <1>s, <2>1, <2>2 DEF Contract!Return, Contract!Next
<1>5. CASE Ending(Forget)
  <2>1. /\ main = "forget" /\ main' = "save" /\ mem' = {} /\ UNCHANGED <<disk, result>>
    BY <1>5 DEF Forget
  <2>2. result # "none"
    BY <2>1 DEF IInv, Outcome
  <2> QED BY <1>0, <1>s, <2>1, <2>2 DEF Contract!Remember, Contract!Next
<1>6. CASE Ending(Save)
  <2>1. main = "save" /\ main' = "write" /\ UNCHANGED <<mem, disk, result>>
    BY <1>6 DEF Save
  <2> QED BY <1>0, <1>s, <2>1
<1>7. CASE Ending(Write)
  <2>1. /\ main = "write" /\ main' = "ended" /\ UNCHANGED <<mem, result>>
        /\ disk' = text.main
    BY <1>7 DEF Write
  <2>2. result # "none" /\ disk' \subseteq acked
    BY <2>1 DEF IInv, Outcome, Acknowledged, Kept
  <2> QED BY <1>0, <1>s, <2>1, <2>2 DEF Contract!Write, Contract!Next
<1> QED BY <1>1, <1>2, <1>3, <1>4, <1>5, <1>6, <1>7, MainCases

\* A request that nobody waits for was sent; there may be another of the same part.
LEMMA StepArrives ==
  ASSUME Types, NEW p \in Parts, Arrive(p)
  PROVE  Contract!Arrive
<1>1. /\ loose \in [Parts -> Nat] /\ loose[p] > 0 /\ UNCHANGED <<job, stage, answer>>
      /\ loose' = [loose EXCEPT ![p] = @ - 1]
      /\ server' \in {server, server \cup {p}}
      /\ UNCHANGED <<main, reporter, acked, mem, disk, result>>
  BY DEF Types, Arrive
<1>2. p \in Sent /\ Sent' \in {Sent, Sent \ {p}}
  <2>1. OnTheWay' = OnTheWay
    BY <1>1 DEF OnTheWay
  <2> DEFINE left == {q \in Parts : loose[q] > 0}
  <2>2. p \in left /\ left' \in {left, left \ {p}}
    BY <1>1
  <2> HIDE DEF left
  <2>3. Sent = OnTheWay \cup left /\ Sent' = OnTheWay' \cup left'
    BY DEF Sent, left
  <2> QED BY <2>1, <2>2, <2>3
<1> HIDE DEF Sent
<1> QED BY <1>1, <1>2 DEF Contract!Arrive, Contract!Ends

\* What was on its way when the upload is begun anew still is.
LEMMA SentSurvives ==
  ASSUME Types, NEW done, Resume(done)
  PROVE  Sent' = Sent
<1>1. /\ \A s \in Slots : stage'[s] = "none"
      /\ loose' = [p \in Parts |-> IF p \in OnTheWay THEN loose[p] + 1 ELSE loose[p]]
      /\ loose \in [Parts -> Nat]
  BY DEF Resume, Loosen, Types
<1>2. OnTheWay' = {} /\ OnTheWay \subseteq Parts
  BY <1>1 DEF OnTheWay, Types
<1> HIDE DEF OnTheWay
<1>3. \A p \in Parts : loose'[p] > 0 <=> p \in OnTheWay \/ loose[p] > 0
  BY <1>1
<1> QED BY <1>2, <1>3 DEF Sent

LEMMA StepContract ==
  IInv /\ IInv' /\ [Next]_vars => [Contract!Next]_seenVars
<1> SUFFICES ASSUME IInv, IInv', [Next]_vars PROVE [Contract!Next]_seenVars
  OBVIOUS
<1>t. Types
  BY Split
<1>1. CASE Expire
  <2>1. Sent' = Sent
    BY <1>1, SentStays DEF Expire
  <2> QED BY <1>1, <2>1 DEF Expire, Contract!Expire, Contract!Next
<1>2. CASE Cancel \/ Terminated \/ UNCHANGED vars
  <2>1. Sent' = Sent
    BY <1>2, SentStays DEF Cancel, Terminated, vars
  <2> HIDE DEF Sent
  <2> QED BY <1>2, <2>1 DEF seenVars, Ended, Cancel, Terminated, vars
<1>3. ASSUME NEW done, Resume(done), done = disk \/ (Ended /\ result = "error" /\ done = mem)
      PROVE  Contract!Next
  <2>1. Sent' = Sent
    BY <1>t, <1>3, SentSurvives
  <2> QED BY <1>3, <2>1 DEF Ended, Resume, Contract!Again, Contract!Next
<1>4. CASE Again \/ Panic \/ Crash
  BY <1>3, <1>4 DEF Again, Panic, Crash, Ended
<1>5. CASE Arrives
  BY <1>5, <1>t, StepArrives DEF Arrives, Contract!Next
<1> QED BY <1>1, <1>2, <1>4, <1>5, StepReports, StepUploads, StepExecutes DEF Next, Arrives

\* The upload that the queue may rely on (Upload), through failing and terminated
\* parts, retries, cancellations, expired parts, crashes, and a reporter that saves
\* while Execute does: of no state that is ever stored, a resumed upload skips a
\* part that the server did not acknowledge, and a success is one of all the parts.
\* Once there is a result no part is sent and none acknowledged; a request that the
\* upload did not wait for (multiworker.go:79-82), one that a crash or an error of
\* the network cut off from its answer, may reach the server at any time, and change
\* nothing of this (multiworker.go:40-134, upload.go:349-393).
THEOREM UploaderImplementsUpload == Spec => ImplementsUpload
<1>1. Init => Contract!Init
  <2>1. Init => Sent = {}
    BY DEF Init, Sent, OnTheWay
  <2> QED BY <2>1 DEF Init, Contract!Init
<1>2. Spec => []IInv
  BY Invariance
<1>3. IInv /\ IInv' /\ [Next]_vars
        => [Contract!Next]_<<Sent, server, acked, mem, disk, result,
                             main = "ended" /\ reporter = "ended">>
  BY StepContract DEF seenVars, Ended
<1> QED BY <1>1, <1>2, <1>3, PTL DEF Spec, ImplementsUpload, Contract!Spec

-------------------------------------------------------------------------------
(* Whoever waits, waits for somebody who can go on *)

\* The slots that hold a token, or whose goroutine is just taking it out.
Holding == {s \in Slots : task[s] # "none"}
TokensHeld ==
  /\ tokens = Cardinality(Holding) + (IF caller = "add" THEN 1 ELSE 0)
  /\ tokens <= Parallel

\* The reporter receives notices until Execute has told it to end.
ReporterWaits ==
  main \in {"shift", "spawn", "join", "round", "decide", "create", "finish"} =>
    ~finished /\ reporter # "ended"

\* What Execute or a part may wait for is there, or is in the hands of another
\* goroutine that is not waiting for the same.
NobodyIsStuck ==
  /\ main = "spawn" /\ caller = "add" => \E s \in Slots : task[s] = "none"
  /\ main = "spawn" /\ caller = "send" => WG!NotFull \/ \E s \in Slots : task[s] # "none"
  /\ main = "join" => count = 0 \/ \E s \in Slots : stage[s] # "none"
  /\ main = "finish" => ~finished
  /\ \A s \in Slots :
       /\ task[s] = "run" => count > 0
       /\ task[s] = "leave" => tokens > 0
       /\ stage[s] = "notify" => ~finished /\ reporter # "ended"

LEMMA FiniteHolding ==
  /\ IsFiniteSet(Holding) /\ Cardinality(Holding) \in Nat
  /\ IsFiniteSet(Slots) /\ Cardinality(Slots) = Parallel /\ Holding \subseteq Slots
<1>1. IsFiniteSet(Slots) /\ Cardinality(Slots) = Parallel /\ Holding \subseteq Slots
  BY FS_Interval, UploaderAssumption DEF Slots, Holding
<1> QED BY <1>1, FS_Subset, FS_CardinalityType

\* Every step of the uploader is one that WaitGroup knows, or begins anew: the
\* rounds keep to the shape in which the group is to be used.
LEMMA UsesWaitGroup == [Next]_vars => [WG!Next]_groupVars \/ WG!NewWaitGroup'
<1> SUFFICES ASSUME [Next]_vars PROVE [WG!Next]_groupVars \/ WG!NewWaitGroup'
  OBVIOUS
<1>1. CASE MainStep
  <2> USE DEF Handing, Deciding, Ending
  <2> HIDE DEF WG!AddDelta, WG!SendToken, WG!CountUp, WG!Wait, WG!Join, WG!New
  <2>1. CASE Handing(Shift) \/ Handing(Spawn) \/ Handing(NextRound)
    BY <2>1 DEF Shift, Spawn, NextRound, Round, WG!Next
  <2>2. CASE \/ Deciding(Decide /\ Quiet) \/ Deciding(Create)
             \/ Ending(Finish) \/ Ending(Forget) \/ Ending(Save) \/ Ending(Write)
    BY <2>2
  <2> QED BY <1>1, <2>1, <2>2, MainCases
<1>2. ASSUME NEW s \in Slots, PartStep(s) PROVE [WG!Next]_groupVars
  BY <1>2 DEF PartStep, Request, Abandon, Terminate, Retry, Succeed, Notify, Done, WG!Next
<1>3. CASE Report \/ Arrives \/ Expire \/ Cancel \/ Terminated \/ UNCHANGED vars
  BY <1>3 DEF Report, Arrives, Arrive, Expire, Cancel, Terminated, vars
<1>4. ASSUME NEW done, Resume(done) PROVE WG!NewWaitGroup'
  BY <1>4 DEF Resume, WG!NewWaitGroup
<1> QED BY <1>1, <1>2, <1>3, <1>4 DEF Next, Arrives, Again, Panic, Crash

LEMMA FreshTokens == WG!NewWaitGroup => TokensHeld
<1> SUFFICES ASSUME WG!NewWaitGroup PROVE TokensHeld
  OBVIOUS
<1>1. Holding = {} /\ tokens = 0 /\ caller = "free"
  BY DEF WG!NewWaitGroup, Holding
<1> QED BY <1>1, FS_EmptySet, UploaderAssumption DEF TokensHeld

LEMMA FreshTokensNext == WG!NewWaitGroup' => TokensHeld'
BY FreshTokens, PTL

LEMMA TokensStep == GroupTypes /\ TokensHeld /\ [Next]_vars => TokensHeld'
<1> SUFFICES ASSUME GroupTypes, TokensHeld, [Next]_vars PROVE TokensHeld'
  OBVIOUS
<1>1. CASE WG!AddDelta \/ WG!Wait \/ WG!Join \/ UNCHANGED groupVars
  <2>1. /\ UNCHANGED <<tokens, task>>
        /\ (caller' = "add") <=> (caller = "add")
    BY <1>1 DEF WG!AddDelta, WG!Wait, WG!Join
  <2> QED BY <2>1 DEF TokensHeld, Holding
<1>2. CASE WG!SendToken
  <2>1. /\ caller = "send" /\ caller' = "add" /\ task' = task
        /\ tokens' = tokens + 1 /\ tokens < Parallel
    BY <1>2, UploaderAssumption DEF WG!SendToken, WG!NotFull
  <2>2. Holding' = Holding
    BY <2>1 DEF Holding
  <2> QED BY <2>1, <2>2, FiniteHolding, UploaderAssumption DEF TokensHeld
<1>3. ASSUME NEW s \in Slots, WG!CountUp(s) PROVE TokensHeld'
  <2>1. /\ caller = "add" /\ caller' = "free" /\ tokens' = tokens
        /\ task[s] = "none" /\ task' = [task EXCEPT ![s] = "run"]
    BY <1>3 DEF WG!CountUp
  <2>2. Holding' = Holding \cup {s} /\ s \notin Holding
    BY <2>1 DEF Holding, GroupTypes
  <2>3. Cardinality(Holding') = Cardinality(Holding) + 1
    BY <2>2, FiniteHolding, FS_AddElement
  <2> QED BY <2>1, <2>3, FiniteHolding DEF TokensHeld
<1>4. ASSUME NEW s \in Slots, WG!CountDown(s) PROVE TokensHeld'
  <2>1. /\ task[s] = "run" /\ task' = [task EXCEPT ![s] = "leave"]
        /\ UNCHANGED <<tokens, caller>>
    BY <1>4 DEF WG!CountDown
  <2>2. Holding' = Holding
    BY <2>1 DEF Holding, GroupTypes
  <2> QED BY <2>1, <2>2 DEF TokensHeld
<1>5. ASSUME NEW s \in Slots, WG!TakeToken(s) PROVE TokensHeld'
  <2>1. /\ task[s] = "leave" /\ task' = [task EXCEPT ![s] = "none"]
        /\ tokens' = tokens - 1 /\ caller' = caller
    BY <1>5, UploaderAssumption DEF WG!TakeToken
  <2>2. Holding' = Holding \ {s} /\ s \in Holding
    BY <2>1 DEF Holding, GroupTypes
  <2>3. Cardinality(Holding') = Cardinality(Holding) - 1
    BY <2>2, FiniteHolding, FS_RemoveElement
  <2> QED BY <2>1, <2>3, FiniteHolding, UploaderAssumption DEF TokensHeld
<1>6. CASE WG!New
  BY <1>6, FreshTokensNext DEF WG!New, WG!NewWaitGroup
<1> QED BY <1>1, <1>2, <1>3, <1>4, <1>5, <1>6, UsesWaitGroup, FreshTokensNext DEF WG!Next

LEMMA ReporterStep == ReporterWaits /\ [Next]_vars => ReporterWaits'
<1> SUFFICES ASSUME ReporterWaits, [Next]_vars PROVE ReporterWaits'
  OBVIOUS
<1> USE DEF ReporterWaits
<1>1. CASE MainStep
  <2> USE DEF Handing, Deciding, Ending, MainFrame
  <2>1. CASE Handing(Shift) \/ Handing(Spawn) \/ Handing(NextRound)
    BY <2>1 DEF Shift, Spawn, NextRound, Round
  <2>2. CASE Deciding(Decide /\ Quiet) \/ Deciding(Create)
    BY <2>2 DEF Decide, Create
  <2>3. CASE Ending(Finish) \/ Ending(Forget) \/ Ending(Save) \/ Ending(Write)
    BY <2>3 DEF Finish, Forget, Save, Write
  <2> QED BY <1>1, <2>1, <2>2, <2>3, MainCases
<1>2. CASE Report
  BY <1>2 DEF Report, Tick, Store, StoreSave, StoreWrite, ReporterEnd
<1>3. ASSUME NEW s \in Slots, PartStep(s) PROVE ReporterWaits'
  BY <1>3 DEF PartStep
<1>4. CASE Arrives \/ Expire \/ Cancel \/ Terminated \/ UNCHANGED vars
  BY <1>4 DEF Arrives, Arrive, Expire, Cancel, Terminated, vars
<1>5. ASSUME NEW done, Resume(done) PROVE ReporterWaits'
  BY <1>5 DEF Resume
<1> QED BY <1>1, <1>2, <1>3, <1>4, <1>5 DEF Next, Arrives, Again, Panic, Crash

\* The invariants, and a count of who holds what.
LEMMA HoldersGoOn ==
  ASSUME IInv, TokensHeld, ReporterWaits
  PROVE  NobodyIsStuck
<1>g. GroupTypes /\ CountIsRunning /\ StagesRun /\ MainInGroup /\ Types
  BY Split DEF GroupInv
<1>1. main = "spawn" /\ caller = "add" => \E s \in Slots : task[s] = "none"
  <2>1. caller = "add" => Cardinality(Holding) < Cardinality(Slots)
    BY FiniteHolding, UploaderAssumption DEF TokensHeld
  <2>2. caller = "add" => Holding # Slots
    BY <2>1, FiniteHolding, UploaderAssumption
  <2> QED BY <2>2 DEF Holding
<1>2. main = "spawn" /\ caller = "send" => WG!NotFull \/ \E s \in Slots : task[s] # "none"
  <2>1. caller = "send" /\ ~WG!NotFull => Cardinality(Holding) # 0
    BY FiniteHolding, UploaderAssumption DEF TokensHeld, WG!NotFull
  <2>2. Holding = {} => Cardinality(Holding) = 0
    BY FS_EmptySet
  <2> QED BY <2>1, <2>2 DEF Holding
<1>3. main = "join" => count = 0 \/ \E s \in Slots : stage[s] # "none"
  <2>1. count # 0 => Running # {}
    BY <1>g, FS_EmptySet DEF CountIsRunning
  <2> QED BY <1>g, <2>1 DEF Running, StagesRun
<1>4. main = "finish" => ~finished
  BY DEF ReporterWaits
<1>5. ASSUME NEW s \in Slots
      PROVE  /\ task[s] = "run" => count > 0
             /\ task[s] = "leave" => tokens > 0
             /\ stage[s] = "notify" => ~finished /\ reporter # "ended"
  <2>1. task[s] = "run" => Running # {}
    BY DEF Running
  <2>2. task[s] = "leave" => Holding # {}
    BY DEF Holding
  <2>3. task[s] = "run" => count > 0
    BY <1>g, <2>1, FiniteRunning, FS_EmptySet DEF CountIsRunning
  <2>4. task[s] = "leave" => tokens > 0
    <3>1. Holding # {} => Cardinality(Holding) # 0
      BY FiniteHolding, FS_EmptySet
    <3> QED BY <2>2, <3>1, FiniteHolding DEF TokensHeld
  <2>5. stage[s] = "notify" => ~finished /\ reporter # "ended"
    BY <1>g DEF MainInGroup, Past, Mains, ReporterWaits, Types
  <2> QED BY <2>3, <2>4, <2>5
<1> QED BY <1>1, <1>2, <1>3, <1>4, <1>5 DEF NobodyIsStuck

\* Nothing in Execute waits for what will not come.  A goroutine that AddDelta has
\* let in has a slot, so that slots restrict nothing; a full channel and a counter
\* above zero have goroutines behind them, and each of these finds its token and its
\* count; the message to the reporter has room; and the part that is waiting to send
\* a notice (the check and the send at multiworker.go:104-108 are two steps) has a
\* reporter which is still going to receive.
THEOREM NobodyWaitsInVain == Spec => []NobodyIsStuck
<1>1. Init => TokensHeld /\ ReporterWaits
  BY FreshTokens DEF Init, ReporterWaits
<1>2. IInv /\ TokensHeld /\ ReporterWaits /\ [Next]_vars => (TokensHeld /\ ReporterWaits)'
  BY TokensStep, ReporterStep, Split DEF GroupInv
<1>3. IInv /\ TokensHeld /\ ReporterWaits => NobodyIsStuck
  BY HoldersGoOn
<1> QED BY <1>1, <1>2, <1>3, Invariance, PTL DEF Spec

===========================================================================
