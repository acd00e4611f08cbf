-------------------------- MODULE DownloadQueueProofs --------------------------
(***************************************************************************)
(* For any number of paths, goroutines and retries: the state of the queue  *)
(* is well typed, and when the paths are a tree, so that no directory list  *)
(* and no argument names a path a second time, no task is ever on its way   *)
(* twice.  A directory puts its tasks on the deque when it is listed; what  *)
(* has to be shown is that none is listed again, or after its own contents. *)
(***************************************************************************)
EXTENDS DownloadQueue, FiniteSetTheorems, SequenceTheorems, WellFoundedInduction, TLAPS

\* The wait group counts the goroutines that are not done.
Busy == {s \in Slots : goroutine[s] = "run"}
CountIsBusy == count = Cardinality(Busy)
StagesRun == \A s \in Slots : pc[s] # "idle" <=> goroutine[s] = "run"
JoinedIsIdle == caller = "joined" => \A s \in Slots : pc[s] = "idle"

\* Tasks are where their stages need them; only files are downloaded.
FileStages == Stages \ {"idle", "meta", "metaTest", "look"}
JobsFit ==
  /\ \A s \in Slots : pc[s] # "idle" => job[s] \in Paths
  /\ \A s \in Slots : pc[s] \in FileStages => job[s] \in Files
  /\ caller \in {"send", "add"} => next \in Paths

-------------------------------------------------------------------------------
(* The tree of the paths *)

ChildrenOf(d) == {Children[d][i] : i \in DOMAIN Children[d]}
Closed(S) == \A d \in S \cap Dirs : ChildrenOf(d) \subseteq S

\* What is in a directory, at any depth.
Below(d) == {t \in Paths : \A S \in SUBSET Paths : ChildrenOf(d) \subseteq S /\ Closed(S) => t \in S}

NoDup(q) == \A i, j \in DOMAIN q : q[i] = q[j] => i = j

\* Each path is named once: by the command line, or by the list of one directory,
\* which is not inside itself.
Tree ==
  /\ NoDup(Roots) /\ \A d \in Dirs : NoDup(Children[d])
  /\ \A d, e \in Dirs : d # e => ChildrenOf(d) \cap ChildrenOf(e) = {}
  /\ \A d \in Dirs : d \notin Below(d)
  /\ \A d \in Dirs, i \in DOMAIN Roots : Roots[i] \notin ChildrenOf(d)

-------------------------------------------------------------------------------
(* What is on its way *)

In(q, t) == \E i \in DOMAIN q : q[i] = t
Active(s) == pc[s] \notin {"idle", "sleep", "list", "remove", "listAgain"}
OnItsWay(t) == In(deque, t) \/ next = t \/ \E s \in Slots : job[s] = t /\ Active(s)

\* In at most one place.
Once ==
  /\ NoDup(deque)
  /\ \A t \in Paths : In(deque, t) => next # t /\ \A s \in Slots : job[s] = t => ~Active(s)
  /\ \A s \in Slots : Active(s) => job[s] # next
  /\ \A s, r \in Slots : Active(s) /\ Active(r) /\ job[s] = job[r] => s = r

\* Nothing in a directory is on its way while the directory is.
ContentsWait == \A d \in Dirs : OnItsWay(d) => \A t \in Below(d) : ~OnItsWay(t)

-------------------------------------------------------------------------------
(* Types, without the wait group *)

USE DEF groupVars, mainVars, slotVars, diskVars, reportVars

Types ==
  /\ load \in 1..MaxLoad /\ options \in Options
  /\ deque \in Seq(Paths) /\ next \in Paths \cup {Nobody}
  /\ over \in {"no", "done", "crashed"}
  /\ job \in [Slots -> Paths \cup {Nobody}] /\ pc \in [Slots -> Stages]
  /\ own \in [Slots -> Errors] /\ seen \in [Slots -> SUBSET Paths]
  /\ err \in Errors /\ known \in SUBSET Paths
  /\ retry \in [Paths -> 0..MaxRetry]
  /\ file \in [Files -> FileStates] /\ mark \in [Files -> Marks]
  /\ lost \in SUBSET Slots
  /\ failed \in SUBSET Paths /\ told \in SUBSET Paths

LEMMA InitTypes == Init => Types
<1>1. MaxLoad \in Nat \ {0} /\ MaxRetry \in Nat /\ Roots \in Seq(Paths)
  BY DownloadQueueAssumption
<1> QED BY <1>1 DEF Init, Types, Stages, Errors, FileStates, Marks

LEMMA ChildrenArePaths ==
  ASSUME NEW d \in Dirs
  PROVE  /\ d \in Paths /\ Children[d] \in Seq(Paths) /\ ChildrenOf(d) \subseteq Paths
         /\ ChildrenOf(d) = {Children[d][i] : i \in DOMAIN Children[d]}
<1>1. d \in Paths /\ Children[d] \in Seq(Paths)
  BY DownloadQueueAssumption DEF Paths
<1>2. \A i \in DOMAIN Children[d] : Children[d][i] \in Paths
  BY <1>1
<1> QED BY <1>1, <1>2 DEF ChildrenOf

LEMMA MainTypes == ASSUME Types, MainStep PROVE Types'
<1> USE DEF MainStep, Running
<1>1. CASE Take
  <2>1. Head(deque) \in Paths /\ Tail(deque) \in Seq(Paths)
    BY <1>1 DEF Types, Take
  <2> QED BY <1>1, <2>1 DEF Types, Take
<1>2. CASE Acquire \/ EndRound \/ Join
  BY <1>2 DEF Types, Acquire, EndRound, Join
<1>3. ASSUME NEW s \in Slots, Go(s) PROVE Types'
  BY <1>3 DEF Types, Go, Stages
<1>4. CASE Again
  BY <1>4 DEF Types, Again
<1> QED BY <1>1, <1>2, <1>3, <1>4 DEF Main

\* What a goroutine does next is a stage, and its task stays or is dropped.
LEMMA StageTypes ==
  ASSUME Types, NEW s \in Slots
  PROVE  /\ \A p \in Stages : Stay(s, p) =>
              pc' \in [Slots -> Stages] /\ job' \in [Slots -> Paths \cup {Nobody}]
         /\ Return(s) => pc' \in [Slots -> Stages] /\ job' \in [Slots -> Paths \cup {Nobody}]
<1>1. "idle" \in Stages
  BY DEF Stages
<1> QED BY <1>1 DEF Types, Stay, Return

SlotTypes ==
  pc' \in [Slots -> Stages] /\ job' \in [Slots -> Paths \cup {Nobody}]

LEMMA WorkerSlots == ASSUME Types, NEW s \in Slots, WorkerStep(s) PROVE SlotTypes
<1>1. CASE Return(s)
  BY <1>1, StageTypes DEF SlotTypes
<1>2. ASSUME NEW p \in Stages, Stay(s, p) PROVE SlotTypes
  BY <1>2, StageTypes DEF SlotTypes
<1>3. CASE Leave(s)
  BY <1>3 DEF Leave, Types, SlotTypes
<1> USE DEF Stages
<1> HIDE DEF Stay, Return, SlotTypes
<1>4. CASE Meta(s) \/ MetaTest(s) \/ List(s) \/ Look(s)
  BY <1>1, <1>2, <1>4 DEF Meta, MetaTest, List, Look
<1>5. CASE Refused(s) \/ Begin(s) \/ Broken(s) \/ Complete(s) \/ Test(s)
  BY <1>1, <1>2, <1>5 DEF Refused, Begin, Broken, Complete, Test
<1>6. CASE Check(s) \/ CheckTest(s) \/ CheckSwitch(s)
  BY <1>1, <1>2, <1>6 DEF Check, CheckTest, CheckSwitch
<1>7. CASE Ignore(s) \/ GiveUp(s) \/ Retry(s) \/ Exhaust(s)
  BY <1>1, <1>2, <1>7 DEF Ignore, GiveUp, Retry, Exhaust
<1>8. CASE Awake(s) \/ ListFailed(s) \/ Remove(s) \/ RemoveFails(s) \/ ListUnremoved(s)
  BY <1>1, <1>2, <1>8 DEF Awake, ListFailed, Remove, RemoveFails, ListUnremoved, AfterHandling
<1> QED BY <1>3, <1>4, <1>5, <1>6, <1>7, <1>8 DEF WorkerStep, Worker, HandleTaskErr

LEMMA WorkerTypes ==
  ASSUME Types, JobsFit, NEW s \in Slots, WorkerStep(s)
  PROVE  Types'
<1> USE DEF WorkerStep, Running
<1>s. pc' \in [Slots -> Stages] /\ job' \in [Slots -> Paths \cup {Nobody}]
  BY WorkerSlots DEF SlotTypes
<1>j. /\ pc[s] # "idle" => job[s] \in Paths
      /\ pc[s] \in FileStages => job[s] \in Files
  BY DEF JobsFit
<1> HIDE DEF Stay, Return
<1>1. CASE Meta(s) \/ MetaTest(s) \/ Look(s)
  BY <1>1, <1>s, <1>j DEF Types, Meta, MetaTest, Look, Errors
<1>2. CASE List(s)
  <2>1. /\ deque' = deque \/ deque' = deque \o Children[job[s]]
        /\ known' \in SUBSET Paths
    BY <1>2, ChildrenArePaths DEF List, Types
  <2>2. deque' \in Seq(Paths)
    <3>1. deque \in Seq(Paths) /\ Children[job[s]] \in Seq(Paths)
      BY <1>2, ChildrenArePaths DEF List, Types
    <3>2. deque \o Children[job[s]] \in Seq(Paths)
      BY <3>1
    <3> QED BY <2>1, <3>1, <3>2
  <2>3. told' \in SUBSET Paths
    BY <1>2, <1>j DEF List, Types
  <2> QED BY <1>2, <1>s, <2>1, <2>2, <2>3 DEF Types, List
<1>3. CASE Refused(s) \/ Test(s)
  BY <1>3, <1>s DEF Types, Refused, Test, Errors
<1>4. CASE Begin(s)
  <2>1. job[s] \in Files
    BY <1>4, <1>j DEF Begin, FileStages, Stages
  <2> QED BY <1>4, <1>s, <2>1 DEF Types, Begin, FileStates, Marks
<1>5. CASE Broken(s)
  BY <1>5, <1>s DEF Types, Broken, FileStates, Errors
<1>6. CASE Complete(s)
  <2>1. Received(job[s]) \subseteq FileStates
    BY DEF Received, FileStates
  <2> QED BY <1>6, <1>s, <2>1 DEF Types, Complete, Marks, Errors
<1>7. CASE Check(s)
  <2>1. Verdict(job[s]) \in Errors
    BY DEF Verdict, Errors
  <2> QED BY <1>7, <1>s, <2>1 DEF Types, Check, Errors
<1>8. CASE CheckTest(s) \/ CheckSwitch(s) \/ Ignore(s) \/ GiveUp(s)
  BY <1>8, <1>s, <1>j DEF Types, CheckTest, CheckSwitch, Ignore, GiveUp, Handling
<1>9. CASE Retry(s)
  <2>1. job[s] \in Paths
    BY <1>9, <1>j DEF Retry, Handling
  <2>2. Append(deque, job[s]) \in Seq(Paths)
    BY <2>1 DEF Types
  <2>3. retry' \in [Paths -> 0..MaxRetry]
    BY <1>9, <2>1, DownloadQueueAssumption DEF Types, Retry
  <2> QED BY <1>9, <1>s, <2>2, <2>3 DEF Types, Retry
<1>10. CASE Exhaust(s) \/ Awake(s) \/ RemoveFails(s)
  BY <1>10, <1>s DEF Types, Exhaust, Awake, RemoveFails, AfterHandling, Errors
<1>11. CASE ListFailed(s) \/ ListUnremoved(s)
  <2>1. job[s] \in Paths /\ seen[s] \in SUBSET Paths
    BY <1>11, <1>j DEF Types, ListFailed, ListUnremoved
  <2> QED BY <1>11, <1>s, <2>1 DEF Types, ListFailed, ListUnremoved, AfterHandling, Errors
<1>12. CASE Remove(s)
  BY <1>12, <1>s DEF Types, Remove, FileStates, Marks
<1>13. CASE Leave(s)
  BY <1>13 DEF Types, Leave
<1> HIDE DEF Running
<1> QED
  BY <1>1, <1>2, <1>3, <1>4, <1>5, <1>6, <1>7, <1>8, <1>9, <1>10, <1>11, <1>12, <1>13
  DEF Worker, HandleTaskErr

LEMMA TypesStep == Types /\ JobsFit /\ [Next]_vars => Types'
<1>1. CASE Terminated \/ UNCHANGED vars
  BY <1>1 DEF Types, Terminated, vars
<1> QED BY <1>1, MainTypes, WorkerTypes DEF Next

-------------------------------------------------------------------------------
(* What a step of a goroutine does to the group, the stages and the deque *)

MoveOn(s, p) ==
  /\ Stay(s, p) /\ deque' = deque
  /\ p # "idle" /\ pc[s] # "idle"
  /\ p \notin {"sleep", "list", "remove", "listAgain"} => Active(s)
  /\ p \in FileStages => job[s] \in Files
Finish(s) == Return(s) /\ deque' = deque /\ pc[s] # "idle"
Expand(s) ==
  /\ Return(s) /\ deque' = deque \o Children[job[s]]
  /\ pc[s] = "look" /\ job[s] \in Dirs
Repeat(s) ==
  /\ Stay(s, "sleep") /\ deque' = Append(deque, job[s])
  /\ pc[s] # "idle" /\ Active(s) /\ job[s] \in Files
TokenBack(s) == WG!TakeToken(s) /\ UNCHANGED <<deque, job, pc>>

Shape(s) ==
  /\ next' = next
  /\ \/ \E p \in Stages : MoveOn(s, p)
     \/ Finish(s) \/ Expand(s) \/ Repeat(s) \/ TokenBack(s)

LEMMA WorkerShape ==
  ASSUME JobsFit, NEW s \in Slots, WorkerStep(s)
  PROVE  Shape(s)
<1> USE DEF MoveOn, Finish, Stages, FileStages
<1> HIDE DEF Stay, Return
<1>j. pc[s] \in FileStages => job[s] \in Files
  BY DEF JobsFit
<1>1. CASE Meta(s) \/ MetaTest(s)
  BY <1>1 DEF Meta, MetaTest, Shape, Active
<1>2. CASE List(s)
  BY <1>2 DEF List, Shape, Expand
<1>3. CASE Look(s)
  BY <1>3 DEF Look, Shape, Active
<1>4. CASE Refused(s) \/ Begin(s) \/ Broken(s) \/ Complete(s) \/ Test(s)
  BY <1>4, <1>j DEF Refused, Begin, Broken, Complete, Test, Shape, Active
<1>5. CASE Check(s) \/ CheckTest(s) \/ CheckSwitch(s)
  BY <1>5, <1>j DEF Check, CheckTest, CheckSwitch, Shape, Active
<1>6. CASE Ignore(s) \/ GiveUp(s) \/ Exhaust(s)
  BY <1>6, <1>j DEF Ignore, GiveUp, Exhaust, Handling, Shape, Active
<1>7. CASE Retry(s)
  BY <1>7, <1>j DEF Retry, Handling, Shape, Repeat, Active
<1>8. CASE Awake(s) \/ ListFailed(s)
  BY <1>8, <1>j DEF Awake, ListFailed, AfterHandling, Shape
<1>9. CASE Remove(s) \/ RemoveFails(s) \/ ListUnremoved(s)
  BY <1>9, <1>j DEF Remove, RemoveFails, ListUnremoved, Shape
<1>10. CASE Leave(s)
  BY <1>10 DEF Leave, Shape, TokenBack
<1> QED
  BY <1>1, <1>2, <1>3, <1>4, <1>5, <1>6, <1>7, <1>8, <1>9, <1>10
  DEF WorkerStep, Worker, HandleTaskErr

-------------------------------------------------------------------------------
(* The wait group: when Wait has returned, no goroutine has a task *)

GroupTypes ==
  /\ count \in Nat /\ tokens \in Nat /\ tokens <= load
  /\ caller \in WG!Callers
  /\ goroutine \in [Slots -> WG!TaskStates]

GroupInv == GroupTypes /\ CountIsBusy /\ StagesRun /\ JoinedIsIdle

LEMMA FiniteBusy == IsFiniteSet(Busy) /\ Cardinality(Busy) \in Nat
<1>1. IsFiniteSet(Slots) /\ Busy \in SUBSET Slots
  BY FS_Interval, DownloadQueueAssumption DEF Slots, Busy
<1> QED BY <1>1, FS_Subset, FS_CardinalityType

LEMMA ZeroMeansIdle ==
  ASSUME GroupInv, count = 0
  PROVE  \A s \in Slots : pc[s] = "idle"
<1>1. Busy = {}
  BY FiniteBusy, FS_EmptySet DEF GroupInv, CountIsBusy
<1> QED BY <1>1 DEF GroupInv, StagesRun, Busy

\* A new group, and no goroutine.
LEMMA FreshGroup ==
  ASSUME WG!NewWaitGroup', \A s \in Slots : pc'[s] = "idle", load' \in Nat
  PROVE  GroupInv'
<1>1. /\ count' = 0 /\ tokens' = 0 /\ caller' = "free"
      /\ goroutine' = [s \in Slots |-> "none"]
  BY DEF WG!NewWaitGroup
<1>2. Busy' = {}
  BY <1>1 DEF Busy
<1>3. CountIsBusy'
  BY <1>1, <1>2, FS_EmptySet DEF CountIsBusy
<1> QED
  BY <1>1, <1>3 DEF GroupInv, GroupTypes, StagesRun, JoinedIsIdle, WG!Callers, WG!TaskStates

LEMMA GroupStays ==
  ASSUME GroupInv, UNCHANGED <<count, goroutine, load>>, tokens' \in 0..load,
         caller' \in WG!Callers, JoinedIsIdle', \A s \in Slots : pc'[s] # "idle" <=> pc[s] # "idle"
  PROVE  GroupInv'
<1>1. Busy' = Busy
  BY DEF Busy
<1> QED BY <1>1 DEF GroupInv, GroupTypes, CountIsBusy, StagesRun

LEMMA MainGroup == ASSUME Types, GroupInv, MainStep PROVE GroupInv'
<1>l. load' = load /\ load \in Nat /\ tokens \in 0..load
  BY DownloadQueueAssumption DEF MainStep, Running, Types, GroupInv, GroupTypes
<1>1. CASE Take
  BY <1>1, <1>l, GroupStays DEF Take, WG!AddDelta, WG!Callers, JoinedIsIdle
<1>2. CASE Acquire
  <2>1. /\ UNCHANGED <<count, goroutine, pc>> /\ caller' = "add"
        /\ tokens' = tokens \/ (tokens' = tokens + 1 /\ tokens < load)
    BY <1>2 DEF Acquire, WG!SendToken
  <2>2. tokens' \in 0..load
    BY <1>l, <2>1
  <2> QED BY <1>l, <2>1, <2>2, GroupStays DEF WG!Callers, JoinedIsIdle
<1>3. ASSUME NEW s \in Slots, Go(s) PROVE GroupInv'
  <2>1. /\ goroutine[s] = "none" /\ goroutine' = [goroutine EXCEPT ![s] = "run"]
        /\ count' = count + 1 /\ caller' = "free" /\ tokens' = tokens
        /\ pc' = [pc EXCEPT ![s] = "meta"]
    BY <1>3 DEF Go, WG!CountUp
  <2>2. Busy' = Busy \cup {s} /\ s \notin Busy
    BY <2>1 DEF Busy, GroupInv, GroupTypes
  <2>3. CountIsBusy'
    BY <2>1, <2>2, FiniteBusy, FS_AddElement DEF GroupInv, CountIsBusy
  <2>4. StagesRun'
    BY <2>1 DEF GroupInv, GroupTypes, StagesRun, Types
  <2> QED
    BY <1>l, <2>1, <2>3, <2>4 DEF GroupInv, GroupTypes, JoinedIsIdle, WG!Callers, WG!TaskStates
<1>4. CASE EndRound
  BY <1>4, <1>l, GroupStays DEF EndRound, WG!Wait, WG!Callers, JoinedIsIdle
<1>5. CASE Join
  <2>1. count = 0 /\ caller' = "joined" /\ UNCHANGED <<count, tokens, goroutine, pc>>
    BY <1>5 DEF Join, WG!Join
  <2>2. JoinedIsIdle'
    BY <2>1, ZeroMeansIdle DEF JoinedIsIdle
  <2> QED BY <1>l, <2>1, <2>2, GroupStays DEF WG!Callers
<1>6. CASE Again
  <2>1. pc' = pc /\ \A s \in Slots : pc[s] = "idle"
    BY <1>6 DEF Again, GroupInv, JoinedIsIdle
  <2>2. CASE WG!New
    BY <1>l, <2>1, <2>2, FreshGroup DEF WG!New, WG!NewWaitGroup
  <2>3. CASE UNCHANGED groupVars
    BY <1>l, <2>1, <2>3, GroupStays DEF GroupInv, GroupTypes, JoinedIsIdle
  <2> QED BY <1>6, <2>2, <2>3 DEF Again
<1> QED BY <1>1, <1>2, <1>3, <1>4, <1>5, <1>6 DEF MainStep, Main

LEMMA WorkerGroup ==
  ASSUME Types, GroupInv, NEW s \in Slots, Shape(s), load' = load
  PROVE  GroupInv'
<1>l. load \in Nat /\ tokens \in 0..load
  BY DownloadQueueAssumption DEF Types, GroupInv, GroupTypes
<1>1. ASSUME NEW p \in Stages, MoveOn(s, p) PROVE GroupInv'
  <2>1. UNCHANGED groupVars /\ \A r \in Slots : pc'[r] # "idle" <=> pc[r] # "idle"
    BY <1>1 DEF MoveOn, Stay, Types
  <2>2. JoinedIsIdle'
    BY <2>1 DEF GroupInv, JoinedIsIdle
  <2> QED BY <1>l, <2>1, <2>2, GroupStays DEF GroupInv, GroupTypes
<1>2. CASE Repeat(s)
  <2>1. UNCHANGED groupVars /\ \A r \in Slots : pc'[r] # "idle" <=> pc[r] # "idle"
    BY <1>2 DEF Repeat, Stay, Types
  <2>2. JoinedIsIdle'
    BY <2>1 DEF GroupInv, JoinedIsIdle
  <2> QED BY <1>l, <2>1, <2>2, GroupStays DEF GroupInv, GroupTypes
<1>3. CASE Finish(s) \/ Expand(s)
  <2>1. /\ goroutine[s] = "run" /\ goroutine' = [goroutine EXCEPT ![s] = "leave"]
        /\ count' = count - 1 /\ UNCHANGED <<tokens, caller>>
        /\ pc[s] # "idle" /\ pc' = [pc EXCEPT ![s] = "idle"]
    BY <1>3 DEF Finish, Expand, Return, WG!CountDown
  <2>2. Busy' = Busy \ {s} /\ s \in Busy
    BY <2>1 DEF Busy, GroupInv, GroupTypes
  <2>3. count # 0
    BY <2>1, ZeroMeansIdle
  <2>4. CountIsBusy'
    BY <2>1, <2>2, FiniteBusy, FS_RemoveElement DEF GroupInv, CountIsBusy
  <2>5. StagesRun'
    BY <2>1 DEF GroupInv, GroupTypes, StagesRun, Types
  <2>6. JoinedIsIdle'
    BY <2>1 DEF GroupInv, JoinedIsIdle, Types
  <2> QED BY <2>1, <2>3, <2>4, <2>5, <2>6 DEF GroupInv, GroupTypes, WG!TaskStates
<1>4. CASE TokenBack(s)
  <2>1. /\ goroutine[s] = "leave" /\ goroutine' = [goroutine EXCEPT ![s] = "none"]
        /\ tokens' = tokens \/ (tokens > 0 /\ tokens' = tokens - 1)
        /\ UNCHANGED <<count, caller, pc>>
    BY <1>4 DEF TokenBack, WG!TakeToken
  <2>2. tokens' \in Nat /\ tokens' <= load
    BY <1>l, <2>1
  <2>3. Busy' = Busy
    BY <2>1 DEF Busy, GroupInv, GroupTypes
  <2>4. StagesRun'
    BY <2>1 DEF GroupInv, GroupTypes, StagesRun
  <2>5. JoinedIsIdle'
    BY <2>1 DEF GroupInv, JoinedIsIdle
  <2> QED
    BY <2>1, <2>2, <2>3, <2>4, <2>5 DEF GroupInv, GroupTypes, CountIsBusy, WG!TaskStates
<1> QED BY <1>1, <1>2, <1>3, <1>4 DEF Shape

LEMMA GroupStep == Types /\ GroupInv /\ JobsFit /\ [Next]_vars => GroupInv'
<1>1. ASSUME Types, GroupInv, Terminated \/ UNCHANGED vars PROVE GroupInv'
  <2>1. UNCHANGED <<groupVars, load, pc>>
    BY <1>1 DEF Terminated, vars
  <2> QED BY <1>1, <2>1, GroupStays DEF Types, GroupInv, GroupTypes, JoinedIsIdle
<1>2. ASSUME Types, GroupInv, JobsFit, NEW s \in Slots, WorkerStep(s) PROVE GroupInv'
  <2>1. load' = load
    BY <1>2 DEF WorkerStep, Running
  <2> QED BY <1>2, <2>1, WorkerShape, WorkerGroup
<1> QED BY <1>1, <1>2, MainGroup DEF Next

-------------------------------------------------------------------------------
(* Where the tasks are *)

LEMMA MainFits ==
  ASSUME Types, GroupInv, JobsFit, MainStep
  PROVE  JobsFit'
<1>1. CASE Take
  <2>1. Head(deque) \in Paths
    BY <1>1 DEF Types, Take
  <2> QED BY <1>1, <2>1 DEF JobsFit, Take
<1>2. CASE Acquire \/ EndRound \/ Join
  BY <1>2 DEF JobsFit, Acquire, EndRound, Join, WG!SendToken, WG!Wait, WG!Join
<1>3. ASSUME NEW s \in Slots, Go(s) PROVE JobsFit'
  BY <1>3 DEF JobsFit, Go, WG!CountUp, Types, FileStages
<1>4. CASE Again
  BY <1>4 DEF JobsFit, Again, WG!New
<1> QED BY <1>1, <1>2, <1>3, <1>4 DEF MainStep, Main

LEMMA WorkerFits ==
  ASSUME Types, JobsFit, NEW s \in Slots, Shape(s)
  PROVE  JobsFit'
<1>1. ASSUME NEW p \in Stages, MoveOn(s, p) PROVE JobsFit'
  BY <1>1 DEF JobsFit, Shape, MoveOn, Stay, Types
<1>2. CASE Repeat(s)
  BY <1>2 DEF JobsFit, Shape, Repeat, Stay, Types
<1>3. CASE Finish(s) \/ Expand(s)
  BY <1>3 DEF JobsFit, Shape, Finish, Expand, Return, WG!CountDown, Types, FileStages
<1>4. CASE TokenBack(s)
  BY <1>4 DEF JobsFit, Shape, TokenBack, WG!TakeToken
<1> QED BY <1>1, <1>2, <1>3, <1>4 DEF Shape

LEMMA FitStep == Types /\ GroupInv /\ JobsFit /\ [Next]_vars => JobsFit'
<1>1. ASSUME JobsFit, Terminated \/ UNCHANGED vars PROVE JobsFit'
  BY <1>1 DEF Terminated, vars, JobsFit
<1> QED BY <1>1, MainFits, WorkerShape, WorkerFits DEF Next

-------------------------------------------------------------------------------
(* What is in a directory *)

LEMMA ChildrenBelow == \A d \in Dirs : ChildrenOf(d) \subseteq Below(d)
BY ChildrenArePaths DEF Below

LEMMA BelowClosed ==
  ASSUME NEW d \in Dirs, NEW e \in Below(d) \cap Dirs
  PROVE  ChildrenOf(e) \subseteq Below(d)
<1>1. ASSUME NEW S \in SUBSET Paths, ChildrenOf(d) \subseteq S /\ Closed(S)
      PROVE  ChildrenOf(e) \subseteq S
  BY <1>1 DEF Below, Closed
<1> QED BY <1>1, ChildrenArePaths DEF Below

LEMMA BelowChild ==
  ASSUME NEW d \in Dirs, NEW e \in ChildrenOf(d) \cap Dirs
  PROVE  Below(e) \subseteq Below(d)
<1>1. ASSUME NEW S \in SUBSET Paths, ChildrenOf(d) \subseteq S /\ Closed(S)
      PROVE  ChildrenOf(e) \subseteq S
  BY <1>1 DEF Closed
<1> QED BY <1>1 DEF Below

\* It is in the list of the directory, or of a directory in it.
LEMMA BelowIsListed ==
  ASSUME NEW d \in Dirs, NEW t \in Below(d), t \notin ChildrenOf(d)
  PROVE  \E e \in Below(d) \cap Dirs : t \in ChildrenOf(e)
<1> DEFINE S == ChildrenOf(d) \cup UNION {ChildrenOf(e) : e \in Below(d) \cap Dirs}
<1>1. S \in SUBSET Paths
  BY ChildrenArePaths
<1>2. \A e \in S : e \in Below(d)
  BY ChildrenBelow, BelowClosed
<1>3. Closed(S)
  BY <1>2 DEF Closed
<1> QED BY <1>1, <1>3 DEF Below

-------------------------------------------------------------------------------
(* Deques without duplicates *)

LEMMA TailOf ==
  ASSUME NEW q \in Seq(Paths), q # <<>>, NoDup(q)
  PROVE  /\ NoDup(Tail(q)) /\ In(q, Head(q)) /\ ~In(Tail(q), Head(q))
         /\ \A t : In(Tail(q), t) => In(q, t)
<1>1. /\ Len(q) \in Nat \ {0} /\ DOMAIN q = 1..Len(q)
      /\ DOMAIN Tail(q) = 1..(Len(q) - 1) /\ Head(q) = q[1]
      /\ \A i \in 1..(Len(q) - 1) : Tail(q)[i] = q[i + 1]
  OBVIOUS
<1>2. \A i \in 1..(Len(q) - 1) : i + 1 \in DOMAIN q /\ i + 1 # 1 /\ i \in Nat
  BY <1>1
<1>3. 1 \in DOMAIN q
  BY <1>1
<1>4. NoDup(Tail(q))
  <2> SUFFICES ASSUME NEW i \in 1..(Len(q) - 1), NEW j \in 1..(Len(q) - 1), q[i + 1] = q[j + 1]
               PROVE  i = j
    BY <1>1 DEF NoDup
  <2>1. i + 1 = j + 1
    BY <1>2 DEF NoDup
  <2> QED BY <1>2, <2>1
<1>5. ~In(Tail(q), Head(q))
  BY <1>1, <1>2, <1>3 DEF In, NoDup
<1>6. In(q, Head(q)) /\ \A t : In(Tail(q), t) => In(q, t)
  BY <1>1, <1>2, <1>3 DEF In
<1> QED BY <1>4, <1>5, <1>6

LEMMA Joined ==
  ASSUME NEW q \in Seq(Paths), NEW r \in Seq(Paths), NoDup(q), NoDup(r),
         \A t \in Paths : ~(In(q, t) /\ In(r, t))
  PROVE  /\ NoDup(q \o r)
         /\ \A t : In(q \o r, t) <=> In(q, t) \/ In(r, t)
<1> DEFINE n == Len(q)
           m == Len(r)
           c == q \o r
<1>1. /\ n \in Nat /\ m \in Nat /\ DOMAIN q = 1..n /\ DOMAIN r = 1..m
      /\ c \in Seq(Paths) /\ DOMAIN c = 1..(n + m)
      /\ \A i \in 1..n : c[i] = q[i]
      /\ \A i \in 1..m : c[n + i] = r[i]
  OBVIOUS
<1>2. \A i \in 1..n : q[i] \in Paths /\ In(q, q[i])
  BY <1>1 DEF In
<1>3. \A i \in 1..m : r[i] \in Paths /\ In(r, r[i])
  BY <1>1 DEF In
<1> HIDE DEF n, m, c
<1>4. \A i \in 1..(n + m) : i \in 1..n \/ (i - n \in 1..m /\ i = n + (i - n))
  BY <1>1
<1>5. /\ \A i \in 1..n : i \in 1..(n + m)
      /\ \A i \in 1..m : n + i \in 1..(n + m)
  BY <1>1
<1>6. \A i \in 1..(n + m) :
        (i \in 1..n /\ c[i] = q[i]) \/ \E k \in 1..m : i = n + k /\ c[i] = r[k]
  BY <1>1, <1>4
<1>7. NoDup(c)
  <2> SUFFICES ASSUME NEW i \in 1..(n + m), NEW j \in 1..(n + m), c[i] = c[j]
               PROVE  i = j
    BY <1>1 DEF NoDup
  <2>1. CASE i \in 1..n /\ c[i] = q[i] /\ j \in 1..n /\ c[j] = q[j]
    BY <1>1, <2>1 DEF NoDup
  <2>2. ASSUME NEW k \in 1..m, NEW l \in 1..m, i = n + k, c[i] = r[k], j = n + l, c[j] = r[l]
        PROVE  i = j
    BY <1>1, <2>2 DEF NoDup
  <2>3. ASSUME NEW k \in 1..n, NEW l \in 1..m, c[i] = q[k], c[j] = r[l]
        PROVE  FALSE
    BY <1>2, <1>3, <2>3
  <2>4. ASSUME NEW k \in 1..n, NEW l \in 1..m, c[j] = q[k], c[i] = r[l]
        PROVE  FALSE
    BY <1>2, <1>3, <2>4
  <2> QED BY <1>6, <2>1, <2>2, <2>3, <2>4
<1>8. ASSUME NEW t PROVE In(c, t) <=> In(q, t) \/ In(r, t)
  BY <1>1, <1>5, <1>6 DEF In
<1> QED BY <1>7, <1>8 DEF c

LEMMA AppendTo ==
  ASSUME NEW q \in Seq(Paths), NEW e \in Paths, NoDup(q), ~In(q, e)
  PROVE  /\ NoDup(Append(q, e))
         /\ \A t : In(Append(q, e), t) <=> In(q, t) \/ t = e
<1>1. /\ Len(q) \in Nat /\ DOMAIN q = 1..Len(q)
      /\ DOMAIN Append(q, e) = 1..(Len(q) + 1)
      /\ Append(q, e)[Len(q) + 1] = e
      /\ \A i \in 1..Len(q) : Append(q, e)[i] = q[i]
  OBVIOUS
<1>2. \A i \in 1..(Len(q) + 1) : i \in 1..Len(q) \/ i = Len(q) + 1
  BY <1>1
<1>3. 1..Len(q) \subseteq 1..(Len(q) + 1) /\ Len(q) + 1 \in 1..(Len(q) + 1)
  BY <1>1
<1>4. NoDup(Append(q, e))
  BY <1>1, <1>2 DEF NoDup, In
<1>5. ASSUME NEW t PROVE In(Append(q, e), t) <=> In(q, t) \/ t = e
  BY <1>1, <1>2, <1>3 DEF In
<1> QED BY <1>4, <1>5

-------------------------------------------------------------------------------
(* Nothing is on its way twice *)

WayInv == Once /\ ContentsWait

\* Steps that put nothing on its way.
LEMMA NothingNew ==
  ASSUME WayInv, UNCHANGED <<deque, next>>,
         \A s \in Slots : Active(s)' => Active(s) /\ job'[s] = job[s]
  PROVE  WayInv'
<1>1. \A t : OnItsWay(t)' => OnItsWay(t)
  BY DEF OnItsWay, In
<1>2. ContentsWait'
  BY <1>1 DEF WayInv, ContentsWait
<1>3. Once'
  BY DEF WayInv, Once, NoDup, In
<1> QED BY <1>2, <1>3 DEF WayInv

LEMMA WayInit == ASSUME Tree, Init PROVE WayInv
<1>1. \A s \in Slots : ~Active(s)
  BY DEF Init, Active
<1>2. \A t \in Paths : OnItsWay(t) => In(Roots, t)
  BY <1>1, DownloadQueueAssumption DEF Init, OnItsWay, Nobody, Paths
<1>3. \A d \in Dirs, t \in Paths : In(Roots, t) => t \notin Below(d)
  BY BelowIsListed DEF Tree, In
<1>4. ContentsWait
  BY <1>2, <1>3 DEF ContentsWait, Below
<1>5. Once
  BY <1>1, DownloadQueueAssumption DEF Once, Init, Tree, Nobody, Paths
<1> QED BY <1>4, <1>5 DEF WayInv

LEMMA TakeWay ==
  ASSUME Types, WayInv, Take
  PROVE  WayInv'
<1>1. /\ deque \in Seq(Paths) /\ deque # <<>> /\ NoDup(deque) /\ Head(deque) \in Paths
      /\ next' = Head(deque) /\ deque' = Tail(deque) /\ UNCHANGED <<job, pc>>
  BY DEF Take, Types, WayInv, Once
<1>2. /\ NoDup(deque') /\ In(deque, next') /\ ~In(deque', next')
      /\ \A t : In(deque', t) => In(deque, t)
  BY <1>1, TailOf
<1>3. \A s \in Slots : Active(s)' <=> Active(s)
  BY <1>1 DEF Active
<1>4. \A t : OnItsWay(t)' => OnItsWay(t)
  BY <1>1, <1>2, <1>3 DEF OnItsWay
<1>5. ContentsWait'
  BY <1>4 DEF WayInv, ContentsWait
<1>6. Once'
  BY <1>1, <1>2, <1>3 DEF WayInv, Once
<1> QED BY <1>5, <1>6 DEF WayInv

LEMMA GoWay ==
  ASSUME Types, GroupInv, JobsFit, WayInv, NEW s \in Slots, Go(s)
  PROVE  WayInv'
<1>1. /\ next \in Paths /\ next' = Nobody /\ deque' = deque
      /\ job' = [job EXCEPT ![s] = next] /\ pc' = [pc EXCEPT ![s] = "meta"]
      /\ goroutine[s] = "none"
  BY DEF Go, WG!CountUp, JobsFit
<1>2. pc[s] = "idle" /\ ~Active(s)
  BY <1>1 DEF GroupInv, StagesRun, Active
<1>3. /\ job'[s] = next /\ Active(s)'
      /\ \A r \in Slots \ {s} : job'[r] = job[r] /\ (Active(r)' <=> Active(r))
  BY <1>1 DEF Types, Active
<1>4. Nobody \notin Paths /\ \A r \in Slots : Active(r)' => job'[r] \in Paths
  BY <1>1, <1>3, DownloadQueueAssumption DEF JobsFit, Active, Nobody, Paths
<1>5. \A t \in Paths : OnItsWay(t)' => OnItsWay(t)
  BY <1>1, <1>3, <1>4 DEF OnItsWay
<1>6. ContentsWait'
  BY <1>5, ChildrenArePaths DEF WayInv, ContentsWait, Below
<1>7. Once'
  BY <1>1, <1>2, <1>3, <1>4 DEF WayInv, Once
<1> QED BY <1>6, <1>7 DEF WayInv

LEMMA RepeatWay ==
  ASSUME Types, JobsFit, WayInv, NEW s \in Slots, Repeat(s), next' = next
  PROVE  WayInv'
<1>1. /\ job[s] \in Paths /\ deque \in Seq(Paths) /\ NoDup(deque) /\ ~In(deque, job[s])
      /\ Active(s) /\ deque' = Append(deque, job[s])
      /\ job' = job /\ pc' = [pc EXCEPT ![s] = "sleep"]
  BY DEF Repeat, Stay, JobsFit, Types, WayInv, Once
<1>2. /\ NoDup(deque') /\ \A t : In(deque', t) <=> In(deque, t) \/ t = job[s]
  BY <1>1, AppendTo
<1>3. /\ ~Active(s)' /\ \A r \in Slots \ {s} : Active(r)' <=> Active(r)
  BY <1>1 DEF Types, Active
<1>4. \A t : OnItsWay(t)' => OnItsWay(t)
  BY <1>1, <1>2, <1>3 DEF OnItsWay
<1>5. ContentsWait'
  BY <1>4 DEF WayInv, ContentsWait
<1>6. Once'
  BY <1>1, <1>2, <1>3 DEF WayInv, Once
<1> QED BY <1>5, <1>6 DEF WayInv

\* A directory has been listed: its contents take its place.
LEMMA ExpandWay ==
  ASSUME Tree, Types, JobsFit, WayInv, NEW s \in Slots, Expand(s), next' = next
  PROVE  WayInv'
<1>d. PICK d : d = job[s]
  OBVIOUS
<1>1. /\ d \in Dirs /\ d \in Paths /\ deque \in Seq(Paths) /\ Active(s)
      /\ deque' = deque \o Children[d]
      /\ job' = [job EXCEPT ![s] = Nobody] /\ pc' = [pc EXCEPT ![s] = "idle"]
  BY <1>d DEF Expand, Return, Types, Active, Paths
<1>2. OnItsWay(d) /\ \A t \in Below(d) : ~OnItsWay(t)
  BY <1>1, <1>d DEF OnItsWay, WayInv, ContentsWait
<1>3. /\ Children[d] \in Seq(Paths) /\ NoDup(Children[d]) /\ ChildrenOf(d) \subseteq Paths
      /\ \A t : In(Children[d], t) <=> t \in ChildrenOf(d)
  BY <1>1, ChildrenArePaths DEF Tree, ChildrenOf, In
<1>4. /\ \A t \in ChildrenOf(d) : ~OnItsWay(t)
      /\ d \notin ChildrenOf(d) /\ d \notin Below(d)
  BY <1>1, <1>2, ChildrenBelow DEF Tree
<1>5. /\ NoDup(deque')
      /\ \A t : In(deque', t) <=> In(deque, t) \/ t \in ChildrenOf(d)
  <2>1. NoDup(deque) /\ \A t \in Paths : ~(In(deque, t) /\ In(Children[d], t))
    BY <1>3, <1>4 DEF WayInv, Once, OnItsWay
  <2> QED BY <1>1, <1>3, <2>1, Joined
<1>6. /\ ~Active(s)'
      /\ \A r \in Slots \ {s} : (Active(r)' <=> Active(r)) /\ job'[r] = job[r]
  BY <1>1 DEF Types, Active
<1>7. \A t : OnItsWay(t)' => OnItsWay(t) \/ t \in ChildrenOf(d)
  BY <1>5, <1>6 DEF OnItsWay
<1>8. ~OnItsWay(d)'
  <2>1. ~In(deque, d) /\ next # d /\ \A r \in Slots : Active(r) /\ job[r] = d => r = s
    BY <1>1, <1>d DEF WayInv, Once
  <2> QED BY <1>4, <1>5, <1>6, <2>1 DEF OnItsWay
<1>9. Once'
  <2>1. \A t \in Paths : In(deque', t) => next # t /\ \A r \in Slots : job'[r] = t => ~Active(r)'
    <3> SUFFICES ASSUME NEW t \in Paths, In(deque', t)
                 PROVE  next # t /\ \A r \in Slots : job'[r] = t => ~Active(r)'
      OBVIOUS
    <3>1. CASE In(deque, t)
      BY <1>6, <3>1 DEF WayInv, Once
    <3>2. CASE t \in ChildrenOf(d)
      BY <1>4, <1>6, <3>2 DEF OnItsWay
    <3> QED BY <1>5, <3>1, <3>2
  <2> QED BY <1>5, <1>6, <2>1 DEF WayInv, Once
<1>10. ASSUME NEW e \in Dirs, OnItsWay(e)', NEW t \in Below(e), OnItsWay(t)'
       PROVE  FALSE
  <2>1. CASE OnItsWay(e)
    <3>1. ~OnItsWay(t) /\ d \notin Below(e)
      BY <1>2, <2>1 DEF WayInv, ContentsWait
    <3>2. t \in ChildrenOf(d) /\ e # d
      BY <1>7, <1>8, <1>10, <3>1
    <3>3. t \notin ChildrenOf(e)
      BY <1>1, <3>2 DEF Tree
    <3>4. PICK f \in Below(e) \cap Dirs : t \in ChildrenOf(f)
      BY <3>3, BelowIsListed
    <3>5. f = d
      BY <1>1, <3>2, <3>4 DEF Tree
    <3> QED BY <3>1, <3>4, <3>5
  <2>2. CASE e \in ChildrenOf(d)
    <3>1. Below(e) \subseteq Below(d)
      BY <1>1, <2>2, BelowChild
    <3>2. t \in ChildrenOf(d) /\ e # d
      BY <1>2, <1>4, <1>7, <1>10, <2>2, <3>1
    <3>3. t \notin ChildrenOf(e)
      BY <1>1, <3>2 DEF Tree
    <3>4. PICK f \in Below(e) \cap Dirs : t \in ChildrenOf(f)
      BY <3>3, BelowIsListed
    <3>5. f = d
      BY <1>1, <3>2, <3>4 DEF Tree
    <3> QED BY <1>4, <3>1, <3>4, <3>5
  <2> QED BY <1>7, <1>10, <2>1, <2>2
<1>11. ContentsWait'
  BY <1>10 DEF ContentsWait
<1> QED BY <1>9, <1>11 DEF WayInv

LEMMA WayStep ==
  ASSUME Tree, Types, GroupInv, JobsFit, WayInv, [Next]_vars
  PROVE  WayInv'
<1>1. CASE MainStep
  <2>1. CASE Acquire \/ EndRound \/ Join \/ Again
    <3>1. UNCHANGED <<deque, next, job, pc>>
      BY <2>1 DEF Acquire, EndRound, Join, Again
    <3> QED BY <3>1, NothingNew DEF Active
  <2> QED BY <1>1, <2>1, TakeWay, GoWay DEF MainStep, Main
<1>2. ASSUME NEW s \in Slots, WorkerStep(s) PROVE WayInv'
  <2>1. Shape(s) /\ next' = next
    BY <1>2, WorkerShape DEF Shape
  <2>2. CASE \E p \in Stages : MoveOn(s, p)
    <3>1. UNCHANGED <<deque, next>> /\ \A r \in Slots : Active(r)' => Active(r) /\ job'[r] = job[r]
      BY <2>1, <2>2 DEF MoveOn, Stay, Active, Types
    <3> QED BY <3>1, NothingNew
  <2>3. CASE Finish(s)
    <3>1. UNCHANGED <<deque, next>> /\ \A r \in Slots : Active(r)' => Active(r) /\ job'[r] = job[r]
      BY <2>1, <2>3 DEF Finish, Return, Active, Types
    <3> QED BY <3>1, NothingNew
  <2>4. CASE TokenBack(s)
    <3>1. UNCHANGED <<deque, next, job, pc>>
      BY <2>1, <2>4 DEF TokenBack
    <3> QED BY <3>1, NothingNew DEF Active
  <2> QED BY <2>1, <2>2, <2>3, <2>4, ExpandWay, RepeatWay DEF Shape
<1>3. CASE Terminated \/ UNCHANGED vars
  <2>1. UNCHANGED <<deque, next, job, pc>>
    BY <1>3 DEF Terminated, vars
  <2> QED BY <2>1, NothingNew DEF Active
<1> QED BY <1>1, <1>2, <1>3 DEF Next

-------------------------------------------------------------------------------
(* The theorems *)

Sound == Types /\ GroupInv /\ JobsFit

LEMMA SoundInit == Init => Sound
<1> SUFFICES ASSUME Init PROVE Sound
  OBVIOUS
<1>1. GroupTypes /\ StagesRun /\ JoinedIsIdle
  BY DownloadQueueAssumption
  DEF Init, WG!NewWaitGroup, GroupTypes, StagesRun, JoinedIsIdle, WG!Callers, WG!TaskStates
<1>2. Busy = {} /\ count = 0
  BY DEF Init, WG!NewWaitGroup, Busy
<1>3. CountIsBusy
  BY <1>2, FS_EmptySet DEF CountIsBusy
<1>4. JobsFit
  BY DEF Init, WG!NewWaitGroup, JobsFit, FileStages
<1> QED BY <1>1, <1>3, <1>4, InitTypes DEF Sound, GroupInv

LEMMA SoundStep == Sound /\ [Next]_vars => Sound'
BY TypesStep, GroupStep, FitStep DEF Sound

LEMMA SoundIsTypeOK == Sound => TypeOK
BY DEF Sound, Types, GroupInv, GroupTypes, TypeOK, WG!TypeOK

\* The state of the queue is well typed: no retry count passes MaxRetry, and no
\* more than `load` goroutines hold a token (RunDownload and handleTaskErr).
THEOREM QueueTypeCorrect == Spec => []TypeOK
<1>1. Init => Sound
  BY SoundInit
<1>2. Sound /\ [Next]_vars => Sound'
  BY SoundStep
<1>3. Sound => TypeOK
  BY SoundIsTypeOK
<1> QED BY <1>1, <1>2, <1>3, PTL DEF Spec

-------------------------------------------------------------------------------
(* The rounds *)

\* The slots that hold a token, or whose goroutine is just taking it out.
Held == {s \in Slots : goroutine[s] # "none"}
TokensHeld == tokens = Cardinality(Held) + (IF caller = "add" THEN 1 ELSE 0)

\* At most `load` goroutines have a task, and a goroutine that AddDelta has let in
\* has a slot; a full channel and a counter above zero have goroutines behind them,
\* each of which finds its count and its token.
LoadIsKept ==
  /\ Cardinality({s \in Slots : pc[s] # "idle"}) <= load
  /\ caller = "add" => \E s \in Slots : goroutine[s] = "none" /\ \A r \in 1..(s - 1) : goroutine[r] # "none"
  /\ caller = "send" => tokens < load \/ \E s \in Slots : goroutine[s] # "none"
  /\ caller = "wait" => count = 0 \/ \E s \in Slots : pc[s] # "idle"
  /\ \A s \in Slots :
       (goroutine[s] = "run" => count > 0) /\ (goroutine[s] = "leave" => tokens > 0)

LEMMA FiniteHeld ==
  /\ IsFiniteSet(Held) /\ Cardinality(Held) \in Nat
  /\ IsFiniteSet(Slots) /\ Cardinality(Slots) = MaxLoad /\ Held \subseteq Slots
<1>1. IsFiniteSet(Slots) /\ Cardinality(Slots) = MaxLoad /\ Held \subseteq Slots
  BY FS_Interval, DownloadQueueAssumption DEF Slots, Held
<1> QED BY <1>1, FS_Subset, FS_CardinalityType

LEMMA LeastSlot ==
  ASSUME NEW S \in SUBSET Slots, S # {}
  PROVE  \E s \in S : \A r \in S : ~(r < s)
<1> DEFINE R == OpToRel(<, Nat)
<1>n. Slots \subseteq Nat
  BY DownloadQueueAssumption DEF Slots
<1>1. IsWellFoundedOn(R, Nat)
  BY NatLessThanWellFounded
<1>2. \A x, y \in Nat : x < y => <<x, y>> \in R
  BY DEF OpToRel
<1> HIDE DEF R
<1>3. PICK s \in S : \A r \in S : <<r, s>> \notin R
  BY <1>n, <1>1, WFMin
<1>4. \A r \in S : ~(r < s)
  BY <1>n, <1>2, <1>3
<1> QED BY <1>4

LEMMA GroupMoves == JobsFit /\ [Next]_vars => [WG!Next]_groupVars
<1> SUFFICES ASSUME JobsFit, [Next]_vars PROVE [WG!Next]_groupVars
  OBVIOUS
<1>1. CASE MainStep
  BY <1>1 DEF MainStep, Main, Take, Acquire, Go, EndRound, Join, Again, WG!Next
<1>2. ASSUME NEW s \in Slots, WorkerStep(s) PROVE [WG!Next]_groupVars
  <2>1. Shape(s)
    BY <1>2, WorkerShape
  <2> QED BY <2>1 DEF Shape, MoveOn, Finish, Expand, Repeat, TokenBack, Stay, Return, WG!Next
<1>3. CASE Terminated \/ UNCHANGED vars
  BY <1>3 DEF Terminated, vars
<1> QED BY <1>1, <1>2, <1>3 DEF Next

LEMMA FreshHeld == WG!NewWaitGroup => TokensHeld
<1> SUFFICES ASSUME WG!NewWaitGroup PROVE TokensHeld
  OBVIOUS
<1>1. Held = {} /\ tokens = 0 /\ caller = "free"
  BY DEF WG!NewWaitGroup, Held
<1> QED BY <1>1, FS_EmptySet DEF TokensHeld

LEMMA FreshHeldNext == WG!NewWaitGroup' => TokensHeld'
BY FreshHeld, PTL

LEMMA TokensStep == GroupTypes /\ JobsFit /\ TokensHeld /\ [Next]_vars => TokensHeld'
<1> SUFFICES ASSUME GroupTypes, TokensHeld, [WG!Next]_groupVars PROVE TokensHeld'
  BY GroupMoves
<1>1. CASE WG!AddDelta \/ WG!Wait \/ WG!Join \/ UNCHANGED groupVars
  <2>1. /\ UNCHANGED <<tokens, goroutine>>
        /\ (caller' = "add") <=> (caller = "add")
    BY <1>1 DEF WG!AddDelta, WG!Wait, WG!Join
  <2> QED BY <2>1 DEF TokensHeld, Held
<1>2. CASE WG!SendToken
  <2>1. /\ caller = "send" /\ caller' = "add" /\ goroutine' = goroutine
        /\ tokens' = tokens + 1
    BY <1>2, DownloadQueueAssumption DEF WG!SendToken
  <2>2. Held' = Held
    BY <2>1 DEF Held
  <2> QED BY <2>1, <2>2, FiniteHeld DEF TokensHeld
<1>3. ASSUME NEW s \in Slots, WG!CountUp(s) PROVE TokensHeld'
  <2>1. /\ caller = "add" /\ caller' = "free" /\ tokens' = tokens
        /\ goroutine[s] = "none" /\ goroutine' = [goroutine EXCEPT ![s] = "run"]
    BY <1>3 DEF WG!CountUp
  <2>2. Held' = Held \cup {s} /\ s \notin Held
    BY <2>1 DEF Held, GroupTypes
  <2>3. Cardinality(Held') = Cardinality(Held) + 1
    BY <2>2, FiniteHeld, FS_AddElement
  <2> QED BY <2>1, <2>3, FiniteHeld DEF TokensHeld
<1>4. ASSUME NEW s \in Slots, WG!CountDown(s) PROVE TokensHeld'
  <2>1. /\ goroutine[s] = "run" /\ goroutine' = [goroutine EXCEPT ![s] = "leave"]
        /\ UNCHANGED <<tokens, caller>>
    BY <1>4 DEF WG!CountDown
  <2>2. Held' = Held
    BY <2>1 DEF Held, GroupTypes
  <2> QED BY <2>1, <2>2 DEF TokensHeld
<1>5. ASSUME NEW s \in Slots, WG!TakeToken(s) PROVE TokensHeld'
  <2>1. /\ goroutine[s] = "leave" /\ goroutine' = [goroutine EXCEPT ![s] = "none"]
        /\ tokens' = tokens - 1 /\ caller' = caller
    BY <1>5, DownloadQueueAssumption DEF WG!TakeToken
  <2>2. Held' = Held \ {s} /\ s \in Held
    BY <2>1 DEF Held, GroupTypes
  <2>3. Cardinality(Held') = Cardinality(Held) - 1
    BY <2>2, FiniteHeld, FS_RemoveElement
  <2> QED BY <2>1, <2>3, FiniteHeld DEF TokensHeld
<1>6. CASE WG!New
  BY <1>6, FreshHeldNext DEF WG!New, WG!NewWaitGroup
<1> QED BY <1>1, <1>2, <1>3, <1>4, <1>5, <1>6 DEF WG!Next

LEMMA HoldersGoOn ==
  ASSUME Sound, TokensHeld
  PROVE  LoadIsKept
<1>g. GroupTypes /\ CountIsBusy /\ StagesRun /\ load \in Nat /\ load <= MaxLoad
  BY DownloadQueueAssumption DEF Sound, GroupInv, Types
<1>b. Busy = {s \in Slots : pc[s] # "idle"}
  BY <1>g DEF Busy, StagesRun
<1>1. Cardinality({s \in Slots : pc[s] # "idle"}) <= load
  <2>1. Busy \subseteq Held
    BY DEF Busy, Held
  <2>2. Cardinality(Busy) <= Cardinality(Held)
    BY <2>1, FiniteHeld, FS_Subset
  <2>3. Cardinality(Held) <= load
    BY <1>g, FiniteHeld DEF TokensHeld, GroupTypes
  <2> QED BY <1>b, <1>g, <2>2, <2>3, FiniteHeld, FiniteBusy
<1>2. ASSUME caller = "add"
      PROVE  \E s \in Slots : goroutine[s] = "none" /\ \A r \in 1..(s - 1) : goroutine[r] # "none"
  <2>1. Cardinality(Held) < Cardinality(Slots)
    BY <1>g, <1>2, FiniteHeld, DownloadQueueAssumption DEF TokensHeld, GroupTypes
  <2>2. Held # Slots
    BY <2>1, FiniteHeld, DownloadQueueAssumption
  <2>3. Slots \ Held \in SUBSET Slots /\ Slots \ Held # {}
    BY <2>2, FiniteHeld
  <2>4. PICK s \in Slots \ Held : \A r \in Slots \ Held : ~(r < s)
    BY <2>3, LeastSlot
  <2>5. s \in Slots /\ s \in Nat /\ goroutine[s] = "none"
    BY <2>4, DownloadQueueAssumption DEF Held, Slots
  <2>6. ASSUME NEW r \in 1..(s - 1) PROVE goroutine[r] # "none"
    <3>1. r \in Slots /\ r < s
      BY <2>5, <2>6, DownloadQueueAssumption DEF Slots
    <3> QED BY <2>4, <3>1 DEF Held
  <2> QED BY <2>5, <2>6
<1>3. caller = "send" => tokens < load \/ \E s \in Slots : goroutine[s] # "none"
  <2>1. Held = {} => Cardinality(Held) = 0
    BY FS_EmptySet
  <2>2. caller = "send" /\ ~(tokens < load) => Held # {}
    BY <1>g, <2>1, DownloadQueueAssumption DEF TokensHeld, Sound, Types
  <2> QED BY <2>2 DEF Held
<1>4. caller = "wait" => count = 0 \/ \E s \in Slots : pc[s] # "idle"
  <2>1. count # 0 => Busy # {}
    BY <1>g, FS_EmptySet DEF CountIsBusy
  <2> QED BY <1>b, <2>1
<1>5. ASSUME NEW s \in Slots
      PROVE  (goroutine[s] = "run" => count > 0) /\ (goroutine[s] = "leave" => tokens > 0)
  <2>1. goroutine[s] = "run" => Busy # {}
    BY DEF Busy
  <2>2. goroutine[s] = "leave" => Held # {}
    BY DEF Held
  <2>3. Held # {} => Cardinality(Held) # 0
    BY FiniteHeld, FS_EmptySet
  <2>4. Busy # {} => Cardinality(Busy) # 0
    BY FiniteBusy, FS_EmptySet
  <2> QED BY <1>g, <2>1, <2>2, <2>3, <2>4, FiniteBusy, FiniteHeld DEF CountIsBusy, TokensHeld
<1> QED BY <1>1, <1>2, <1>3, <1>4, <1>5 DEF LoadIsKept

\* The queue uses the wait group as it is meant to be used: what WaitGroup proves
\* of every such caller is true of the rounds of RunDownload (download.go:344-554).
THEOREM RoundsAreWaitGroups == Spec => WG!Spec
<1>1. Init => WG!Init /\ Sound
  BY SoundInit DEF Init, WG!Init
<1>2. Sound /\ [Next]_vars => Sound' /\ [WG!Next]_groupVars
  BY SoundStep, GroupMoves DEF Sound
<1>3. [WG!Next]_groupVars => [WG!Next]_(WG!groupVars)
  BY DEF WG!groupVars
<1> QED BY <1>1, <1>2, <1>3, PTL DEF Spec, WG!Spec

\* Never more than `load` downloads at a time, through every round, and the command
\* waits neither for a slot, nor for a token, nor for a count that nobody will give
\* back (download.go:344-554, options.Load).
THEOREM NoMoreThanLoad == Spec => []LoadIsKept
<1>1. Init => Sound /\ TokensHeld
  BY SoundInit, FreshHeld DEF Init
<1>2. Sound /\ TokensHeld /\ [Next]_vars => (Sound /\ TokensHeld)'
  BY SoundStep, TokensStep DEF Sound, GroupInv
<1>3. Sound /\ TokensHeld => LoadIsKept
  BY HoldersGoOn
<1> QED BY <1>1, <1>2, <1>3, PTL DEF Spec

-------------------------------------------------------------------------------
LEMMA OnceIsOneDownload ==
  ASSUME Types, Once
  PROVE  OneDownloadPerTask
<1> SUFFICES ASSUME NEW t \in Paths PROVE Pending(t) <= 1
  BY DEF OneDownloadPerTask
<1> DEFINE A == {i \in DOMAIN deque : deque[i] = t}
           B == {s \in Slots : job[s] = t /\ Active(s)}
<1>1. Pending(t) = Cardinality(A) + (IF next = t THEN 1 ELSE 0) + Cardinality(B)
  BY DEF Pending, Active
<1>2. A = {} \/ \E i : A = {i}
  BY DEF Once, NoDup
<1>3. B = {} \/ \E s : B = {s}
  BY DEF Once
<1>4. /\ A # {} => next # t /\ B = {}
      /\ next = t => B = {}
  BY DEF Once, In
<1> HIDE DEF A, B
<1>5. /\ A = {} => Cardinality(A) = 0
      /\ (\E i : A = {i}) => Cardinality(A) = 1
      /\ B = {} => Cardinality(B) = 0
      /\ (\E s : B = {s}) => Cardinality(B) = 1
  BY FS_EmptySet, FS_Singleton
<1> QED BY <1>1, <1>2, <1>3, <1>4, <1>5

\* When no path is named twice, no task is on its way twice, whatever the shared
\* err tells handleTaskErr and however often tasks are retried.  (RunDownload does
\* not look for duplicates: `download a a` names a path twice.)
THEOREM OneDownloadInATree ==
  ASSUME Tree
  PROVE  Spec => []OneDownloadPerTask
<1>1. Init => Sound /\ WayInv
  BY SoundInit, WayInit
<1>2. (Sound /\ WayInv) /\ [Next]_vars => (Sound /\ WayInv)'
  BY SoundStep, WayStep DEF Sound
<1>3. Sound /\ WayInv => OneDownloadPerTask
  BY OnceIsOneDownload DEF Sound, WayInv
<1> QED BY <1>1, <1>2, <1>3, PTL DEF Spec

-------------------------------------------------------------------------------
(* One task at a time: the truth is told.  With a single place in the channel *)
(* the err a goroutine reads is its own, so each stage knows what the file of *)
(* its task looks like, and a file with a bad or foreign content is in the    *)
(* hands of the goroutine that will remove it, or was reported.               *)

Loop(t) == In(deque, t) \/ next = t
Reported(t) == t \in failed \cup told \cup Unreadable
Whole == {"good", "bad", "banned"}

\* The one token is of the goroutine, or of the AddDelta for the next one.
Alone ==
  /\ \A s, r \in Slots : goroutine[s] # "none" /\ goroutine[r] # "none" => s = r
  /\ \A s \in Slots : goroutine[s] # "none" => tokens = 1 /\ caller # "add"
  /\ caller = "add" => tokens = 1

Ends ==
  /\ next # Nobody => caller \in {"send", "add"}
  /\ over = "done" => caller = "joined" /\ deque = <<>>

\* What a goroutine knows of its task and of err.
StageFits(s) ==
  /\ pc[s] = "write" => mark[job[s]] # "none"
  /\ pc[s] = "test" /\ err = "nil" => file[job[s]] \in Whole
  /\ pc[s] \in {"handle", "checkSwitch", "checkHandle"} => err # "nil"
  /\ pc[s] = "check" => file[job[s]] \in Whole
  /\ pc[s] = "checkTest" /\ err = "nil" => file[job[s]] = "good"
  /\ pc[s] = "sleep" => Loop(job[s])
  /\ pc[s] = "remove" => Loop(job[s]) \/ job[s] \in failed
  /\ pc[s] \in {"list", "listAgain"} => failed \subseteq seen[s]

\* On the way to being removed or reported.
Caught(s) ==
  \/ pc[s] = "test" /\ err = "nil"
  \/ pc[s] = "check"
  \/ pc[s] \in {"checkTest", "checkSwitch"} /\ err \in {"unsummed", "sum", "banned"}
  \/ pc[s] = "checkHandle" /\ err \in {"unsummed", "sum"}
  \/ pc[s] = "sleep" /\ own[s] = "sum"
  \/ pc[s] \in {"list", "remove", "listAgain"}

BadCaught ==
  \A t \in Files : file[t] \in {"bad", "banned"} =>
    options.noCheck \/ Reported(t) \/ \E s \in Slots : job[s] = t /\ Caught(s)
PartMarked == \A t \in Files : file[t] = "part" => mark[t] # "none"
FoundKept ==
  \A t \in Found : Present(t) \/ Reported(t) \/ Loop(t) \/ \E s \in Slots : job[s] = t /\ pc[s] # "idle"

Truth ==
  /\ Alone /\ Ends /\ (\A s \in Slots : StageFits(s))
  /\ BadCaught /\ PartMarked /\ FoundKept /\ lost = {}

LEMMA OthersIdle ==
  ASSUME GroupInv, Alone, NEW s \in Slots, pc[s] # "idle"
  PROVE  \A r \in Slots \ {s} : pc[r] = "idle"
BY DEF GroupInv, StagesRun, Alone

LEMMA AloneStep ==
  ASSUME Types, GroupInv, JobsFit, Alone, load = 1, [Next]_vars
  PROVE  Alone'
<1>g. tokens \in Nat /\ tokens <= load /\ goroutine \in [Slots -> WG!TaskStates]
  BY DEF GroupInv, GroupTypes
<1>1. CASE MainStep
  <2>1. CASE Take
    BY <2>1 DEF Take, WG!AddDelta, Alone
  <2>2. CASE Acquire
    <3>1. tokens = 0 /\ tokens' = 1 /\ goroutine' = goroutine
      BY <1>g, <2>2, DownloadQueueAssumption DEF Acquire, WG!SendToken
    <3> QED BY <2>2, <3>1 DEF Alone
  <2>3. ASSUME NEW s \in Slots, Go(s) PROVE Alone'
    <3>1. /\ goroutine' = [goroutine EXCEPT ![s] = "run"] /\ caller = "add" /\ caller' = "free" /\ tokens' = tokens
      BY <2>3 DEF Go, WG!CountUp
    <3> QED BY <1>g, <3>1 DEF Alone
  <2>4. CASE EndRound \/ Join
    BY <2>4 DEF EndRound, Join, WG!Wait, WG!Join, Alone
  <2>5. CASE Again
    BY <2>5 DEF Again, WG!New, Alone
  <2> QED BY <1>1, <2>1, <2>2, <2>3, <2>4, <2>5 DEF MainStep, Main
<1>2. ASSUME NEW s \in Slots, WorkerStep(s) PROVE Alone'
  <2>1. Shape(s)
    BY <1>2, WorkerShape
  <2>2. CASE (\E p \in Stages : MoveOn(s, p)) \/ Repeat(s)
    BY <2>2 DEF MoveOn, Repeat, Stay, Alone
  <2>3. CASE Finish(s) \/ Expand(s)
    BY <1>g, <2>3 DEF Finish, Expand, Return, WG!CountDown, Alone
  <2>4. CASE TokenBack(s)
    <3>1. /\ goroutine[s] = "leave" /\ goroutine' = [goroutine EXCEPT ![s] = "none"] /\ caller' = caller
      BY <2>4 DEF TokenBack, WG!TakeToken
    <3> QED BY <1>g, <3>1 DEF Alone
  <2> QED BY <2>1, <2>2, <2>3, <2>4 DEF Shape
<1>3. CASE Terminated \/ UNCHANGED vars
  BY <1>3 DEF Terminated, vars, Alone
<1> QED BY <1>1, <1>2, <1>3 DEF Next

-------------------------------------------------------------------------------
(* The steps of RunDownload *)

\* Nothing gets off the way.
LEMMA MainFrame ==
  ASSUME Truth, UNCHANGED <<slotVars, diskVars, reportVars, options, err, known>>,
         \A t : Loop(t) => Loop(t)'
  PROVE  (\A s \in Slots : StageFits(s)') /\ BadCaught' /\ PartMarked' /\ FoundKept' /\ (lost = {})'
<1>1. ASSUME NEW s \in Slots PROVE StageFits(s)'
  <2>1. StageFits(s)
    BY DEF Truth
  <2> QED BY <2>1 DEF StageFits
<1>2. BadCaught' /\ PartMarked'
  BY DEF Truth, BadCaught, PartMarked, Reported, Caught
<1>3. FoundKept'
  BY DEF Truth, FoundKept, Found, Present, Reported
<1> QED BY <1>1, <1>2, <1>3 DEF Truth

LEMMA TailHas ==
  ASSUME NEW q \in Seq(Paths), q # <<>>
  PROVE  \A t : In(q, t) => t = Head(q) \/ In(Tail(q), t)
<1>1. /\ Len(q) \in Nat \ {0} /\ DOMAIN q = 1..Len(q)
      /\ DOMAIN Tail(q) = 1..(Len(q) - 1) /\ Head(q) = q[1]
      /\ \A i \in 1..(Len(q) - 1) : Tail(q)[i] = q[i + 1]
  OBVIOUS
<1> SUFFICES ASSUME NEW i \in 1..Len(q), i # 1 PROVE In(Tail(q), q[i])
  BY <1>1 DEF In
<1>2. i - 1 \in 1..(Len(q) - 1) /\ (i - 1) + 1 = i
  BY <1>1
<1>3. Tail(q)[i - 1] = q[i]
  BY <1>1, <1>2
<1> QED BY <1>1, <1>2, <1>3 DEF In

LEMMA MainTruth ==
  ASSUME Types, GroupInv, JobsFit, Truth, MainStep, Alone'
  PROVE  Truth'
<1>o. over = "no" /\ UNCHANGED options
  BY DEF MainStep, Running
<1>1. CASE Take
  <2>1. /\ caller = "free" /\ caller' = "send" /\ next' = Head(deque) /\ deque' = Tail(deque)
        /\ UNCHANGED <<over, slotVars, diskVars, reportVars, err, known>>
        /\ deque \in Seq(Paths) /\ deque # <<>>
    BY <1>1 DEF Take, WG!AddDelta, Types
  <2>2. next = Nobody
    BY <2>1 DEF Truth, Ends
  <2>3. \A t : In(deque, t) => Loop(t)'
    BY <2>1, TailHas DEF Loop
  <2>4. Nobody \notin Paths
    BY DownloadQueueAssumption DEF Nobody, Paths
  <2>5. (\A s \in Slots : StageFits(s)') /\ BadCaught' /\ PartMarked' /\ FoundKept' /\ (lost = {})'
    <3>1. ASSUME NEW s \in Slots PROVE StageFits(s)'
      <4>1. StageFits(s) /\ (pc[s] # "idle" => job[s] \in Paths)
        BY DEF Truth, JobsFit
      <4> QED BY <2>1, <2>2, <2>3, <2>4, <4>1 DEF StageFits, Loop
    <3>2. BadCaught' /\ PartMarked'
      BY <1>o, <2>1 DEF Truth, BadCaught, PartMarked, Reported, Caught
    <3>3. FoundKept'
      <4>1. \A t \in Found : t # Nobody
        BY <2>4 DEF Found, Paths
      <4>2. \A t \in Found : Loop(t) => Loop(t)'
        BY <2>2, <2>3, <4>1 DEF Loop
      <4> QED BY <1>o, <2>1, <4>2 DEF Truth, FoundKept, Found, Present, Reported
    <3> QED BY <2>1, <3>1, <3>2, <3>3 DEF Truth
  <2>6. Ends'
    BY <1>o, <2>1 DEF Ends
  <2> QED BY <2>5, <2>6 DEF Truth
<1>2. CASE Acquire \/ EndRound \/ Join \/ Again
  <2>1. UNCHANGED <<deque, next, slotVars, diskVars, reportVars, err, known>>
    BY <1>2 DEF Acquire, EndRound, Join, Again
  <2>2. \A t : Loop(t) => Loop(t)'
    BY <2>1 DEF Loop
  <2>3. Ends'
    BY <1>2, <1>o, <2>1 DEF Truth, Ends, Acquire, EndRound, Join, Again,
      WG!SendToken, WG!Wait, WG!Join, WG!New
  <2> QED BY <1>o, <2>1, <2>2, <2>3, MainFrame DEF Truth
<1>3. ASSUME NEW s \in Slots, Go(s) PROVE Truth'
  <2>1. /\ caller = "add" /\ caller' = "free" /\ next' = Nobody /\ next \in Paths
        /\ job' = [job EXCEPT ![s] = next] /\ pc' = [pc EXCEPT ![s] = "meta"]
        /\ UNCHANGED <<deque, over, own, seen, diskVars, reportVars, err, known>>
    BY <1>3 DEF Go, WG!CountUp, JobsFit
  <2>2. \A r \in Slots : pc[r] = "idle"
    BY <2>1 DEF Truth, Alone, GroupInv, StagesRun
  <2>3. /\ pc'[s] = "meta" /\ job'[s] = next
        /\ \A r \in Slots \ {s} : pc'[r] = "idle"
    BY <2>1, <2>2 DEF Types
  <2>4. \A r \in Slots : StageFits(r)'
    BY <2>3 DEF StageFits
  <2>5. BadCaught' /\ PartMarked'
    BY <1>o, <2>1, <2>2 DEF Truth, BadCaught, PartMarked, Reported, Caught
  <2>6. FoundKept'
    <3>1. \A t \in Found : Loop(t) => Loop(t)' \/ (job'[s] = t /\ pc'[s] # "idle")
      BY <2>1, <2>3 DEF Loop
    <3> QED BY <1>o, <2>1, <2>2, <3>1 DEF Truth, FoundKept, Found, Present, Reported
  <2>7. Ends'
    BY <1>o, <2>1 DEF Ends
  <2> QED BY <2>1, <2>4, <2>5, <2>6, <2>7 DEF Truth
<1> QED BY <1>1, <1>2, <1>3 DEF MainStep, Main

-------------------------------------------------------------------------------
(* The steps of the one goroutine *)

\* What has to be shown of a step of the goroutine that has task t: the others
\* are idle, and the files of other tasks stay as they are.
Untouched(s, t) ==
  /\ UNCHANGED <<options, next, over>> /\ lost' = {} /\ Alone'
  /\ \A r \in Slots \ {s} : pc'[r] = pc[r]
  /\ \A u \in Files \ {t} : file'[u] = file[u] /\ mark'[u] = mark[u]
  /\ \A u : In(deque, u) => In(deque', u)
  /\ \A u : Reported(u) => Reported(u)'
  /\ \A u \in known' : u \in known \/ u = t \/ In(deque', u)
  /\ caller' = caller

LEMMA WorkerFrame ==
  ASSUME GroupInv, Truth, over = "no", NEW s \in Slots, NEW t, pc[s] # "idle", job[s] = t,
         Untouched(s, t),
         pc'[s] # "idle" => job'[s] = t /\ StageFits(s)',
         t \in Files /\ file'[t] \in {"bad", "banned"} =>
           options.noCheck \/ Reported(t)' \/ (job'[s] = t /\ Caught(s)'),
         t \in Files /\ file'[t] = "part" => mark'[t] # "none",
         t \in Files => Present(t)' \/ Reported(t)' \/ Loop(t)' \/ pc'[s] # "idle"
  PROVE  Truth'
<1>1. \A r \in Slots \ {s} : pc[r] = "idle" /\ pc'[r] = "idle"
  BY OthersIdle DEF Truth, Untouched
<1>2. \A r \in Slots : StageFits(r)'
  <2>1. \A r \in Slots : pc'[r] = "idle" => StageFits(r)'
    BY DEF StageFits
  <2> QED BY <1>1, <2>1
<1>3. \A r \in Slots \ {s} : ~Caught(r)
  BY <1>1 DEF Caught
<1>4. BadCaught'
  <2> SUFFICES ASSUME NEW u \in Files, file'[u] \in {"bad", "banned"}, ~options.noCheck, ~Reported(u)'
               PROVE  \E r \in Slots : job'[r] = u /\ Caught(r)'
    BY DEF BadCaught, Untouched
  <2>1. CASE u = t
    BY <2>1
  <2>2. CASE u # t
    <3>1. file[u] = file'[u] /\ ~Reported(u)
      BY <2>2 DEF Untouched
    <3>2. PICK r \in Slots : job[r] = u /\ Caught(r)
      BY <3>1 DEF Truth, BadCaught
    <3> QED BY <1>3, <2>2, <3>2
  <2> QED BY <2>1, <2>2
<1>5. PartMarked'
  BY DEF PartMarked, Truth, Untouched
<1>6. \A u : Loop(u) => Loop(u)'
  BY DEF Loop, Untouched
<1>7. FoundKept'
  <2> SUFFICES ASSUME NEW u \in Found'
               PROVE  \/ Present(u)' \/ Reported(u)' \/ Loop(u)'
                      \/ \E r \in Slots : job'[r] = u /\ pc'[r] # "idle"
    BY DEF FoundKept
  <2>1. u \in Files
    BY DEF Found
  <2>2. CASE u = t
    BY <2>1, <2>2
  <2>3. CASE u # t /\ In(deque', u)
    BY <2>3 DEF Loop
  <2>4. CASE u # t /\ ~In(deque', u)
    <3>1. u \in Found
      BY <2>1, <2>4 DEF Found, Untouched
    <3>2. Present(u) \/ Reported(u) \/ Loop(u)
      BY <1>1, <2>4, <3>1 DEF Truth, FoundKept
    <3>3. Present(u) => Present(u)'
      BY <2>1, <2>4 DEF Present, Untouched
    <3> QED BY <1>6, <3>2, <3>3 DEF Untouched
  <2> QED BY <2>2, <2>3, <2>4
<1>8. Ends'
  BY DEF Truth, Ends, Untouched
<1> QED BY <1>2, <1>4, <1>5, <1>7, <1>8 DEF Truth, Untouched

\* What Stay and Return do to the goroutine.
LEMMA StayIs ==
  ASSUME Types, NEW s \in Slots, NEW p, Stay(s, p)
  PROVE  /\ pc'[s] = p /\ job' = job /\ caller' = caller
         /\ \A r \in Slots \ {s} : pc'[r] = pc[r]
BY DEF Stay, Types

LEMMA ReturnIs ==
  ASSUME Types, NEW s \in Slots, Return(s)
  PROVE  /\ pc'[s] = "idle" /\ caller' = caller
         /\ \A r \in Slots \ {s} : pc'[r] = pc[r]
BY DEF Return, Types, WG!CountDown

\* The stages before the download: nothing has been done to the file yet.
LEMMA MetaTruth ==
  ASSUME Types, GroupInv, JobsFit, Truth, Alone', NEW s \in Slots,
         Running, Meta(s) \/ MetaTest(s) \/ Look(s), over' # "crashed"
  PROVE  Truth'
<1> HIDE DEF Stay, Return
<1>t. PICK t : t = job[s]
  OBVIOUS
<1>1. /\ pc[s] \in {"meta", "metaTest", "look"} /\ over = "no" /\ StageFits(s)
      /\ UNCHANGED <<options, next, over, deque, diskVars>> /\ lost = {}
      /\ \A u : Reported(u) => Reported(u)'
      /\ \A u \in known' : u \in known \/ u = t
  BY <1>t DEF Meta, MetaTest, Look, Running, Truth, Reported
<1>2. \/ \E p \in {"metaTest", "look", "download"} : Stay(s, p)
      \/ Return(s) /\ Reported(t)'
      \/ Return(s) /\ ~options.overwrite /\ FileExist(t) /\ t \in Files
  BY <1>t, <1>1 DEF Meta, MetaTest, Look, Reported
<1>3. Untouched(s, t)
  <2>1. caller' = caller /\ \A r \in Slots \ {s} : pc'[r] = pc[r]
    BY <1>2, StayIs, ReturnIs
  <2> QED BY <1>1, <2>1 DEF Untouched
<1>4. pc'[s] # "idle" => job'[s] = t /\ StageFits(s)'
  <2>1. pc'[s] # "idle" => job' = job /\ pc'[s] \in {"metaTest", "look", "download"}
    BY <1>2, StayIs, ReturnIs
  <2> QED BY <1>t, <2>1 DEF StageFits
<1>5. t \in Files /\ file[t] \in {"bad", "banned"} => options.noCheck \/ Reported(t)
  <2>1. \A r \in Slots : ~Caught(r)
    BY <1>1, OthersIdle DEF Caught, Truth
  <2> QED BY <2>1 DEF Truth, BadCaught
<1>6. t \in Files => Present(t)' \/ Reported(t)' \/ pc'[s] # "idle"
  <2>1. CASE \E p \in {"metaTest", "look", "download"} : Stay(s, p)
    BY <2>1, StayIs
  <2>2. CASE ~options.overwrite /\ FileExist(t) /\ t \in Files
    <3>1. file[t] \in FileStates \ {"none", "empty", "part"}
      BY <2>2 DEF FileExist, Truth, PartMarked, Types
    <3>2. Present(t) \/ Reported(t)
      BY <1>5, <2>2, <3>1 DEF FileStates, Present
    <3> QED BY <1>1, <3>2 DEF Present
  <2> QED BY <1>2, <2>1, <2>2
<1>7. t \in Files /\ file'[t] = "part" => mark'[t] # "none"
  BY <1>1 DEF Truth, PartMarked
<1> QED
  BY <1>t, <1>1, <1>3, <1>4, <1>5, <1>6, <1>7, WorkerFrame DEF Untouched

LEMMA SeqHas ==
  ASSUME NEW q \in Seq(Paths), NEW r \in Seq(Paths)
  PROVE  \A t : In(q \o r, t) <=> In(q, t) \/ In(r, t)
<1>1. PICK n, m, c : n = Len(q) /\ m = Len(r) /\ c = q \o r
  OBVIOUS
<1>2. /\ n \in Nat /\ m \in Nat /\ DOMAIN q = 1..n /\ DOMAIN r = 1..m
      /\ DOMAIN c = 1..(n + m)
      /\ \A i \in 1..n : c[i] = q[i]
      /\ \A i \in 1..m : c[n + i] = r[i]
  BY <1>1
<1>3. \A i \in 1..(n + m) : i \in 1..n \/ (i - n \in 1..m /\ i = n + (i - n))
  BY <1>2
<1>4. /\ \A i \in 1..n : i \in 1..(n + m)
      /\ \A i \in 1..m : n + i \in 1..(n + m)
  BY <1>2
<1>5. \A i \in 1..(n + m) :
        (i \in 1..n /\ c[i] = q[i]) \/ \E k \in 1..m : i = n + k /\ c[i] = r[k]
  BY <1>2, <1>3
<1>6. ASSUME NEW t PROVE In(c, t) <=> In(q, t) \/ In(r, t)
  BY <1>2, <1>4, <1>5 DEF In
<1> QED BY <1>1, <1>6

LEMMA ListTruth ==
  ASSUME Types, GroupInv, JobsFit, Truth, Alone', NEW s \in Slots, Running, List(s)
  PROVE  Truth'
<1> HIDE DEF Stay, Return
<1>t. PICK t : t = job[s]
  OBVIOUS
<1>1. /\ pc[s] = "look" /\ t \in Dirs /\ t \notin Files /\ over = "no" /\ Return(s)
      /\ UNCHANGED <<options, next, over, diskVars>> /\ lost = {}
      /\ \A u : Reported(u) => Reported(u)'
      /\ \/ UNCHANGED <<deque, known>>
         \/ /\ deque' = deque \o Children[t]
            /\ known' = known \cup {Children[t][i] : i \in DOMAIN Children[t]}
  BY <1>t, DownloadQueueAssumption DEF List, Running, Truth, Reported
<1>2. /\ \A u : In(deque, u) => In(deque', u)
      /\ \A u \in known' : u \in known \/ In(deque', u)
  <2>1. deque \in Seq(Paths) /\ Children[t] \in Seq(Paths)
    BY <1>1, ChildrenArePaths DEF Types
  <2>2. \A u : In(deque \o Children[t], u) <=> In(deque, u) \/ In(Children[t], u)
    BY <2>1, SeqHas
  <2> QED BY <1>1, <2>2 DEF In
<1>3. Untouched(s, t)
  BY <1>1, <1>2, ReturnIs DEF Untouched
<1> QED BY <1>t, <1>1, <1>3, ReturnIs, WorkerFrame

\* A file that nobody has caught was reported.
LEMMA NotCaught ==
  ASSUME GroupInv, Truth, NEW s \in Slots, pc[s] # "idle", ~Caught(s),
         NEW t \in Files, file[t] \in {"bad", "banned"}
  PROVE  options.noCheck \/ Reported(t)
<1>1. \A r \in Slots : ~Caught(r)
  BY OthersIdle DEF Caught, Truth
<1> QED BY <1>1 DEF Truth, BadCaught

LEMMA DownloadTruth ==
  ASSUME Types, GroupInv, JobsFit, Truth, Alone', NEW s \in Slots,
         Running, Refused(s) \/ Begin(s) \/ Broken(s) \/ Complete(s)
  PROVE  Truth'
<1> HIDE DEF Stay, Return
<1>t. PICK t : t = job[s]
  OBVIOUS
<1>1. /\ pc[s] \in {"download", "write"} /\ t \in Files /\ over = "no" /\ lost = {} /\ ~Caught(s)
      /\ pc[s] = "write" => mark[t] # "none"
      /\ UNCHANGED <<options, next, over, deque, known, reportVars>>
  BY <1>t DEF Refused, Begin, Broken, Complete, Running, Truth, StageFits, JobsFit, FileStages, Stages, Caught
<1>2. CASE Refused(s)
  <2>1. /\ Stay(s, "test") /\ err' # "nil" /\ UNCHANGED diskVars
    BY <1>2 DEF Refused
  <2>2. Untouched(s, t)
    BY <1>1, <2>1, StayIs DEF Untouched, Reported
  <2>3. StageFits(s)'
    BY <2>1, StayIs DEF StageFits
  <2>4. file[t] \in {"bad", "banned"} => options.noCheck \/ Reported(t)'
    BY <1>1, NotCaught DEF Reported
  <2> QED BY <1>t, <1>1, <2>1, <2>2, <2>3, <2>4, StayIs, WorkerFrame DEF Truth, PartMarked
<1>3. CASE Begin(s)
  <2>1. /\ Stay(s, "write") /\ lost' = {}
        /\ file' = [file EXCEPT ![t] = IF @ = "none" THEN "empty" ELSE "part"]
        /\ mark' = [mark EXCEPT ![t] = IF @ = "none" THEN "true" ELSE @]
    BY <1>t, <1>1, <1>3 DEF Begin
  <2>2. /\ file'[t] \in {"empty", "part"} /\ mark'[t] # "none"
        /\ \A u \in Files \ {t} : file'[u] = file[u] /\ mark'[u] = mark[u]
    BY <1>1, <2>1 DEF Types
  <2>3. Untouched(s, t)
    BY <1>1, <2>1, <2>2, StayIs DEF Untouched, Reported
  <2>4. StageFits(s)'
    BY <1>t, <2>1, <2>2, StayIs DEF StageFits
  <2> QED BY <1>t, <1>1, <2>1, <2>2, <2>3, <2>4, StayIs, WorkerFrame
<1>4. CASE Broken(s)
  <2>1. /\ Stay(s, "test") /\ err' = "net" /\ mark' = mark /\ lost' = {} /\ mark[t] # "none"
        /\ file' = [file EXCEPT ![t] = "part"] \/ file' = [file EXCEPT ![t] = "none"]
    BY <1>t, <1>1, <1>4 DEF Broken
  <2>2. /\ file'[t] \in {"none", "part"}
        /\ \A u \in Files \ {t} : file'[u] = file[u]
    BY <1>1, <2>1 DEF Types
  <2>3. Untouched(s, t)
    BY <1>1, <2>1, <2>2, StayIs DEF Untouched, Reported
  <2>4. StageFits(s)'
    BY <2>1, StayIs DEF StageFits
  <2> QED BY <1>t, <1>1, <2>1, <2>2, <2>3, <2>4, StayIs, WorkerFrame
<1>5. CASE Complete(s)
  <2>1. PICK content \in Received(t) : file' = [file EXCEPT ![t] = content]
    BY <1>t, <1>1, <1>5 DEF Complete
  <2>2. content \in Whole
    BY <2>1 DEF Received, Whole
  <2>3. /\ Stay(s, "test") /\ err' = "nil" /\ lost' = {}
        /\ mark' = [mark EXCEPT ![t] = "none"]
    BY <1>t, <1>1, <1>5 DEF Complete
  <2>4. /\ file'[t] \in Whole
        /\ \A u \in Files \ {t} : file'[u] = file[u] /\ mark'[u] = mark[u]
    BY <1>1, <2>1, <2>2, <2>3 DEF Types
  <2>5. Untouched(s, t)
    BY <1>1, <2>3, <2>4, StayIs DEF Untouched, Reported
  <2>6. job'[s] = t /\ StageFits(s)' /\ Caught(s)'
    BY <1>t, <2>3, <2>4, StayIs DEF StageFits, Caught
  <2>7. file'[t] # "part" /\ pc'[s] # "idle"
    BY <2>3, <2>4, StayIs DEF Whole
  <2> QED BY <1>t, <1>1, <2>5, <2>6, <2>7, WorkerFrame
<1> QED BY <1>2, <1>3, <1>4, <1>5

\* Steps that look at err and at the file.
LEMMA CheckTruth ==
  ASSUME Types, GroupInv, JobsFit, Truth, Alone', NEW s \in Slots,
         Running, Test(s) \/ Check(s) \/ CheckTest(s) \/ CheckSwitch(s)
  PROVE  Truth'
<1> HIDE DEF Stay, Return
<1>t. PICK t : t = job[s]
  OBVIOUS
<1>1. /\ pc[s] \in {"test", "check", "checkTest", "checkSwitch"} /\ t \in Files /\ over = "no" /\ lost = {}
      /\ StageFits(s) /\ job[s] = t
      /\ UNCHANGED <<options, next, over, deque, known, diskVars>>
      /\ \A u : Reported(u) => Reported(u)'
      /\ file'[t] = "part" => mark'[t] # "none"
  BY <1>t DEF Test, Check, CheckTest, CheckSwitch, Running, Truth, PartMarked, JobsFit, FileStages, Stages, Reported
<1>2. ~Caught(s) /\ file[t] \in {"bad", "banned"} => options.noCheck \/ Reported(t)'
  BY <1>1, NotCaught
<1>3. CASE Test(s)
  <2>1. CASE err # "nil" /\ Stay(s, "handle")
    <3>1. Untouched(s, t)
      BY <1>1, <2>1, StayIs DEF Untouched
    <3>2. job'[s] = t /\ pc'[s] = "handle" /\ err' = err /\ StageFits(s)'
      BY <1>1, <1>3, <2>1, StayIs DEF StageFits, Test
    <3>3. ~Caught(s)
      BY <1>3, <2>1 DEF Caught, Test
    <3> QED BY <1>1, <1>2, <3>1, <3>2, <3>3, WorkerFrame
  <2>2. CASE err = "nil" /\ options.noCheck /\ Return(s)
    <3>1. Untouched(s, t)
      BY <1>1, <2>2, ReturnIs DEF Untouched
    <3>2. file[t] \in Whole
      BY <1>1, <1>3, <2>2 DEF StageFits, Test
    <3>3. Present(t)'
      BY <1>1, <2>2, <3>2 DEF Present, Whole
    <3> QED BY <1>1, <2>2, <3>1, <3>3, ReturnIs, WorkerFrame
  <2>3. CASE err = "nil" /\ ~options.noCheck /\ Stay(s, "check")
    <3>1. Untouched(s, t)
      BY <1>1, <2>3, StayIs DEF Untouched
    <3>2. file[t] \in Whole
      BY <1>1, <1>3, <2>3 DEF StageFits, Test
    <3>3. job'[s] = t /\ pc'[s] = "check" /\ StageFits(s)' /\ Caught(s)'
      BY <1>1, <2>3, <3>2, StayIs DEF StageFits, Caught
    <3> QED BY <1>1, <3>1, <3>3, WorkerFrame
  <2> QED BY <1>3, <2>1, <2>2, <2>3 DEF Test
<1>4. CASE Check(s)
  <2>1. /\ Stay(s, "checkTest") /\ file[t] \in Whole
        /\ err' = Verdict(t) \/ (t \in Unreadable /\ err' = "open")
    BY <1>1, <1>4 DEF Check, StageFits
  <2>2. Untouched(s, t)
    BY <1>1, <2>1, StayIs DEF Untouched
  <2>3. job'[s] = t /\ pc'[s] = "checkTest"
    BY <1>1, <2>1, StayIs
  <2>4. err' = "nil" => file'[t] = "good"
    BY <1>1, <2>1 DEF Verdict, Whole
  <2>5. file'[t] \in {"bad", "banned"} => Reported(t)' \/ err' \in {"unsummed", "sum", "banned"}
    BY <1>1, <2>1 DEF Verdict, Reported
  <2>6. StageFits(s)' /\ (file'[t] \in {"bad", "banned"} => Reported(t)' \/ Caught(s)')
    BY <2>3, <2>4, <2>5 DEF StageFits, Caught
  <2> QED BY <1>1, <2>2, <2>3, <2>6, WorkerFrame
<1>5. CASE CheckTest(s)
  <2>1. CASE err = "nil" /\ Return(s)
    <3>1. Untouched(s, t)
      BY <1>1, <2>1, ReturnIs DEF Untouched
    <3>2. file[t] = "good"
      BY <1>1, <1>5, <2>1 DEF StageFits, CheckTest
    <3>3. Present(t)' /\ file'[t] = "good"
      BY <1>1, <3>2 DEF Present
    <3> QED BY <1>1, <2>1, <3>1, <3>3, ReturnIs, WorkerFrame
  <2>2. CASE err # "nil" /\ Stay(s, "checkSwitch")
    <3>1. Untouched(s, t)
      BY <1>1, <2>2, StayIs DEF Untouched
    <3>2. job'[s] = t /\ pc'[s] = "checkSwitch" /\ StageFits(s)' /\ (Caught(s) => Caught(s)')
      BY <1>1, <1>5, <2>2, StayIs DEF StageFits, Caught, CheckTest
    <3> QED BY <1>1, <1>2, <3>1, <3>2, WorkerFrame
  <2> QED BY <1>5, <2>1, <2>2 DEF CheckTest
<1>6. CASE CheckSwitch(s)
  <2>1. CASE t \in told' /\ Return(s)
    <3>1. Untouched(s, t)
      BY <1>1, <2>1, ReturnIs DEF Untouched
    <3>2. Reported(t)'
      BY <2>1 DEF Reported
    <3> QED BY <1>1, <2>1, <3>1, <3>2, ReturnIs, WorkerFrame
  <2>2. CASE err # "banned" /\ Stay(s, "checkHandle")
    <3>1. Untouched(s, t)
      BY <1>1, <2>2, StayIs DEF Untouched
    <3>2. job'[s] = t /\ pc'[s] = "checkHandle" /\ StageFits(s)' /\ (Caught(s) => Caught(s)')
      BY <1>1, <1>6, <2>2, StayIs DEF StageFits, Caught, CheckSwitch
    <3> QED BY <1>1, <1>2, <3>1, <3>2, WorkerFrame
  <2> QED BY <1>1, <1>6, <2>1, <2>2 DEF CheckSwitch
<1> QED BY <1>3, <1>4, <1>5, <1>6

\* handleTaskErr: the task is told, goes back to the deque, or is listed.
LEMMA HandleTruth ==
  ASSUME Types, GroupInv, JobsFit, Truth, Alone', NEW s \in Slots,
         Running, Ignore(s) \/ GiveUp(s) \/ Retry(s) \/ Exhaust(s)
  PROVE  Truth'
<1> HIDE DEF Stay, Return
<1>t. PICK t : t = job[s]
  OBVIOUS
<1>1. /\ pc[s] \in {"handle", "checkHandle"} /\ t \in Files /\ over = "no" /\ lost = {}
      /\ job[s] = t /\ err # "nil" /\ deque \in Seq(Paths) /\ t \in Paths
      /\ UNCHANGED <<options, next, over, known, diskVars>>
      /\ \A u : Reported(u) => Reported(u)'
      /\ file'[t] = "part" => mark'[t] # "none"
  BY <1>t DEF Ignore, GiveUp, Retry, Exhaust, Handling, Running, Truth, StageFits, PartMarked,
    JobsFit, FileStages, Stages, Reported, Types, Paths
<1>2. ~Caught(s) /\ file[t] \in {"bad", "banned"} => options.noCheck \/ Reported(t)'
  BY <1>1, NotCaught
<1>3. CASE GiveUp(s)
  <2>1. Return(s) /\ deque' = deque /\ Reported(t)'
    BY <1>t, <1>3 DEF GiveUp, Reported
  <2>2. Untouched(s, t)
    BY <1>1, <2>1, ReturnIs DEF Untouched
  <2> QED BY <1>1, <2>1, <2>2, ReturnIs, WorkerFrame
<1>4. CASE Retry(s)
  <2>1. /\ Stay(s, "sleep") /\ deque' = Append(deque, t) /\ ~NotRetried(s)
        /\ own' = [own EXCEPT ![s] = err]
    BY <1>t, <1>4 DEF Retry
  <2>2. In(deque', t) /\ \A u : In(deque, u) => In(deque', u)
    <3>1. /\ Len(deque) \in Nat /\ DOMAIN deque = 1..Len(deque)
          /\ DOMAIN deque' = 1..(Len(deque) + 1) /\ deque'[Len(deque) + 1] = t
          /\ \A i \in 1..Len(deque) : deque'[i] = deque[i]
      BY <1>1, <2>1
    <3>2. 1..Len(deque) \subseteq 1..(Len(deque) + 1) /\ Len(deque) + 1 \in 1..(Len(deque) + 1)
      BY <3>1
    <3> QED BY <3>1, <3>2 DEF In
  <2>3. Untouched(s, t)
    BY <1>1, <2>1, <2>2, StayIs DEF Untouched
  <2>4. /\ job'[s] = t /\ pc'[s] = "sleep" /\ own'[s] = err
    BY <1>1, <2>1, StayIs DEF Types
  <2>5. StageFits(s)'
    BY <2>2, <2>4 DEF StageFits, Loop
  <2>6. Caught(s) => Caught(s)'
    BY <1>1, <2>1, <2>4 DEF Caught, NotRetried
  <2> QED BY <1>1, <1>2, <2>3, <2>4, <2>5, <2>6, WorkerFrame
<1>5. CASE Exhaust(s)
  <2>1. Stay(s, "list") /\ deque' = deque /\ seen' = [seen EXCEPT ![s] = failed] /\ failed' = failed
    BY <1>5 DEF Exhaust
  <2>2. Untouched(s, t)
    BY <1>1, <2>1, StayIs DEF Untouched
  <2>3. job'[s] = t /\ pc'[s] = "list" /\ seen'[s] = failed /\ StageFits(s)' /\ Caught(s)'
    BY <1>1, <2>1, StayIs DEF Types, StageFits, Caught
  <2> QED BY <1>1, <2>2, <2>3, WorkerFrame
<1> QED BY <1>1, <1>3, <1>4, <1>5 DEF Ignore

\* The end of handleTaskErr: the list, and the removal.
LEMMA AfterTruth ==
  ASSUME Types, GroupInv, JobsFit, Truth, Alone', NEW s \in Slots,
         Running, Awake(s) \/ ListFailed(s) \/ Remove(s) \/ RemoveFails(s) \/ ListUnremoved(s)
  PROVE  Truth'
<1> HIDE DEF Stay, Return
<1>t. PICK t : t = job[s]
  OBVIOUS
<1>1. /\ pc[s] \in {"sleep", "list", "remove", "listAgain"} /\ t \in Files /\ over = "no" /\ lost = {}
      /\ job[s] = t /\ StageFits(s)
      /\ UNCHANGED <<options, next, over, deque, known>>
      /\ file[t] = "part" => mark[t] # "none"
  BY <1>t DEF Awake, ListFailed, Remove, RemoveFails, ListUnremoved, Running, Truth, PartMarked,
    JobsFit, FileStages, Stages
<1>2. ASSUME AfterHandling(s)
      PROVE  \/ Stay(s, "remove") /\ own[s] = "sum"
             \/ Return(s) /\ own[s] # "sum"
  BY <1>2 DEF AfterHandling
<1>3. CASE Awake(s)
  <2>1. UNCHANGED <<diskVars, reportVars>> /\ pc[s] = "sleep" /\ Loop(t) /\ Loop(t)'
    BY <1>1, <1>3 DEF Awake, StageFits, Loop
  <2>2. CASE Stay(s, "remove")
    <3>1. Untouched(s, t)
      BY <1>1, <2>1, <2>2, StayIs DEF Untouched, Reported
    <3>2. job'[s] = t /\ pc'[s] = "remove" /\ StageFits(s)' /\ Caught(s)'
      BY <1>1, <2>1, <2>2, StayIs DEF StageFits, Caught
    <3> QED BY <1>1, <2>1, <3>1, <3>2, WorkerFrame
  <2>3. CASE Return(s) /\ own[s] # "sum"
    <3>1. Untouched(s, t)
      BY <1>1, <2>1, <2>3, ReturnIs DEF Untouched, Reported
    <3>2. ~Caught(s)
      BY <2>1, <2>3 DEF Caught
    <3>3. file'[t] \in {"bad", "banned"} => options.noCheck \/ Reported(t)'
      BY <1>1, <2>1, <3>2, NotCaught DEF Reported
    <3> QED BY <1>1, <2>1, <2>3, <3>1, <3>3, ReturnIs, WorkerFrame
  <2> QED BY <1>2, <1>3, <2>2, <2>3 DEF Awake
<1>4. CASE ListFailed(s)
  <2>1. /\ UNCHANGED <<diskVars, told>> /\ failed' = seen[s] \cup {t} /\ failed \subseteq seen[s]
    BY <1>t, <1>1, <1>4 DEF ListFailed, StageFits
  <2>2. t \in failed' /\ Reported(t)' /\ \A u : Reported(u) => Reported(u)'
    BY <2>1 DEF Reported
  <2>3. CASE Stay(s, "remove")
    <3>1. Untouched(s, t)
      BY <1>1, <2>1, <2>2, <2>3, StayIs DEF Untouched
    <3>2. job'[s] = t /\ pc'[s] = "remove" /\ StageFits(s)'
      BY <1>1, <2>2, <2>3, StayIs DEF StageFits
    <3> QED BY <1>1, <2>1, <2>2, <3>1, <3>2, WorkerFrame
  <2>4. CASE Return(s)
    <3>1. Untouched(s, t)
      BY <1>1, <2>1, <2>2, <2>4, ReturnIs DEF Untouched
    <3> QED BY <1>1, <2>1, <2>2, <2>4, <3>1, ReturnIs, WorkerFrame
  <2> QED BY <1>2, <1>4, <2>3, <2>4 DEF ListFailed
<1>5. CASE Remove(s)
  <2>1. /\ Return(s) /\ pc[s] = "remove" /\ UNCHANGED reportVars
        /\ file' = [file EXCEPT ![t] = "none"]
        /\ mark' = [mark EXCEPT ![t] = IF @ = "none" THEN @ ELSE "stale"]
        /\ lost' = lost \cup {r \in Slots : pc[r] = "write" /\ job[r] = job[s]}
    BY <1>t, <1>5 DEF Remove
  <2>2. lost' = {}
    BY <1>1, <2>1, OthersIdle DEF Truth
  <2>3. /\ file'[t] = "none"
        /\ \A u \in Files \ {t} : file'[u] = file[u] /\ mark'[u] = mark[u]
    BY <1>1, <2>1 DEF Types
  <2>4. Loop(t)' \/ Reported(t)'
    BY <1>1, <2>1 DEF StageFits, Loop, Reported
  <2>5. Untouched(s, t)
    BY <1>1, <2>1, <2>2, <2>3, ReturnIs DEF Untouched, Reported
  <2> QED BY <1>1, <2>1, <2>3, <2>4, <2>5, ReturnIs, WorkerFrame
<1>6. CASE RemoveFails(s)
  <2>1. Stay(s, "listAgain") /\ seen' = [seen EXCEPT ![s] = failed] /\ UNCHANGED <<diskVars, reportVars>>
    BY <1>6 DEF RemoveFails
  <2>2. Untouched(s, t)
    BY <1>1, <2>1, StayIs DEF Untouched, Reported
  <2>3. job'[s] = t /\ pc'[s] = "listAgain" /\ seen'[s] = failed /\ StageFits(s)' /\ Caught(s)'
    BY <1>1, <2>1, StayIs DEF Types, StageFits, Caught
  <2> QED BY <1>1, <2>1, <2>2, <2>3, WorkerFrame
<1>7. CASE ListUnremoved(s)
  <2>1. /\ Return(s) /\ UNCHANGED <<diskVars, told>> /\ failed' = seen[s] \cup {t} /\ failed \subseteq seen[s]
    BY <1>t, <1>1, <1>7 DEF ListUnremoved, StageFits
  <2>2. Reported(t)' /\ \A u : Reported(u) => Reported(u)'
    BY <2>1 DEF Reported
  <2>3. Untouched(s, t)
    BY <1>1, <2>1, <2>2, ReturnIs DEF Untouched
  <2> QED BY <1>1, <2>1, <2>2, <2>3, ReturnIs, WorkerFrame
<1> QED BY <1>3, <1>4, <1>5, <1>6, <1>7

LEMMA LeaveTruth ==
  ASSUME Truth, Alone', NEW s \in Slots, Running, Leave(s)
  PROVE  Truth'
<1>1. UNCHANGED <<options, deque, next, over, slotVars, diskVars, reportVars, err, known, caller>>
  BY DEF Leave, Running, WG!TakeToken
<1>2. \A t : Loop(t) => Loop(t)'
  BY <1>1 DEF Loop
<1>3. Ends'
  BY <1>1 DEF Truth, Ends
<1> QED BY <1>1, <1>2, <1>3, MainFrame DEF Truth

LEMMA TruthStep ==
  ASSUME Types, GroupInv, JobsFit, Truth, load = 1, over' # "crashed", [Next]_vars
  PROVE  Truth'
<1>1. Alone'
  BY AloneStep DEF Truth
<1>2. CASE MainStep
  BY <1>1, <1>2, MainTruth
<1>3. ASSUME NEW s \in Slots, WorkerStep(s) PROVE Truth'
  BY <1>1, <1>3, MetaTruth, ListTruth, DownloadTruth, CheckTruth, HandleTruth, AfterTruth, LeaveTruth
  DEF WorkerStep, Worker, HandleTaskErr
<1>4. CASE Terminated \/ UNCHANGED vars
  <2>1. UNCHANGED vars
    BY <1>4 DEF Terminated
  <2>2. UNCHANGED <<options, deque, next, over, slotVars, diskVars, reportVars, err, known, caller>>
    BY <2>1 DEF vars
  <2>3. \A t : Loop(t) => Loop(t)'
    BY <2>2 DEF Loop
  <2>4. Ends'
    BY <2>2 DEF Truth, Ends
  <2> QED BY <1>1, <2>2, <2>3, <2>4, MainFrame DEF Truth
<1> QED BY <1>2, <1>3, <1>4 DEF Next

TruthInv == load = 1 /\ over # "crashed" => Truth

LEMMA TruthInit == Init => TruthInv
<1> SUFFICES ASSUME Init PROVE Truth
  BY DEF TruthInv
<1>1. /\ \A s \in Slots : goroutine[s] = "none" /\ pc[s] = "idle"
      /\ caller = "free" /\ next = Nobody /\ over = "no" /\ deque = Roots
      /\ known = {} /\ lost = {} /\ \A t \in Files : file[t] \in {"old", "none"}
  BY DEF Init, WG!NewWaitGroup
<1>2. Alone /\ Ends /\ (\A s \in Slots : StageFits(s)) /\ BadCaught /\ PartMarked
  BY <1>1 DEF Alone, Ends, StageFits, BadCaught, PartMarked
<1>3. FoundKept
  BY <1>1 DEF FoundKept, Found, Loop, In
<1> QED BY <1>1, <1>2, <1>3 DEF Truth

LEMMA TruthInvStep == Sound /\ TruthInv /\ [Next]_vars => TruthInv'
<1> SUFFICES ASSUME Sound, TruthInv, [Next]_vars, load' = 1, over' # "crashed" PROVE Truth'
  BY DEF TruthInv
<1>1. load = 1 /\ over # "crashed"
  <2>1. load' = load
    BY DEF Next, MainStep, WorkerStep, Running, Terminated, vars
  <2>2. over = "crashed" => over' = "crashed"
    BY DEF Next, MainStep, WorkerStep, Running, Terminated, vars
  <2> QED BY <2>1, <2>2
<1> QED BY <1>1, TruthStep DEF Sound, TruthInv

LEMMA TruthAtTheEnd == Sound /\ TruthInv => TruthTold
<1> SUFFICES ASSUME Sound, TruthInv, over = "done", load = 1, NEW t \in Found
             PROVE  Present(t) \/ t \in failed \cup told \cup Unreadable
  BY DEF TruthTold
<1>1. Truth /\ caller = "joined" /\ deque = <<>> /\ next = Nobody
  BY DEF TruthInv, Truth, Ends
<1>2. \A s \in Slots : pc[s] = "idle"
  BY <1>1 DEF Sound, GroupInv, JoinedIsIdle
<1>3. t # Nobody
  BY DownloadQueueAssumption DEF Found, Nobody
<1>4. ~Loop(t)
  BY <1>1, <1>3 DEF Loop, In
<1> QED BY <1>1, <1>2, <1>4 DEF Truth, FoundKept, Reported

\* One task at a time, which is the default: when RunDownload returns, every file
\* it came across is there, or the user was told that it is not, whatever the
\* server, the checks and the removals do, and however often a path is named.
THEOREM TruthIsTold == Spec => []TruthTold
<1>1. Init => Sound /\ TruthInv
  BY SoundInit, TruthInit
<1>2. (Sound /\ TruthInv) /\ [Next]_vars => (Sound /\ TruthInv)'
  BY SoundStep, TruthInvStep
<1>3. Sound /\ TruthInv => TruthTold
  BY TruthAtTheEnd
<1> QED BY <1>1, <1>2, <1>3, PTL DEF Spec

-------------------------------------------------------------------------------
(* What is removed is downloaded again *)

RemovedStep ==
  \A t \in Files :
    file[t] \notin {"none", "empty"} /\ file'[t] = "none" =>
      \/ Pending(t)' > 0 \/ t \in (failed \cup told)'
      \/ \E s \in Slots : job'[s] = t /\ pc'[s] = "list"

LoopIsPending == \A t : Loop(t) => Pending(t) > 0

LEMMA LoopPending == Types => LoopIsPending
<1> SUFFICES ASSUME Types, NEW t, Loop(t) PROVE Pending(t) > 0
  BY DEF LoopIsPending
<1> DEFINE A == {i \in DOMAIN deque : deque[i] = t}
           B == {s \in Slots : job[s] = t /\ pc[s] \notin {"idle", "sleep", "list", "remove", "listAgain"}}
<1>1. Pending(t) = Cardinality(A) + (IF next = t THEN 1 ELSE 0) + Cardinality(B)
  BY DEF Pending
<1>2. IsFiniteSet(1..Len(deque)) /\ A \in SUBSET (1..Len(deque)) /\ IsFiniteSet(Slots) /\ B \in SUBSET Slots
  <2>1. Len(deque) \in Nat /\ DOMAIN deque = 1..Len(deque) /\ MaxLoad \in Nat
    BY DownloadQueueAssumption DEF Types
  <2>2. IsFiniteSet(1..Len(deque)) /\ IsFiniteSet(Slots)
    BY <2>1, FS_Interval DEF Slots
  <2> QED BY <2>1, <2>2
<1>3. A # {} \/ next = t
  BY DEF Loop, In
<1> HIDE DEF A, B
<1>4. IsFiniteSet(A) /\ Cardinality(A) \in Nat /\ Cardinality(B) \in Nat
  BY <1>2, FS_Subset, FS_CardinalityType
<1>5. A # {} => Cardinality(A) # 0
  BY <1>4, FS_EmptySet
<1> QED BY <1>1, <1>3, <1>4, <1>5

LEMMA LoopPendingNext == Types' => LoopIsPending'
BY LoopPending, PTL

\* Only Remove takes a file with something in it away.
LEMMA OnlyRemove ==
  ASSUME Types, JobsFit, [Next]_vars, NEW t \in Files, file[t] \notin {"none", "empty"}, file'[t] = "none"
  PROVE  \E s \in Slots : Running /\ Remove(s) /\ job[s] = t
<1>1. file' # file
  OBVIOUS
<1>2. ~MainStep
  BY <1>1 DEF MainStep, Main, Take, Acquire, Go, EndRound, Join, Again
<1>3. ~Terminated /\ ~UNCHANGED vars
  BY <1>1 DEF Terminated, vars
<1>4. PICK s \in Slots : WorkerStep(s)
  BY <1>2, <1>3 DEF Next
<1>5. Begin(s) \/ Broken(s) \/ Complete(s) \/ Remove(s)
  BY <1>1, <1>4 DEF WorkerStep, Worker, HandleTaskErr, Meta, MetaTest, List, Look, Refused, Test, Check,
    CheckTest, CheckSwitch, Ignore, GiveUp, Retry, Exhaust, Awake, ListFailed, RemoveFails, ListUnremoved, Leave
<1>6. job[s] \in Files
  BY <1>5 DEF Begin, Broken, Complete, Remove, JobsFit, FileStages, Stages
<1>7. ~Begin(s)
  BY <1>6 DEF Begin, Types
<1>8. ~Broken(s)
  BY <1>6 DEF Broken, Types
<1>9. ~Complete(s)
  <2> SUFFICES ASSUME Complete(s) PROVE FALSE
    OBVIOUS
  <2>1. PICK content \in Received(job[s]) : file' = [file EXCEPT ![job[s]] = content]
    BY <1>1 DEF Complete
  <2>2. content # "none"
    BY <2>1 DEF Received
  <2> QED BY <1>6, <2>1, <2>2 DEF Types
<1>10. Remove(s) /\ job[s] = t
  BY <1>5, <1>6, <1>7, <1>8, <1>9 DEF Remove, Types
<1> QED BY <1>4, <1>10 DEF WorkerStep

LEMMA RemovedOneAtATime ==
  ASSUME Sound, TruthInv, load = 1, [Next]_vars
  PROVE  RemovedStep
<1> SUFFICES ASSUME NEW t \in Files, file[t] \notin {"none", "empty"}, file'[t] = "none"
             PROVE  Pending(t)' > 0 \/ t \in (failed \cup told)'
  BY DEF RemovedStep
<1>1. PICK s \in Slots : Running /\ Remove(s) /\ job[s] = t
  BY OnlyRemove DEF Sound
<1>2. /\ pc[s] = "remove" /\ over = "no" /\ UNCHANGED <<deque, next, reportVars>>
  BY <1>1 DEF Remove, Running
<1>3. Loop(t) \/ t \in failed
  BY <1>1, <1>2 DEF TruthInv, Truth, StageFits
<1>4. Types'
  BY TypesStep DEF Sound
<1>5. Loop(t)' => Pending(t)' > 0
  BY <1>4, LoopPendingNext DEF LoopIsPending
<1> QED BY <1>2, <1>3, <1>5 DEF Loop

\* One task at a time, the comment at download.go:373 is right: when a file that
\* failed its check is removed, its task is on its way again or is listed.  (The
\* run DownloadQueueLoss shows how two goroutines break this: the err of one is
\* taken for that of the other, and a good file goes.)
THEOREM RemovedIsDownloadedAgain == Spec /\ load = 1 => RemovedToDownloadAgain
<1> DEFINE I == Sound /\ TruthInv /\ load = 1
<1>1. Init /\ load = 1 => I
  BY SoundInit, TruthInit
<1>2. I /\ [Next]_vars => I'
  <2>1. load' = load \/ ~[Next]_vars
    BY DEF Next, MainStep, WorkerStep, Running, Terminated, vars
  <2> QED BY <2>1, SoundStep, TruthInvStep
<1>3. I /\ [Next]_vars => [RemovedStep]_vars
  BY RemovedOneAtATime
<1> QED BY <1>1, <1>2, <1>3, PTL DEF Spec, RemovedToDownloadAgain, RemovedStep

===============================================================================
