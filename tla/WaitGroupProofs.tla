---------------------------- MODULE WaitGroupProofs ----------------------------
(***************************************************************************)
(* For any number of goroutines and any capacity: the wait group leaks no   *)
(* token and implements TaskGroup.  The invariant counts: the counter is    *)
(* the number of running goroutines, the tokens that of all that hold one.  *)
(***************************************************************************)
EXTENDS WaitGroup, FiniteSetTheorems, TLAPS

CountIsRunning == count = Cardinality(Running)

IInv == TypeOK /\ CountIsRunning /\ TokensAreHeld /\ (caller = "joined" => count = 0)

-------------------------------------------------------------------------------
\* The sets of goroutines are finite, so their sizes are numbers.
LEMMA FiniteParts ==
  /\ IsFiniteSet(Running) /\ Cardinality(Running) \in Nat
  /\ IsFiniteSet(Holders) /\ Cardinality(Holders) \in Nat
<1>1. Running \subseteq Tasks /\ Holders \subseteq Tasks
  BY DEF Running, Holders
<1> QED BY <1>1, FS_Subset, FS_CardinalityType, WaitGroupAssumption

\* A counter of zero means that nobody runs.
LEMMA ZeroMeansIdle == CountIsRunning /\ count = 0 => Running = {}
BY FiniteParts, FS_EmptySet DEF CountIsRunning

LEMMA InitEstablishes == Init => IInv
<1> SUFFICES ASSUME Init PROVE IInv
  OBVIOUS
<1>1. Running = {} /\ Holders = {}
  BY DEF Init, NewWaitGroup, Running, Holders
<1>2. TypeOK
  BY DEF Init, NewWaitGroup, TypeOK, Callers, TaskStates
<1> QED BY <1>1, <1>2, FS_EmptySet DEF Init, NewWaitGroup, IInv, CountIsRunning, TokensAreHeld

\* A goroutine that starts joins both sets.
LEMMA StartCounts ==
  ASSUME TypeOK, NEW t \in Tasks, CountUp(t)
  PROVE  /\ Cardinality(Running') = Cardinality(Running) + 1
         /\ Cardinality(Holders') = Cardinality(Holders) + 1
<1>1. Running' = Running \cup {t} /\ t \notin Running
  BY DEF CountUp, Running, TypeOK
<1>2. Holders' = Holders \cup {t} /\ t \notin Holders
  BY DEF CountUp, Holders, TypeOK
<1> QED BY <1>1, <1>2, FiniteParts, FS_AddElement

\* The first half of Done takes it out of the running ones only ...
LEMMA DoneCounts ==
  ASSUME TypeOK, NEW t \in Tasks, CountDown(t)
  PROVE  /\ Cardinality(Running') = Cardinality(Running) - 1
         /\ Holders' = Holders
<1>1. Running' = Running \ {t} /\ t \in Running
  BY DEF CountDown, Running, TypeOK
<1>2. Holders' = Holders
  BY DEF CountDown, Holders, TypeOK
<1> QED BY <1>1, <1>2, FiniteParts, FS_RemoveElement

\* ... the second half out of those that hold a token.
LEMMA TokenCounts ==
  ASSUME TypeOK, NEW t \in Tasks, TakeToken(t)
  PROVE  /\ Running' = Running
         /\ Cardinality(Holders') = Cardinality(Holders) - 1
<1>1. Holders' = Holders \ {t} /\ t \in Holders
  BY DEF TakeToken, Holders, TypeOK
<1>2. Running' = Running
  BY DEF TakeToken, Running, TypeOK
<1> QED BY <1>1, <1>2, FiniteParts, FS_RemoveElement

LEMMA TypeStep == TypeOK /\ CountIsRunning /\ [Next]_groupVars => TypeOK'
<1> SUFFICES ASSUME TypeOK, CountIsRunning, [Next]_groupVars PROVE TypeOK'
  OBVIOUS
<1>1. CASE AddDelta \/ SendToken \/ Wait \/ Join
  BY <1>1, WaitGroupAssumption
  DEF TypeOK, Callers, AddDelta, SendToken, Wait, Join
<1>2. CASE New
  BY <1>2 DEF TypeOK, Callers, TaskStates, New
<1>3. ASSUME NEW t \in Tasks, CountUp(t) PROVE TypeOK'
  BY <1>3 DEF TypeOK, Callers, TaskStates, CountUp
<1>4. ASSUME NEW t \in Tasks, CountDown(t) PROVE TypeOK'
  <2>1. Running # {}
    BY <1>4 DEF CountDown, Running
  <2>2. count - 1 \in Nat
    BY <2>1, ZeroMeansIdle DEF TypeOK
  <2> QED BY <1>4, <2>2 DEF TypeOK, TaskStates, CountDown
<1>5. ASSUME NEW t \in Tasks, TakeToken(t) PROVE TypeOK'
  BY <1>5 DEF TypeOK, TaskStates, TakeToken
<1>6. CASE UNCHANGED groupVars
  BY <1>6 DEF TypeOK, groupVars
<1> QED BY <1>1, <1>2, <1>3, <1>4, <1>5, <1>6 DEF Next

LEMMA InvStep == IInv /\ [Next]_groupVars => IInv'
<1> SUFFICES ASSUME IInv, [Next]_groupVars PROVE IInv'
  OBVIOUS
<1>t. TypeOK /\ TypeOK'
  BY TypeStep DEF IInv
<1>f. Cardinality(Running) \in Nat /\ Cardinality(Holders) \in Nat
  BY FiniteParts
<1>1. CASE (AddDelta \/ SendToken \/ Wait \/ Join) \/ UNCHANGED groupVars
  <2>1. Running' = Running /\ Holders' = Holders
    BY <1>1 DEF AddDelta, SendToken, Wait, Join, groupVars, Running, Holders
  <2> QED
    BY <1>1, <1>t, <1>f, <2>1
    DEF IInv, CountIsRunning, TokensAreHeld, TypeOK, AddDelta, SendToken, Wait, Join, groupVars
<1>2. CASE New
  <2>1. Running' = {} /\ Holders' = {}
    BY <1>2 DEF New, Running, Holders
  <2> QED BY <1>2, <1>t, <2>1, FS_EmptySet DEF IInv, CountIsRunning, TokensAreHeld, New
<1>3. ASSUME NEW t \in Tasks, CountUp(t) PROVE IInv'
  <2>1. /\ Cardinality(Running') = Cardinality(Running) + 1
        /\ Cardinality(Holders') = Cardinality(Holders) + 1
    BY <1>3, <1>t, StartCounts
  <2> QED
    BY <1>3, <1>t, <1>f, <2>1 DEF IInv, CountIsRunning, TokensAreHeld, TypeOK, CountUp
<1>4. ASSUME NEW t \in Tasks, CountDown(t) PROVE IInv'
  <2>1. Running # {}
    BY <1>4 DEF CountDown, Running
  <2>2. count # 0
    BY <2>1, ZeroMeansIdle DEF IInv
  <2>3. Cardinality(Running') = Cardinality(Running) - 1 /\ Holders' = Holders
    BY <1>4, <1>t, DoneCounts
  <2> QED
    BY <1>4, <1>t, <1>f, <2>2, <2>3
    DEF IInv, CountIsRunning, TokensAreHeld, TypeOK, CountDown
<1>5. ASSUME NEW t \in Tasks, TakeToken(t) PROVE IInv'
  <2>1. Running' = Running /\ Cardinality(Holders') = Cardinality(Holders) - 1
    BY <1>5, <1>t, TokenCounts
  <2> QED
    BY <1>5, <1>t, <1>f, <2>1
    DEF IInv, CountIsRunning, TokensAreHeld, TypeOK, TakeToken
<1> QED BY <1>1, <1>2, <1>3, <1>4, <1>5 DEF Next

LEMMA Invariance == Spec => []IInv
BY InitEstablishes, InvStep, PTL DEF Spec

-------------------------------------------------------------------------------
\* The counter never goes below zero, which would panic (the Add and the Done of
\* sync.WaitGroup, wait_group.go:34 and 39), nor does the channel hold less than
\* nothing, for any number of goroutines.
THEOREM GroupTypeCorrect == Spec => []TypeOK
BY Invariance, PTL DEF IInv

\* AddDelta, Done, Wait and New leave in the channel exactly the tokens that
\* somebody will take out (wait_group.go:29-52).
THEOREM NoTokenLeaks == Spec => []TokensAreHeld
BY Invariance, PTL DEF IInv

-------------------------------------------------------------------------------
\* The caller between the halves of AddDelta has a token of its own, and the
\* channel never holds more than Parallel.
WithinCapacity == Parallel > 0 => tokens <= Parallel

LEMMA CapacityInit == Init => WithinCapacity
BY WaitGroupAssumption DEF Init, NewWaitGroup, WithinCapacity

LEMMA CapacityStep == TypeOK /\ WithinCapacity /\ [Next]_groupVars => WithinCapacity'
<1> SUFFICES ASSUME TypeOK, WithinCapacity, [Next]_groupVars PROVE WithinCapacity'
  OBVIOUS
<1>1. CASE SendToken
  BY <1>1, WaitGroupAssumption DEF TypeOK, WithinCapacity, SendToken, NotFull
<1>2. CASE AddDelta \/ Wait \/ Join \/ UNCHANGED groupVars
  BY <1>2 DEF WithinCapacity, AddDelta, Wait, Join, groupVars
<1>3. CASE New
  BY <1>3, WaitGroupAssumption DEF WithinCapacity, New
<1>4. ASSUME NEW t \in Tasks, CountUp(t) \/ CountDown(t) \/ TakeToken(t)
      PROVE WithinCapacity'
  BY <1>4, WaitGroupAssumption
  DEF TypeOK, WithinCapacity, CountUp, CountDown, TakeToken
<1> QED BY <1>1, <1>2, <1>3, <1>4 DEF Next

LEMMA Capacity == Spec => [](IInv /\ WithinCapacity)
<1>1. IInv => TypeOK
  BY DEF IInv
<1> QED BY <1>1, Invariance, CapacityInit, CapacityStep, PTL DEF Spec

\* Every step of the wait group is a step of the TaskGroup, or changes nothing
\* of it.
LEMMA StepRefines ==
  IInv /\ WithinCapacity /\ [Next]_groupVars
    => [Group!Next]_<<Running, caller = "joined">>
<1> SUFFICES ASSUME IInv, WithinCapacity, [Next]_groupVars
             PROVE  [Group!Next]_<<Running, caller = "joined">>
  OBVIOUS
<1>t. TypeOK
  BY DEF IInv
<1>f. Cardinality(Running) \in Nat /\ Cardinality(Holders) \in Nat
  BY FiniteParts
<1>1. CASE (AddDelta \/ SendToken \/ Wait) \/ UNCHANGED groupVars
  BY <1>1 DEF AddDelta, SendToken, Wait, groupVars, Running
<1>2. CASE Join
  <2>1. Running' = Running /\ Running = {}
    BY <1>2, ZeroMeansIdle DEF Join, Running, IInv
  <2> QED BY <1>2, <2>1 DEF Join, Group!Next, Group!Join
<1>3. CASE New
  <2>1. Running = {}
    BY <1>3, ZeroMeansIdle DEF New, IInv
  <2>2. Running' = {}
    BY <1>3 DEF New, Running
  <2> QED BY <1>3, <2>1, <2>2 DEF New, Group!Next, Group!Renew
<1>4. ASSUME NEW t \in Tasks, CountUp(t)
      PROVE [Group!Next]_<<Running, caller = "joined">>
  <2>1. Running' = Running \cup {t} /\ t \notin Running
    BY <1>4, <1>t DEF CountUp, Running, TypeOK
  <2>2. Parallel = 0 \/ Cardinality(Running) < Parallel
    <3>1. Running \subseteq Holders
      BY DEF Running, Holders
    <3>2. Cardinality(Running) <= Cardinality(Holders)
      BY <3>1, FiniteParts, FS_Subset
    <3> QED
      BY <3>2, <1>4, <1>t, <1>f, WaitGroupAssumption
      DEF IInv, TokensAreHeld, WithinCapacity, TypeOK, CountUp
  <2>3. caller # "joined" /\ caller' # "joined"
    BY <1>4 DEF CountUp
  <2>4. Group!Cardinality(Running) = Cardinality(Running)
    BY DEF Group!Cardinality, Group!IsFiniteSet, Cardinality, IsFiniteSet
  <2> QED BY <2>1, <2>2, <2>3, <2>4 DEF Group!Next, Group!Start, Group!Room
<1>5. ASSUME NEW t \in Tasks, CountDown(t)
      PROVE [Group!Next]_<<Running, caller = "joined">>
  <2>1. Running' = Running \ {t} /\ t \in Running /\ caller' = caller
    BY <1>5, <1>t DEF CountDown, Running, TypeOK
  <2> QED BY <2>1 DEF Group!Next, Group!Finish
<1>6. ASSUME NEW t \in Tasks, TakeToken(t)
      PROVE [Group!Next]_<<Running, caller = "joined">>
  BY <1>6, <1>t DEF TakeToken, Running, TypeOK
<1> QED BY <1>1, <1>2, <1>3, <1>4, <1>5, <1>6 DEF Next

\* The wait group keeps the promise of TaskGroup: at most Parallel goroutines run
\* at a time, and Wait returns only when none does (wait_group.go:14-53).
THEOREM Implementation == Spec => ImplementsTaskGroup
<1>1. Init => Group!Init
  BY DEF Init, NewWaitGroup, Group!Init, Running
<1> QED BY <1>1, Capacity, StepRefines, PTL DEF Spec, ImplementsTaskGroup, Group!Spec
===============================================================================
