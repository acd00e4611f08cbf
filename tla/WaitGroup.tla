------------------------------- MODULE WaitGroup -------------------------------
(***************************************************************************)
(* waitgroup.WaitGroup: a sync.WaitGroup (`count`) and a channel of         *)
(* capacity Parallel (`tokens` values in it), used the way every caller in  *)
(* this repository uses it: one goroutine calls AddDelta before each `go`,  *)
(* then Wait, and makes a new group for the next round; each goroutine      *)
(* calls Done once, as the last thing it does.                              *)
(*                                                                          *)
(* Wait closes the channel while goroutines may still be between the two    *)
(* halves of Done.  A receive from the closed channel returns at once and   *)
(* nobody sends to it again, so those goroutines leave the model with New.  *)
(***************************************************************************)
EXTENDS Naturals, FiniteSets

CONSTANTS
  Tasks,     \* the goroutines
  Parallel   \* capacity of the channel; 0: no channel

ASSUME WaitGroupAssumption == Parallel \in Nat /\ IsFiniteSet(Tasks)

VARIABLES
  count,   \* the counter of the sync.WaitGroup
  tokens,  \* len(w.p)
  caller,  \* where the goroutine that owns the group is
  task     \* "run": started and not in Done; "leave": between the halves of Done

groupVars == <<count, tokens, caller, task>>

Callers == {"free", "send", "add", "wait", "joined"}
TaskStates == {"none", "run", "leave"}

NewWaitGroup ==
  /\ count = 0 /\ tokens = 0 /\ caller = "free"
  /\ task = [t \in Tasks |-> "none"]

\* AddDelta: the send blocks while the channel is full ...
AddDelta ==
  /\ caller = "free" /\ caller' = "send"
  /\ UNCHANGED <<count, tokens, task>>

\* Mutant: a full channel takes one more.
NotFullOffByOne == tokens <= Parallel
NotFull == tokens < Parallel

SendToken ==
  /\ caller = "send" /\ caller' = "add"
  /\ \/ Parallel = 0 /\ UNCHANGED tokens
     \/ Parallel > 0 /\ NotFull /\ tokens' = tokens + 1
  /\ UNCHANGED <<count, task>>

\* Mutant: the goroutine is started without being counted.
CountUpForgotten(t) ==
  /\ caller = "add" /\ task[t] = "none"
  /\ task' = [task EXCEPT ![t] = "run"]
  /\ caller' = "free"
  /\ UNCHANGED <<count, tokens>>

\* ... then the goroutine is counted, and started by the caller.
CountUp(t) ==
  /\ caller = "add" /\ task[t] = "none"
  /\ count' = count + 1
  /\ task' = [task EXCEPT ![t] = "run"]
  /\ caller' = "free"
  /\ UNCHANGED tokens

\* Mutant: Done forgets the counter.
CountDownNever(t) ==
  /\ task[t] = "run"
  /\ task' = [task EXCEPT ![t] = "leave"]
  /\ UNCHANGED <<count, tokens, caller>>

\* Done: first the counter, then the token.
CountDown(t) ==
  /\ task[t] = "run"
  /\ count' = count - 1
  /\ task' = [task EXCEPT ![t] = "leave"]
  /\ UNCHANGED <<tokens, caller>>

\* Mutant: the token is not given back.
KeepToken(t) ==
  /\ task[t] = "leave"
  /\ task' = [task EXCEPT ![t] = "none"]
  /\ UNCHANGED <<count, tokens, caller>>

TakeToken(t) ==
  /\ task[t] = "leave"
  /\ IF Parallel = 0 THEN UNCHANGED tokens
     ELSE tokens > 0 /\ tokens' = tokens - 1
  /\ task' = [task EXCEPT ![t] = "none"]
  /\ UNCHANGED <<count, caller>>

Wait ==
  /\ caller = "free" /\ caller' = "wait"
  /\ UNCHANGED <<count, tokens, task>>

\* Mutant: Wait does not wait.
JoinEarly ==
  /\ caller = "wait" /\ caller' = "joined"
  /\ UNCHANGED <<count, tokens, task>>

\* Wait returns, and has closed the channel.
Join ==
  /\ caller = "wait" /\ count = 0
  /\ caller' = "joined"
  /\ UNCHANGED <<count, tokens, task>>

\* The next round: another group, with a channel of its own.
New ==
  /\ caller = "joined"
  /\ count' = 0 /\ tokens' = 0 /\ caller' = "free"
  /\ task' = [t \in Tasks |-> "none"]

-------------------------------------------------------------------------------
Init == NewWaitGroup

Next ==
  \/ AddDelta \/ SendToken \/ Wait \/ Join \/ New
  \/ \E t \in Tasks : CountUp(t) \/ CountDown(t) \/ TakeToken(t)

\* Goroutines are scheduled and end; whether to add or to wait is the caller's.
Fairness ==
  /\ \A t \in Tasks : WF_groupVars(CountDown(t)) /\ WF_groupVars(TakeToken(t))
  /\ WF_groupVars(SendToken) /\ WF_groupVars(Join)
  /\ WF_groupVars(\E t \in Tasks : CountUp(t))

Spec == Init /\ [][Next]_groupVars
FairSpec == Spec /\ Fairness

-------------------------------------------------------------------------------
Running == {t \in Tasks : task[t] = "run"}
Holders == {t \in Tasks : task[t] # "none"}

TypeOK ==
  /\ count \in Nat /\ tokens \in Nat
  /\ caller \in Callers
  /\ task \in [Tasks -> TaskStates]

\* Every token in the channel belongs to a goroutine that will take it out, or
\* to the AddDelta that has just sent it: no call sequence leaks a token, which
\* would block the AddDelta of a later task for ever.
TokensAreHeld ==
  Parallel > 0 =>
    tokens = Cardinality(Holders) + (IF caller = "add" THEN 1 ELSE 0)

\* Whatever the goroutines do between the halves of Done, the group is a
\* TaskGroup: never more than Parallel of them run, and Wait joins them all.
Group == INSTANCE TaskGroup WITH running <- Running, joined <- (caller = "joined")
ImplementsTaskGroup == Group!Spec

\* Both blocking calls return once enough goroutines have ended: neither a token
\* left in the channel nor the counter keeps the caller for ever.
CallsReturn == (caller \in {"send", "wait"}) ~> (caller \in {"free", "joined"})
===============================================================================
