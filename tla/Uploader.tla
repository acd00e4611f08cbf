------------------------------- MODULE Uploader -------------------------------
(***************************************************************************)
(* requester/uploader: MultiUploader.Execute on one file, together with     *)
(* what RunUpload does with its events and with the stored upload state.    *)
(* Goroutines: the one in Execute, which hands the parts of a deque out in  *)
(* rounds of a wait group; one for each part in hand; and the reporter,     *)
(* which once a second may store which parts are done.                      *)
(*                                                                          *)
(* A goroutine of a part is a slot: AddDelta lets no more than Parallel of  *)
(* them be alive.  A stored state is the set of the parts whose checksum it *)
(* holds; {} stands for no state as well, both upload every part.           *)
(***************************************************************************)
EXTENDS Integers, Sequences, FiniteSets

CONSTANTS
  P,          \* number of parts (an empty file has none, and only Create is left)
  Parallel,   \* MultiUploaderConfig.Parallel, at least 1 after lazyInit
  Events,     \* what the environment may do in this instance
  MaxEvents   \* bound on the number of environment events

ASSUME UploaderAssumption ==
  /\ P \in Nat \ {0} /\ Parallel \in Nat \ {0} /\ MaxEvents \in Nat
  /\ Events \subseteq {"net", "denied", "create", "expire", "cancel", "crash", "again"}

Parts == 1..P
Slots == 1..Parallel

VARIABLES
  count, tokens, caller, task,  \* the wait group of the round (WaitGroup)
  main,      \* where the goroutine in Execute is
  deque,     \* parts to upload
  next,      \* the part taken off the deque last
  job,       \* slot -> part
  stage,     \* slot -> where its goroutine is
  answer,    \* slot -> what TmpFile returned
  sum,       \* the parts that have a checksum
  canceled,  \* muer.canceled is closed
  uperr,     \* upload's error is set
  notice,    \* updateInstanceStateChan (capacity 1) is full
  finished,  \* the channel `finished` (capacity 1) is full
  reporter,  \* where the reporting goroutine is
  mem, disk, \* stored upload state: in memory, in the file
  image,     \* the parts that were done when the reporter began to read which are
  text,      \* who saves -> the state as it goes into the file
  result,    \* what Execute ends with
  server,    \* parts the server holds
  acked,     \* parts the server ever acknowledged (history)
  loose,     \* part -> number of its requests on their way that nobody waits for
  events     \* environment events so far

groupVars  == <<count, tokens, caller, task>>
partVars   == <<job, stage, answer>>
storeVars  == <<mem, disk, image, text>>
serverVars == <<server, acked, loose>>
vars == <<groupVars, main, deque, next, partVars, sum, canceled, uperr, notice,
          finished, reporter, storeVars, result, serverVars, events>>

WG == INSTANCE WaitGroup WITH Tasks <- Slots

Mains == {"shift", "spawn", "join", "round", "decide", "create", "finish",
          "forget", "save", "write", "ended"}
PartStages == {"none", "request", "notify", "return"}
Answers == {"none", "ok", "error", "fatal", "missed"}
Reporters == {"select", "store", "save", "write", "ended"}
Results == {"none", "success", "error", "expired", "canceled"}

InDeque(p) == \E i \in DOMAIN deque : deque[i] = p

\* The environment does e, within the bound.
Happens(e) == e \in Events /\ events < MaxEvents /\ events' = events + 1
Quiet == UNCHANGED events

\* The parts without a checksum, in ascending order.
ToUpload(done) ==
  CHOOSE q \in [1..Cardinality(Parts \ done) -> Parts \ done] :
    \A i, j \in DOMAIN q : i < j => q[i] < q[j]

\* The parts that are on their way while a goroutine waits for the answer.
OnTheWay == {job[s] : s \in {u \in Slots : stage[u] = "request" /\ answer[u] = "none"}}

\* Nobody waits any more for the requests of these parts.
Loosen(parts) == loose' = [p \in Parts |-> IF p \in parts THEN loose[p] + 1 ELSE loose[p]]

\* Nobody is saving.
NoText == [main |-> {}, reporter |-> {}]

Init ==
  /\ WG!NewWaitGroup
  /\ main = "shift" /\ deque = ToUpload({}) /\ next = 1
  /\ job = [s \in Slots |-> 1] /\ stage = [s \in Slots |-> "none"]
  /\ answer = [s \in Slots |-> "none"]
  /\ sum = {} /\ canceled = FALSE /\ uperr = FALSE
  /\ notice = FALSE /\ finished = FALSE /\ reporter = "select"
  /\ mem = {} /\ disk = {} /\ image = {} /\ text = NoText /\ result = "none"
  /\ server = {} /\ acked = {} /\ loose = [p \in Parts |-> 0] /\ events = 0

-------------------------------------------------------------------------------
(* MultiUploader.upload *)

\* The inner loop: the next part, or the end of the round.
Shift ==
  /\ main = "shift"
  /\ \/ /\ deque # <<>>
        /\ next' = Head(deque) /\ deque' = Tail(deque)
        /\ WG!AddDelta /\ main' = "spawn"
     \/ /\ deque = <<>>
        /\ WG!Wait /\ main' = "join"
        /\ UNCHANGED <<next, deque>>
  /\ UNCHANGED <<partVars, result>>

\* AddDelta, and then the goroutine of the part with its request.
Spawn ==
  /\ main = "spawn"
  /\ \/ WG!SendToken /\ UNCHANGED <<main, partVars>>
     \/ \E s \in Slots :
          /\ WG!CountUp(s)
          /\ job' = [job EXCEPT ![s] = next]
          /\ stage' = [stage EXCEPT ![s] = "request"]
          /\ answer' = [answer EXCEPT ![s] = "none"]
          /\ main' = "shift"
  /\ UNCHANGED <<deque, next, result>>

\* Mutant: the loop ends after its first round.
RoundOnce ==
  \/ main = "join" /\ WG!Join /\ main' = "round"
  \/ main = "round" /\ main' = "decide" /\ UNCHANGED groupVars

\* Wait; then another round if parts have come back to the deque.
Round ==
  \/ main = "join" /\ WG!Join /\ main' = "round"
  \/ main = "round" /\ deque # <<>> /\ WG!New /\ main' = "shift"
  \/ main = "round" /\ deque = <<>> /\ main' = "decide" /\ UNCHANGED groupVars

NextRound == Round /\ UNCHANGED <<deque, next, partVars, result>>

\* Mutant: the error of a terminated part is forgotten.
DecideCreate == main = "decide" /\ main' = "create" /\ UNCHANGED result

Decide ==
  /\ main = "decide"
  /\ \/ canceled /\ main' = "finish" /\ result' = IF uperr THEN "error" ELSE "canceled"
     \/ ~canceled /\ main' = "create" /\ UNCHANGED result

\* Mutant: the answer that parts are missing is not looked at.
CreateUnchecked ==
  /\ main = "create" /\ main' = "finish"
  /\ \/ result' = "success" /\ Quiet
     \/ Happens("create") /\ result' = "error"

\* CreateSuperFile: the server has all the parts, or says that some are missing
\* (31363), or the call fails, before or after the server acted on it.
Create ==
  /\ main = "create" /\ main' = "finish"
  /\ \/ server = Parts /\ result' = "success" /\ Quiet
     \/ server # Parts /\ result' = "expired" /\ Quiet
     \/ Happens("create") /\ result' = "error"

\* Execute tells the reporter, and RunUpload's event handlers delete the stored
\* state of an upload that succeeded or whose parts have expired.
Finish ==
  /\ main = "finish" /\ ~finished
  /\ finished' = TRUE
  /\ main' = IF result \in {"success", "expired"} THEN "forget" ELSE "ended"
  /\ UNCHANGED storeVars

Forget ==
  /\ main = "forget" /\ main' = "save"
  /\ mem' = {} /\ UNCHANGED <<disk, image, text, finished>>

\* Save: the text is made, and then written.  The reporter may be saving too, and
\* the one that writes last need not be the one that made its text last.
Save ==
  /\ main = "save" /\ main' = "write"
  /\ text' = [text EXCEPT !.main = mem] /\ UNCHANGED <<mem, disk, image, finished>>

Write ==
  /\ main = "write" /\ main' = "ended"
  /\ disk' = text.main /\ text' = [text EXCEPT !.main = {}]
  /\ UNCHANGED <<mem, image, finished>>

MainStep ==
  /\ \/ (Shift \/ Spawn \/ NextRound) /\ Quiet /\ UNCHANGED <<finished, storeVars>>
     \/ /\ Decide /\ Quiet
        /\ UNCHANGED <<groupVars, deque, next, partVars, finished, storeVars>>
     \/ Create /\ UNCHANGED <<groupVars, deque, next, partVars, finished, storeVars>>
     \/ /\ (Finish \/ Forget \/ Save \/ Write) /\ Quiet
        /\ UNCHANGED <<groupVars, deque, next, partVars, result>>
  /\ UNCHANGED <<sum, canceled, uperr, notice, reporter, serverVars>>

-------------------------------------------------------------------------------
(* The goroutine of a part *)

\* TmpFile returns: with the checksum; with an error of the network, after which
\* the part may still arrive; or with a status that ends the upload (400, 401, 403,
\* 413).  The request's goroutine notes that status after it has signalled the end:
\* TmpFile may look for the note too early, and return an ordinary error ("missed").
Request(s) ==
  /\ stage[s] = "request" /\ answer[s] = "none"
  /\ \/ /\ Quiet /\ answer' = [answer EXCEPT ![s] = "ok"]
        /\ server' = server \cup {job[s]} /\ acked' = acked \cup {job[s]}
        /\ UNCHANGED loose
     \/ /\ Happens("net") /\ answer' = [answer EXCEPT ![s] = "error"]
        /\ Loosen({job[s]}) /\ UNCHANGED <<server, acked>>
     \/ /\ Happens("denied")
        /\ \E a \in {"fatal", "missed"} : answer' = [answer EXCEPT ![s] = a]
        /\ UNCHANGED serverVars
  /\ UNCHANGED <<groupVars, stage, deque, sum, canceled, uperr, notice>>

\* The select on canceled and doneChan takes either when both are ready.  The
\* goroutine of the request is not told: client.Req knows no context, and there is
\* no response yet that the caller of TmpFile could close.
Abandon(s) ==
  /\ stage[s] = "request" /\ canceled
  /\ stage' = [stage EXCEPT ![s] = "return"]
  /\ IF answer[s] = "none" THEN Loosen({job[s]}) ELSE UNCHANGED loose
  /\ UNCHANGED <<groupVars, answer, deque, sum, canceled, uperr, notice, server, acked>>
  /\ Quiet

\* Terminated: the first such part closes `canceled`.
Terminate(s) ==
  /\ stage[s] = "request" /\ answer[s] = "fatal"
  /\ canceled => uperr
  /\ canceled' = TRUE /\ uperr' = TRUE
  /\ stage' = [stage EXCEPT ![s] = "return"]
  /\ UNCHANGED <<groupVars, answer, deque, sum, notice, serverVars>> /\ Quiet

\* Mutants: a failed part is dropped, or comes back twice.
RequeueNot(s) == UNCHANGED deque
RequeueTwice(s) == deque' = Append(Append(deque, job[s]), job[s])
Requeue(s) == deque' = Append(deque, job[s])

\* Any other error: back to the deque, to be tried again.
Retry(s) ==
  /\ stage[s] = "request" /\ answer[s] \in {"error", "missed"}
  /\ Requeue(s)
  /\ stage' = [stage EXCEPT ![s] = "return"]
  /\ UNCHANGED <<groupVars, answer, sum, canceled, uperr, notice, serverVars>> /\ Quiet

\* The checksum is stored, and the reporter notified if the channel has room.
Succeed(s) ==
  /\ stage[s] = "request" /\ answer[s] = "ok"
  /\ sum' = sum \cup {job[s]}
  /\ stage' = [stage EXCEPT ![s] = IF notice THEN "return" ELSE "notify"]
  /\ UNCHANGED <<groupVars, answer, deque, canceled, uperr, notice, serverVars>> /\ Quiet

\* The send blocks when another part has taken the room in between.
Notify(s) ==
  /\ stage[s] = "notify" /\ ~notice
  /\ notice' = TRUE
  /\ stage' = [stage EXCEPT ![s] = "return"]
  /\ UNCHANGED <<groupVars, answer, deque, sum, canceled, uperr, serverVars>> /\ Quiet

\* The deferred Done, in its two halves.
Done(s) ==
  /\ \/ /\ stage[s] = "return" /\ WG!CountDown(s)
        /\ stage' = [stage EXCEPT ![s] = "none"]
     \/ WG!TakeToken(s) /\ UNCHANGED stage
  /\ UNCHANGED <<answer, deque, sum, canceled, uperr, notice, serverVars>> /\ Quiet

PartStep(s) ==
  /\ \/ Request(s) \/ Abandon(s) \/ Terminate(s) \/ Retry(s) \/ Succeed(s)
     \/ Notify(s) \/ Done(s)
  /\ UNCHANGED <<main, next, job, finished, reporter, storeVars, result>>

-------------------------------------------------------------------------------
(* The reporter *)

\* Mutant: the notice is seen and left in the channel.
TickUndrained ==
  /\ reporter = "select" /\ notice
  /\ reporter' = "store" /\ image' = sum
  /\ UNCHANGED <<notice, finished, mem, disk, text>>

\* A tick finds a notice (without one it only prints): the reporter looks which
\* parts are done, one after the other, while more are finished.
Tick ==
  /\ reporter = "select" /\ notice
  /\ notice' = FALSE /\ reporter' = "store"
  /\ image' = sum /\ UNCHANGED <<finished, mem, disk, text>>

\* Mutant: parts on their way count as done.
InstanceStateAhead == {sum \cup {job[s] : s \in {u \in Slots : stage[u] = "request"}}}
\* What it may have found: all that were done when it began, and some of the others.
InstanceState == {done \in SUBSET sum : image \subseteq done}

\* What it found is stored, in memory ...
Store ==
  /\ reporter = "store" /\ reporter' = "save"
  /\ mem' \in InstanceState /\ image' = {}
  /\ UNCHANGED <<notice, finished, disk, text>>

\* ... and then in the file.
StoreSave ==
  /\ reporter = "save" /\ reporter' = "write"
  /\ text' = [text EXCEPT !.reporter = mem]
  /\ UNCHANGED <<notice, finished, mem, disk, image>>

StoreWrite ==
  /\ reporter = "write" /\ reporter' = "select"
  /\ disk' = text.reporter /\ text' = [text EXCEPT !.reporter = {}]
  /\ UNCHANGED <<notice, finished, mem, image>>

ReporterEnd ==
  /\ reporter = "select" /\ finished
  /\ reporter' = "ended" /\ finished' = FALSE
  /\ UNCHANGED <<notice, storeVars>>

Report ==
  /\ Tick \/ Store \/ StoreSave \/ StoreWrite \/ ReporterEnd
  /\ UNCHANGED <<groupVars, main, deque, next, partVars, sum, canceled, uperr,
                 result, serverVars>>
  /\ Quiet

-------------------------------------------------------------------------------
(* The environment *)

\* A request that nobody waits for ends, at any time: its part reaches the server,
\* or is lost.
Arrive(p) ==
  /\ loose[p] > 0 /\ loose' = [loose EXCEPT ![p] = @ - 1]
  /\ server' \in {server, server \cup {p}}
  /\ UNCHANGED <<groupVars, main, deque, next, partVars, sum, canceled, uperr,
                 notice, finished, reporter, storeVars, result, acked>>
  /\ Quiet

\* The server drops the parts of an upload that was never finished.
Expire ==
  /\ Happens("expire") /\ server' = {}
  /\ UNCHANGED <<groupVars, main, deque, next, partVars, sum, canceled, uperr,
                 notice, finished, reporter, storeVars, result, acked, loose>>

\* MultiUploader.Cancel.
Cancel ==
  /\ main # "ended" /\ ~canceled /\ Happens("cancel")
  /\ canceled' = TRUE
  /\ UNCHANGED <<groupVars, main, deque, next, partVars, sum, uperr, notice,
                 finished, reporter, storeVars, result, serverVars>>

\* A new MultiUploader on the stored state.  What was on its way stays so.
Resume(done) ==
  /\ count' = 0 /\ tokens' = 0 /\ caller' = "free"
  /\ task' = [s \in Slots |-> "none"]
  /\ main' = "shift" /\ deque' = ToUpload(done) /\ next' = 1
  /\ job' = [s \in Slots |-> 1] /\ stage' = [s \in Slots |-> "none"]
  /\ answer' = [s \in Slots |-> "none"]
  /\ sum' = done /\ canceled' = FALSE /\ uperr' = FALSE
  /\ notice' = FALSE /\ finished' = FALSE /\ reporter' = "select"
  /\ mem' = done /\ image' = {} /\ text' = NoText /\ result' = "none"
  /\ Loosen(OnTheWay) /\ UNCHANGED <<disk, server, acked>>

\* The task is tried again after an error, with the list in memory; or, by another
\* run of the command, with the list in the file.  The reporter, which ends within
\* a second or two, is gone by then.
Again ==
  /\ main = "ended" /\ reporter = "ended" /\ Happens("again")
  /\ (result = "error" /\ Resume(mem)) \/ (result # "success" /\ Resume(disk))

\* A part is terminated after Cancel closed the channel: closing it again panics.
Panic ==
  /\ canceled /\ ~uperr
  /\ \E s \in Slots : stage[s] = "request" /\ answer[s] = "fatal"
  /\ Resume(disk) /\ Quiet

\* The process dies and the file is uploaded again: only the file is left.
Crash == Happens("crash") /\ Resume(disk)

Terminated ==
  /\ main = "ended" /\ reporter = "ended"
  /\ \A s \in Slots : stage[s] = "none"
  /\ UNCHANGED vars

Next ==
  \/ MainStep \/ (\E s \in Slots : PartStep(s)) \/ Report
  \/ (\E p \in Parts : Arrive(p)) \/ Expire \/ Cancel \/ Again \/ Panic \/ Crash \/ Terminated

\* Goroutines are scheduled, requests return, ticks come.  Go's select picks at
\* random, so the reporter cannot prefer ticks for ever.  A request that nobody
\* waits for need not end.
Fairness ==
  /\ WF_vars(MainStep) /\ WF_vars(Report) /\ SF_vars(Report /\ ReporterEnd)
  /\ \A s \in Slots : WF_vars(PartStep(s))

Spec == Init /\ [][Next]_vars
FairSpec == Spec /\ Fairness

-------------------------------------------------------------------------------
(* Properties *)

TypeOK ==
  /\ WG!TypeOK
  /\ main \in Mains /\ deque \in Seq(Parts) /\ Len(deque) <= P /\ next \in Parts
  /\ job \in [Slots -> Parts] /\ stage \in [Slots -> PartStages]
  /\ answer \in [Slots -> Answers]
  /\ sum \subseteq Parts /\ canceled \in BOOLEAN /\ uperr \in BOOLEAN
  /\ notice \in BOOLEAN /\ finished \in BOOLEAN /\ reporter \in Reporters
  /\ mem \subseteq Parts /\ disk \subseteq Parts /\ image \subseteq Parts
  /\ text \in [main : SUBSET Parts, reporter : SUBSET Parts] /\ result \in Results
  /\ server \subseteq Parts /\ acked \subseteq Parts
  /\ loose \in [Parts -> Nat] /\ events \in Nat

InHand(p) == \E s \in Slots : job[s] = p /\ stage[s] \in {"request", "notify"}

\* Unless the upload is canceled, every part has its checksum or is in the deque,
\* about to be started, or in the hands of a goroutine: no failure, retry or end
\* of a round loses one.
NoPartLost ==
  ~canceled =>
    \A p \in Parts : p \in sum \/ InDeque(p) \/ InHand(p) \/ (main = "spawn" /\ next = p)

\* No part is uploaded twice at a time, nor again after it succeeded: the deque
\* holds no duplicate, no finished part, and none that a goroutine has.  (This is
\* about one Execute and the requests it waits for; an abandoned request of an
\* earlier one may still be on its way.)
OneUploadPerPart ==
  /\ \A i, j \in DOMAIN deque : deque[i] = deque[j] => i = j
  /\ \A s \in Slots : stage[s] = "request" =>
       /\ ~InDeque(job[s]) /\ job[s] \notin sum
       /\ \A u \in Slots : stage[u] = "request" /\ job[u] = job[s] => u = s
  /\ \A p \in sum : ~InDeque(p)

\* CreateSuperFile is called only with a checksum that the server gave for every
\* part, over retries, resumed uploads and crashes (multiworker.go:128).
SuperFileComplete == main = "create" => Parts \subseteq sum \cap acked

\* What is stored is never ahead of the server: a part that a resumed upload
\* skips was acknowledged.
StoredIsAcked == mem \cup disk \subseteq acked

\* An upload that a part has terminated ends with its error, whatever the other
\* parts did meanwhile (multiworker.go:119-123).
TerminationIsReported ==
  uperr => main # "create" /\ result \in {"none", "error"}

\* Execute returns and the reporter with it: neither the bounded notice channel
\* nor a failing part blocks them, also when the upload is run again.
UploadEnds == []<>(main = "ended" /\ reporter = "ended")

\* The parts of which a request is on its way, whether or not somebody waits for it.
Sent == OnTheWay \cup {p \in Parts : loose[p] > 0}

\* Seen from the queue, with all its retries and crashes: the upload succeeds on
\* what the server has and has acknowledged; once there is a result no request is
\* made and none is acknowledged, and what still reaches the server was on its way
\* before (multiworker.go:80); and of no state stored at any time, also by a report
\* that comes after the state was deleted (upload.go:355 and 372), a part is skipped
\* that was not acknowledged.  Until there is a result, a state never forgets a part.
Contract == INSTANCE Upload
  WITH sent <- Sent, held <- server, given <- acked, memory <- mem, file <- disk,
       over <- main = "ended" /\ reporter = "ended"

ImplementsUpload == Contract!Spec
===============================================================================
