------------------------------ MODULE Downloader ------------------------------
(***************************************************************************)
(* requester/downloader: one call of Downloader.Execute on a file that the  *)
(* server can serve in ranges, in the block-size mode that both front ends  *)
(* select.  Goroutines: one Execute per worker at a time (execMu; further   *)
(* `go worker.Execute()` calls queue up behind it), the monitor loop, the   *)
(* goroutine that closes `completed`, and the callers of Pause, Resume and  *)
(* Cancel.  A step is the code between two accesses to shared state that    *)
(* another goroutine can tell apart.                                        *)
(*                                                                          *)
(* The file is the set of its bytes; what the server sends is always right. *)
(* Only the reload branch of the monitor (monitor.go:412-434) moves the end *)
(* of a range under a running Execute.  Its condition is ReloadDue, which   *)
(* TypeOK shows never to hold, so the range a request asked for is the      *)
(* range of the worker until that Execute returns (see RangeIsStable).      *)
(***************************************************************************)
EXTENDS Integers, FiniteSets

CONSTANTS
  N,          \* number of workers: the ranges generated before the start
  Total,      \* Content-Length
  BlockSize,  \* block size of the range generator
  BufSize,    \* worker read buffer (cache size)
  MaxResets,  \* ResetController.maxResetNum (80 in the code)
  Events,     \* what the environment may do in this instance
  MaxEvents,  \* bound on the number of environment events
  MaxQueue    \* bound on the Execute calls that wait for one execMu

Workers == 1..N
Bytes == 0..(Total - 1)

\* InitialBlocks: the block size leaves a first range for every worker
\* (downloader.go:150-157 with at least MinParallelSize bytes per worker).
ASSUME DownloaderAssumption ==
  /\ N \in Nat \ {0} /\ Total \in Nat \ {0}
  /\ BlockSize \in Nat \ {0} /\ BufSize \in Nat \ {0}
  /\ (N - 1) * BlockSize < Total
  /\ MaxResets \in Nat \ {0}
  /\ MaxEvents \in Nat /\ MaxQueue \in Nat \ {0}
  /\ Events \subseteq {"net", "toomany", "total", "disk", "cancel", "pause",
                       "resume", "restart"}

VARIABLES
  begin, end,   \* Worker.wrange
  status,       \* Worker.status.statusCode
  queue,        \* goroutines waiting for Worker.execMu
  pc,           \* where the goroutine that holds execMu is ("idle": nobody)
  chunk,        \* bytes read and not yet counted
  readErr,      \* the last read ended with an error
  started,      \* workerCancelFunc and resetFunc are set
  canceled, reseted, \* the contexts of the running Execute
  genBegin,     \* RangeListGen.begin
  fresh,        \* the range TryAddNewWork generated and the worker it chose
  mpc, mk,      \* monitor loop: stage, and index in its loop over the workers
  resets,       \* connections counted by the ResetController
  image, saved, \* breakpoint data being written; breakpoint file
  ck, done,     \* completion goroutine: next worker (0: ended), completeNum
  completed,    \* the channel is closed
  mtErr,        \* Monitor.err is set
  cancelReq,    \* the monitor's context is canceled
  outcome,      \* what Downloader.Execute ended with
  pauser,       \* a caller of Monitor.Pause: stage and worker
  written,      \* bytes of the file on disk
  events        \* environment events so far

workerVars  == <<begin, end, status, queue, pc, chunk, readErr,
                 started, canceled, reseted>>
monitorVars == <<genBegin, fresh, mpc, mk, resets, image, saved>>
checkVars   == <<ck, done, completed, mtErr>>
callVars    == <<cancelReq, outcome, pauser>>
vars == <<workerVars, monitorVars, checkVars, callVars, written, events>>

Statuses == {"Init", "Successed", "Pending", "Downloading", "WaitToWrite",
             "InternalError", "TooMany", "NetError", "Failed", "Paused",
             "Reseted", "Canceled"}
ExecPCs == {"idle", "request", "select", "read", "write", "advance"}
Stages  == {"wait", "check", "reset", "put", "write", "genRange", "assign",
            "finish", "done"}

-------------------------------------------------------------------------------
Len(w) == end[w] - begin[w]
Left(w) == begin[w] .. (end[w] - 1)
\* Mutants: a failed worker, or one that has yet to start, counts as complete.
CompletedOrFailed(w) == status[w] \in {"Successed", "Canceled", "Failed"}
CompletedOrInit(w) == status[w] \in {"Successed", "Canceled", "Init"}
Completed(w) == status[w] \in {"Successed", "Canceled"}
Failed(w) == status[w] \in {"Failed", "InternalError", "TooMany", "NetError"}

\* Mutant: one byte too many.
BlockEndOverlapping(b) ==
  IF b + BlockSize + 1 >= Total THEN Total ELSE b + BlockSize + 1
BlockEnd(b) == IF b + BlockSize >= Total THEN Total ELSE b + BlockSize
FirstBegin == [w \in Workers |-> (w - 1) * BlockSize]
FirstEnd == [w \in Workers |-> BlockEnd((w - 1) * BlockSize)]
FirstGen == BlockEnd((N - 1) * BlockSize)

GenDone == genBegin >= Total

\* Mutant: the limit itself is still allowed.
CanResetAtLimit == resets <= MaxResets
CanReset == resets < MaxResets

\* `go worker.Execute()`, within the bound.
\* Mutant: the goroutine is not started.
LaunchForgotten(w) == UNCHANGED queue
Launch(w) == queue[w] < MaxQueue /\ queue' = [queue EXCEPT ![w] = @ + 1]

\* The environment does e, within the bound.
Happens(e) == e \in Events /\ events < MaxEvents /\ events' = events + 1
Quiet == UNCHANGED events

\* The goroutine of worker w returns from Execute with status s.
Return(w, s) ==
  /\ status' = [status EXCEPT ![w] = s]
  /\ pc' = [pc EXCEPT ![w] = "idle"]

\* Monitor.Execute up to the loop, on the given ranges: every worker is
\* launched, and the completion goroutine starts.
Start(b, e, g) ==
  /\ begin = b /\ end = e /\ genBegin = g
  /\ status = [w \in Workers |-> "Init"]
  /\ queue = [w \in Workers |-> 1]
  /\ pc = [w \in Workers |-> "idle"]
  /\ chunk = [w \in Workers |-> 0] /\ readErr = [w \in Workers |-> FALSE]
  /\ started = [w \in Workers |-> FALSE]
  /\ canceled = [w \in Workers |-> FALSE] /\ reseted = [w \in Workers |-> FALSE]
  /\ fresh = [worker |-> 1, begin |-> 0, end |-> 0]
  /\ mpc = "wait" /\ mk = 1 /\ resets = 0
  /\ ck = 1 /\ done = 0 /\ completed = FALSE /\ mtErr = FALSE
  /\ cancelReq = FALSE /\ outcome = "running"
  /\ pauser = [at |-> "none", worker |-> 1]

\* No breakpoint file: ok says that InstanceState.Get can read it.
FirstImage == [ok |-> FALSE, begin |-> FirstBegin, end |-> FirstEnd, gen |-> FirstGen]

Init ==
  /\ Start(FirstBegin, FirstEnd, FirstGen)
  /\ image = FirstImage /\ saved = FirstImage
  /\ written = {} /\ events = 0

-------------------------------------------------------------------------------
(* Worker.Execute *)

\* Up to the request: nothing left means success, whatever was there before.
ExecStart(w) ==
  /\ pc[w] = "idle" /\ queue[w] > 0
  /\ queue' = [queue EXCEPT ![w] = @ - 1]
  /\ \/ /\ Len(w) <= 0
        /\ Return(w, "Successed")
        /\ UNCHANGED <<started, canceled, reseted>>
     \/ /\ Len(w) > 0
        /\ status' = [status EXCEPT ![w] = "Pending"]
        /\ pc' = [pc EXCEPT ![w] = "request"]
        /\ started' = [started EXCEPT ![w] = TRUE]
        /\ canceled' = [canceled EXCEPT ![w] = FALSE]
        /\ reseted' = [reseted EXCEPT ![w] = FALSE]
  /\ UNCHANGED <<begin, end, chunk, readErr>> /\ Quiet

\* The response, or the error of the request: no connection, an unexpected
\* status or Content-Length ("net"), too many connections, or a Content-Range
\* whose total is not the one of the first request ("total").
Respond(w) ==
  /\ pc[w] = "request"
  /\ \/ Happens("net") /\ Return(w, "NetError")
     \/ Happens("toomany") /\ Return(w, "TooMany")
     \/ Happens("total") /\ Return(w, "InternalError")
     \/ Quiet /\ pc' = [pc EXCEPT ![w] = "select"] /\ UNCHANGED status
  /\ UNCHANGED <<begin, end, queue, chunk, readErr, started, canceled, reseted>>

PauseWaits(w) == pauser.at = "send" /\ pauser.worker = w

\* The select at the top of the loop: default only when nothing else is ready.
Select(w) ==
  /\ pc[w] = "select"
  /\ \/ canceled[w] /\ Return(w, "Canceled")
     \/ reseted[w] /\ Return(w, "Reseted")
     \/ /\ ~canceled[w] /\ ~reseted[w] /\ ~PauseWaits(w)
        /\ status' = [status EXCEPT ![w] = "Downloading"]
        /\ pc' = [pc EXCEPT ![w] = "read"]
  /\ UNCHANGED <<begin, end, queue, chunk, readErr, started, canceled, reseted>>
  /\ Quiet

\* The read of n bytes ends with an error at the end of the body, when Cancel
\* or Reset closed the body, or when the connection fails.
ReadStops(w, n) ==
  \/ (n = Len(w) \/ canceled[w] \/ reseted[w]) /\ Quiet
  \/ Happens("net")

\* Bytes are read until the buffer is full or the read ends with an error; the
\* body has no more than the range.
Read(w) ==
  /\ pc[w] = "read"
  /\ \/ /\ Len(w) <= 0 /\ Quiet
        /\ Return(w, "Canceled")
        /\ UNCHANGED <<chunk, readErr>>
     \/ /\ Len(w) > 0
        /\ \E n \in 0..BufSize :
             /\ n <= Len(w)
             /\ chunk' = [chunk EXCEPT ![w] = n]
             /\ \/ /\ n = BufSize /\ Quiet
                   /\ readErr' = [readErr EXCEPT ![w] = FALSE]
                \/ /\ ReadStops(w, n)
                   /\ readErr' = [readErr EXCEPT ![w] = TRUE]
        /\ status' = [status EXCEPT ![w] = "WaitToWrite"]
        /\ pc' = [pc EXCEPT ![w] = "write"]
  /\ UNCHANGED <<begin, end, queue, started, canceled, reseted>>

\* WriteAt under writeMu.  The caller of Execute closes the file when Execute
\* returns, and a write after that fails.
Write(w) ==
  /\ pc[w] = "write"
  /\ \/ /\ written' = written \cup begin[w] .. (begin[w] + chunk[w] - 1)
        /\ status' = [status EXCEPT ![w] = "Downloading"]
        /\ pc' = [pc EXCEPT ![w] = "advance"]
        /\ Quiet
     \/ /\ Happens("disk") \/ (outcome # "running" /\ Quiet)
        /\ Return(w, "InternalError")
        /\ UNCHANGED written
  /\ UNCHANGED <<begin, end, queue, chunk, readErr, started, canceled, reseted>>

\* The range advances, and the loop goes on, ends, or gives up on an error.
Advance(w) ==
  /\ pc[w] = "advance"
  /\ begin' = [begin EXCEPT ![w] = @ + chunk[w]]
  /\ chunk' = [chunk EXCEPT ![w] = 0]
  /\ readErr' = [readErr EXCEPT ![w] = FALSE]
  /\ \/ ~readErr[w] /\ pc' = [pc EXCEPT ![w] = "select"] /\ UNCHANGED status
     \/ readErr[w] /\ Len(w) <= chunk[w] /\ Return(w, "Successed")
     \/ readErr[w] /\ Len(w) > chunk[w] /\ Return(w, "Failed")
  /\ UNCHANGED <<end, queue, started, canceled, reseted>> /\ Quiet

WorkerStep(w) ==
  /\ \/ Write(w)
     \/ UNCHANGED written /\ (ExecStart(w) \/ Respond(w) \/ Select(w) \/ Read(w) \/ Advance(w))
  /\ UNCHANGED <<monitorVars, checkVars, callVars>>

-------------------------------------------------------------------------------
(* Monitor.Execute *)

\* Downloader.Execute after the monitor: without an error the success event is
\* triggered and the breakpoint file removed.
Report ==
  \/ mtErr /\ outcome' = "error" /\ UNCHANGED saved
  \/ ~mtErr /\ outcome' = "success" /\ saved' = [saved EXCEPT !.ok = FALSE]

\* The loop takes a tick, or ends because the context was canceled or because
\* `completed` was closed.
Tick ==
  /\ mpc = "wait"
  /\ mpc' = "check" /\ mk' = 1
  /\ UNCHANGED <<workerVars, genBegin, fresh, resets, image, saved, outcome>>

Finish ==
  /\ mpc = "wait"
  /\ \/ /\ cancelReq
        /\ canceled' = [w \in Workers |-> canceled[w] \/ started[w]]
     \/ completed /\ UNCHANGED canceled
  /\ mpc' = "done"
  /\ Report
  /\ UNCHANGED <<begin, end, status, queue, pc, chunk, readErr, started,
                 reseted, genBegin, fresh, mk, resets, image>>

\* ResetFailedAndNetErrorWorkers looks at one worker ...
\* Mutant: failed downloads are not among the statuses that are reset.
ResettableNetOnly(w) == status[w] = "NetError"
Resettable(w) == status[w] \in {"NetError", "Failed"}

ToNextWorker ==
  /\ mpc' = IF mk = N THEN "put" ELSE "check"
  /\ mk' = IF mk = N THEN 1 ELSE mk + 1

CheckFailed ==
  /\ mpc = "check"
  /\ IF CanReset /\ Resettable(mk)
     THEN mpc' = "reset" /\ UNCHANGED mk
     ELSE ToNextWorker
  /\ UNCHANGED <<workerVars, genBegin, fresh, resets, image, saved, outcome>>

\* ... and resets it: a new Execute is queued behind the one that may be running.
ResetFailed ==
  /\ mpc = "reset"
  /\ resets' = resets + 1
  /\ \/ ~started[mk] /\ UNCHANGED <<status, queue, reseted>>
     \/ /\ started[mk] /\ Launch(mk)
        /\ reseted' = [reseted EXCEPT ![mk] = TRUE]
        /\ status' = [status EXCEPT ![mk] = "Init"]
  /\ ToNextWorker
  /\ UNCHANGED <<begin, end, pc, chunk, readErr, started, canceled,
                 genBegin, fresh, image, saved, outcome>>

\* InstanceState.Put marshals the generator and then one range after the other,
\* while the workers go on ...
\* Mutant: bytes count as downloaded before they are written.
CopiedAhead(w) ==
  [image EXCEPT !.ok = TRUE, !.gen = genBegin, !.begin[w] = begin[w] + chunk[w],
                !.end[w] = end[w]]
Copied(w) ==
  [image EXCEPT !.ok = TRUE, !.gen = genBegin, !.begin[w] = begin[w], !.end[w] = end[w]]

\* ... then truncates the file (nothing happens when the length is the same,
\* otherwise the file is unreadable) and writes it.
Put ==
  /\ mpc = "put"
  /\ image' = Copied(mk)
  /\ IF mk = N
     THEN /\ mpc' = "write" /\ mk' = 1
          /\ saved' = saved \/ saved' = [saved EXCEPT !.ok = FALSE]
     ELSE mpc' = "put" /\ mk' = mk + 1 /\ UNCHANGED saved
  /\ UNCHANGED <<workerVars, genBegin, fresh, resets, outcome>>

PutWrite ==
  /\ mpc = "write"
  /\ saved' = image
  /\ mpc' = "genRange"
  /\ UNCHANGED <<workerVars, genBegin, fresh, mk, resets, image, outcome>>

\* TryAddNewWork: take a range off the generator for an idle worker ...
GenRange ==
  /\ mpc = "genRange"
  /\ \/ /\ ~GenDone /\ CanReset
        /\ \E w \in Workers :
             /\ Completed(w)
             /\ fresh' = [worker |-> w, begin |-> genBegin, end |-> BlockEnd(genBegin)]
        /\ genBegin' = BlockEnd(genBegin)
        /\ mpc' = "assign"
     \/ /\ GenDone \/ ~CanReset \/ \A w \in Workers : ~Completed(w)
        /\ mpc' = "finish"
        /\ UNCHANGED <<fresh, genBegin>>
  /\ UNCHANGED <<workerVars, mk, resets, image, saved, outcome>>

\* ... and launch the worker on it.
Assign ==
  /\ mpc = "assign"
  /\ LET w == fresh.worker
     IN  /\ begin' = [begin EXCEPT ![w] = fresh.begin]
         /\ end' = [end EXCEPT ![w] = fresh.end]
         /\ status' = [status EXCEPT ![w] = "Init"]
         /\ Launch(w)
  /\ resets' = resets + 1
  /\ mpc' = "finish"
  /\ UNCHANGED <<pc, chunk, readErr, started, canceled, reseted,
                 genBegin, fresh, mk, image, saved, outcome>>

\* Reads `failedNum`, which is incremented only on the path that returns false
\* at once (monitor.go:153-156): the result is FALSE whatever the workers do.
IsLeftWorkersAllFailed ==
  LET failedNum == 0
  IN  (\A w \in Workers : Completed(w) \/ Failed(w)) /\ failedNum # 0

\* status.maxSpeeds: nothing in the code stores anything but 0 in it.
MaxSpeeds == 0

ReloadDue ==
  /\ N > 1
  /\ \E speed \in 0..MaxSpeeds : speed < MaxSpeeds \div 5 \/ IsLeftWorkersAllFailed

\* The end of the tick: the reload branch, or back to the loop.
EndTick ==
  /\ mpc = "finish"
  /\ mpc' = IF ReloadDue THEN "reload" ELSE "wait"
  /\ UNCHANGED <<workerVars, genBegin, fresh, mk, resets, image, saved, outcome>>

MonitorRest == UNCHANGED <<checkVars, cancelReq, pauser, written, events>>

MonitorLoop ==
  /\ Tick \/ CheckFailed \/ ResetFailed \/ Put \/ PutWrite
     \/ GenRange \/ Assign \/ EndTick
  /\ MonitorRest

MonitorEnd == Finish /\ MonitorRest

MonitorStep == MonitorLoop \/ MonitorEnd

\* An entry of the ResetController is nine seconds old.
ExpireReset ==
  /\ resets > 0
  /\ resets' = resets - 1
  /\ UNCHANGED <<workerVars, genBegin, fresh, mpc, mk, image, saved, checkVars,
                 callVars, written, events>>

-------------------------------------------------------------------------------
(* The goroutine of registerAllCompleted: once a second it counts the workers
   one by one and then asks the generator.                                    *)
\* Mutant: a fatal error is one more unfinished worker.
FatalIgnored(w) == FALSE
Fatal(w) == status[w] = "InternalError"

CountWorker ==
  /\ ck \in Workers
  /\ IF Fatal(ck)
     THEN mtErr' = TRUE /\ completed' = TRUE /\ ck' = 0 /\ UNCHANGED done
     ELSE /\ done' = done + (IF Completed(ck) THEN 1 ELSE 0)
          /\ ck' = ck + 1
          /\ UNCHANGED <<completed, mtErr>>

\* Mutant: completeNum is not set back to 0 for the next pass.
CountEndAccumulating ==
  /\ ck = N + 1
  /\ IF done >= N /\ GenDone
     THEN completed' = TRUE /\ ck' = 0
     ELSE ck' = 1 /\ UNCHANGED completed
  /\ UNCHANGED <<mtErr, done>>

CountEnd ==
  /\ ck = N + 1
  /\ done' = 0
  /\ IF done >= N /\ GenDone
     THEN completed' = TRUE /\ ck' = 0
     ELSE ck' = 1 /\ UNCHANGED completed
  /\ UNCHANGED mtErr

CheckStep ==
  /\ CountWorker \/ CountEnd
  /\ UNCHANGED <<workerVars, monitorVars, callVars, written, events>>

-------------------------------------------------------------------------------
(* Pause, Resume, Cancel, called by other goroutines *)

\* Monitor.Pause goes through the workers; Worker.Pause hands a token to the
\* worker's select loop over an unbuffered channel and then stores the status.
\* Mutant: the loop does not go on to the next worker.
NextPauseStuck == pauser' = [pauser EXCEPT !.at = "call"]
NextPause ==
  pauser' = IF pauser.worker = N THEN [at |-> "none", worker |-> 1]
            ELSE [at |-> "call", worker |-> pauser.worker + 1]

PauseCall ==
  /\ pauser.at = "none" /\ Happens("pause")
  /\ pauser' = [at |-> "call", worker |-> 1]
  /\ UNCHANGED <<status, pc>>

PauseWorker ==
  /\ pauser.at = "call" /\ Quiet
  /\ IF status[pauser.worker] = "Paused" THEN NextPause
     ELSE pauser' = [pauser EXCEPT !.at = "send"]
  /\ UNCHANGED <<status, pc>>

PauseReceive ==
  /\ pauser.at = "send" /\ pc[pauser.worker] = "select" /\ Quiet
  /\ pc' = [pc EXCEPT ![pauser.worker] = "idle"]
  /\ pauser' = [pauser EXCEPT !.at = "mark"]
  /\ UNCHANGED status

MarkPaused(w) == status' = [status EXCEPT ![w] = "Paused"]

PauseMark ==
  /\ pauser.at = "mark" /\ Quiet
  /\ MarkPaused(pauser.worker)
  /\ NextPause
  /\ UNCHANGED pc

Pause ==
  /\ PauseCall \/ PauseWorker \/ PauseReceive \/ PauseMark
  /\ UNCHANGED <<begin, end, queue, chunk, readErr, started, canceled, reseted,
                 monitorVars, checkVars, cancelReq, outcome, written>>

\* Resume launches every paused worker; its status stays until Execute runs.
Resume ==
  /\ Happens("resume")
  /\ \A w \in Workers : status[w] = "Paused" => queue[w] < MaxQueue
  /\ queue' = [w \in Workers |-> queue[w] + (IF status[w] = "Paused" THEN 1 ELSE 0)]
  /\ UNCHANGED <<begin, end, status, pc, chunk, readErr, started, canceled,
                 reseted, monitorVars, checkVars, callVars, written>>

Cancel ==
  /\ Happens("cancel") /\ cancelReq' = TRUE
  /\ UNCHANGED <<workerVars, monitorVars, checkVars, outcome, pauser, written>>

\* The process dies, or Execute ended with an error, and the download of the
\* same file is run again: a new Downloader on what the breakpoint file says.
Restart ==
  /\ outcome \in {"running", "error"} /\ Happens("restart")
  /\ begin' = IF saved.ok THEN saved.begin ELSE FirstBegin
  /\ end' = IF saved.ok THEN saved.end ELSE FirstEnd
  /\ genBegin' = IF saved.ok THEN saved.gen ELSE FirstGen
  /\ status' = [w \in Workers |-> "Init"] /\ queue' = [w \in Workers |-> 1]
  /\ pc' = [w \in Workers |-> "idle"]
  /\ chunk' = [w \in Workers |-> 0] /\ readErr' = [w \in Workers |-> FALSE]
  /\ started' = [w \in Workers |-> FALSE]
  /\ canceled' = [w \in Workers |-> FALSE] /\ reseted' = [w \in Workers |-> FALSE]
  /\ fresh' = [worker |-> 1, begin |-> 0, end |-> 0]
  /\ mpc' = "wait" /\ mk' = 1 /\ resets' = 0 /\ image' = FirstImage
  /\ ck' = 1 /\ done' = 0 /\ completed' = FALSE /\ mtErr' = FALSE
  /\ cancelReq' = FALSE /\ outcome' = "running"
  /\ pauser' = [at |-> "none", worker |-> 1]
  /\ UNCHANGED <<saved, written>>

\* Execute has returned and its goroutines have ended.
Terminated ==
  /\ outcome # "running" /\ ck = 0
  /\ \A w \in Workers : pc[w] = "idle" /\ queue[w] = 0
  /\ UNCHANGED vars

Next ==
  \/ \E w \in Workers : WorkerStep(w)
  \/ MonitorStep \/ ExpireReset \/ CheckStep
  \/ Pause \/ Resume \/ Cancel \/ Restart
  \/ Terminated

\* Goroutines are scheduled, tickers fire and entries age; the environment's
\* events are never forced.  Go's select picks at random among what is ready, so
\* the monitor cannot forever prefer the ticker to a closed channel.
Fairness ==
  /\ \A w \in Workers : WF_vars(WorkerStep(w))
  /\ WF_vars(MonitorStep) /\ SF_vars(MonitorEnd)
  /\ WF_vars(ExpireReset) /\ WF_vars(CheckStep)
  /\ WF_vars(Pause /\ Quiet)

Spec == Init /\ [][Next]_vars
FairSpec == Spec /\ Fairness

-------------------------------------------------------------------------------
(* Properties *)

Images == [ok : BOOLEAN, begin : [Workers -> Nat], end : [Workers -> Nat], gen : Nat]

\* The state is well typed; the reload stage of the monitor is never entered.
TypeOK ==
  /\ begin \in [Workers -> Nat] /\ end \in [Workers -> Nat]
  /\ status \in [Workers -> Statuses] /\ pc \in [Workers -> ExecPCs]
  /\ queue \in [Workers -> Nat] /\ chunk \in [Workers -> Nat]
  /\ readErr \in [Workers -> BOOLEAN]
  /\ started \in [Workers -> BOOLEAN]
  /\ canceled \in [Workers -> BOOLEAN] /\ reseted \in [Workers -> BOOLEAN]
  /\ genBegin \in Nat
  /\ fresh \in [worker : Workers, begin : Nat, end : Nat]
  /\ mpc \in Stages /\ mk \in Workers /\ resets \in 0..MaxResets
  /\ image \in Images /\ saved \in Images
  /\ ck \in 0..(N + 1) /\ done \in Nat
  /\ completed \in BOOLEAN /\ mtErr \in BOOLEAN /\ cancelReq \in BOOLEAN
  /\ outcome \in {"running", "success", "error"}
  /\ pauser \in [at : {"none", "call", "send", "mark"}, worker : Workers]
  /\ written \subseteq Bytes
  /\ events \in Nat

\* Every byte of the file is on disk, in the range of some worker, still to be
\* generated, or on its way from the generator to a worker: no reset, restart,
\* pause or assignment ever drops a byte.
NoByteLost ==
  \A b \in Bytes :
    \/ b \in written
    \/ \E w \in Workers : b \in Left(w)
    \/ b >= genBegin
    \/ mpc = "assign" /\ fresh.begin <= b /\ b < fresh.end

ImageCovers(im) ==
  \A b \in Bytes :
    \/ b \in written
    \/ \E w \in Workers : im.begin[w] <= b /\ b < im.end[w]
    \/ b >= im.gen

\* A breakpoint file that can be read accounts for every byte that is not on
\* disk, however far the workers have moved on: resuming from it is safe.
ResumeIsSafe == saved.ok => ImageCovers(saved)

\* No byte is downloaded by two workers: ranges in hand are disjoint.
RangesDisjoint ==
  /\ \A v, w \in Workers : v # w => Left(v) \cap Left(w) = {}
  /\ \A w \in Workers : Left(w) \cap genBegin .. (Total - 1) = {}

\* The range of a running Execute moves only by the bytes that this Execute
\* wrote: TryAddNewWork, which takes a worker for idle on its status alone, never
\* stores a new range into one that is downloading.
RangeIsStable ==
  [][\A w \in Workers :
       pc[w] # "idle" /\ pc'[w] # "idle" =>
         /\ end'[w] = end[w]
         /\ begin'[w] \in {begin[w], begin[w] + chunk[w]}]_vars

\* A worker whose status promises progress has a goroutine that will make it,
\* unless a Pause has just taken it out of its loop.
NoWorkerForgotten ==
  \A w \in Workers :
    status[w] \in {"Init", "Pending", "Downloading", "WaitToWrite"} =>
      \/ pc[w] # "idle" \/ queue[w] > 0
      \/ pauser.at = "mark" /\ pauser.worker = w

\* Success is reported (onSuccessEvent, breakpoint file removed) only when the
\* whole file is on disk.
SuccessMeansDownloaded == outcome = "success" => written = Bytes

\* Seen from outside, the download is a Transfer: only Report ends it well, with
\* every byte on disk, and after that the monitor never writes the breakpoint
\* file again (downloader.go:448-459).
Contract == INSTANCE Transfer WITH resumable <- saved.ok
ImplementsTransfer == Contract!Spec

\* `completed` is closed without an error only when every worker is complete
\* and every range has been generated (the comment at monitor.go:185).
CompletedMeansDone ==
  completed /\ ~mtErr => GenDone /\ \A w \in Workers : Completed(w)

\* Execute returns, unless workers stay paused, or one was refused for too many
\* connections: nothing in the code starts that one again (monitor.go:204).
DownloadEnds ==
  \/ <>(outcome # "running")
  \/ []<>(\E w \in Workers : status[w] = "Paused")
  \/ <>[](\E w \in Workers : status[w] = "TooMany")

\* A fatal error of a worker (wrong total length, failed write) ends the
\* download with that error, unless the process is started again before.
FatalErrorIsReported ==
  \A w \in Workers :
    (status[w] = "InternalError" /\ outcome = "running")
      ~> (outcome = "error" \/ status[w] # "InternalError")

\* Monitor.Pause returns, or waits for a worker that has no goroutine: every
\* running Execute takes its token (worker.go:349-351).
PauseWaitsForEndedOnly ==
  (pauser.at # "none")
    ~> \/ pauser.at = "none"
       \/ pauser.at = "send" /\ pc[pauser.worker] = "idle" /\ queue[pauser.worker] = 0
===============================================================================
