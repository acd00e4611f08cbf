-------------------------- MODULE DownloaderProofs --------------------------
(***************************************************************************)
(* Proofs about Downloader, for every number of workers, file size, block   *)
(* size, buffer size and bound.                                             *)
(***************************************************************************)
EXTENDS Downloader, TLAPS

-----------------------------------------------------------------------------
(* The inductive invariant *)

\* No range reaches beyond the file.
RangesInFile ==
  /\ \A w \in Workers : end[w] <= Total /\ image.end[w] <= Total /\ saved.end[w] <= Total
  /\ fresh.begin <= fresh.end /\ fresh.end <= Total

\* What was read and is not yet counted is part of the range ...
ChunkFits == \A w \in Workers : pc[w] \in {"write", "advance"} => chunk[w] <= Len(w)

\* ... and, once WriteAt has returned, on disk.
ChunkWritten ==
  \A w \in Workers : pc[w] = "advance" =>
    \A b \in Bytes : begin[w] <= b /\ b < begin[w] + chunk[w] => b \in written

\* A connection that the monitor is about to count still fits the limit.
ResetsLeft == mpc \in {"reset", "assign"} => resets < MaxResets

\* Only the end of the monitor cancels a worker.
CanceledAtEnd == \A w \in Workers : canceled[w] => mpc = "done"

\* A worker that counts as complete has no running Execute and, while the
\* monitor runs, nothing left in its range ...
CompletedIsIdle ==
  \A w \in Workers : Completed(w) => pc[w] = "idle" /\ (mpc = "done" \/ Len(w) <= 0)

\* ... and that stays so until the range generated for it is stored.
FreshIsIdle ==
  mpc = "assign" => pc[fresh.worker] = "idle" /\ Len(fresh.worker) <= 0

Inv ==
  /\ TypeOK /\ RangesInFile /\ ChunkFits /\ ResetsLeft
  /\ CanceledAtEnd /\ CompletedIsIdle /\ FreshIsIdle

\* While the ranges are copied into the breakpoint data, a copy may be behind
\* its worker, never ahead.
CopyBehind ==
  mpc = "put" => \A v \in Workers : v < mk =>
    image.gen = genBegin /\ image.end[v] = end[v] /\ image.begin[v] <= begin[v]

\* The breakpoint data being written is as safe to resume from as the file.
ByteInv ==
  /\ NoByteLost /\ ChunkWritten /\ ResumeIsSafe /\ CopyBehind
  /\ mpc = "write" => ImageCovers(image)

ImageDisjoint(im) ==
  /\ \A v, w \in Workers : v # w =>
       \A b \in Bytes : ~(im.begin[v] <= b /\ b < im.end[v] /\ im.begin[w] <= b /\ b < im.end[w])
  /\ \A w \in Workers : \A b \in Bytes :
       im.begin[w] <= b /\ b < im.end[w] => b < im.gen

\* The copies made so far hold no byte of each other, of another worker or of
\* the generator.
CopyDisjoint ==
  mpc = "put" => \A v \in Workers : v < mk =>
    /\ image.gen = genBegin
    /\ \A b \in Bytes : image.begin[v] <= b /\ b < image.end[v] =>
         /\ b < genBegin
         /\ \A w \in Workers \ {v} :
              /\ ~(begin[w] <= b /\ b < end[w])
              /\ w < mk => ~(image.begin[w] <= b /\ b < image.end[w])

Live == [begin |-> begin, end |-> end, gen |-> genBegin]

\* The range on its way to a worker is nobody else's, and no image holds a
\* byte twice.
DisjointInv ==
  /\ ImageDisjoint(Live) /\ CopyDisjoint
  /\ saved.ok => ImageDisjoint(saved)
  /\ mpc = "write" => ImageDisjoint(image)
  /\ mpc = "assign" =>
       /\ fresh.end <= genBegin
       /\ \A w \in Workers : \A b \in Bytes :
            ~(begin[w] <= b /\ b < end[w] /\ fresh.begin <= b /\ b < fresh.end)

-----------------------------------------------------------------------------
(* The block arithmetic *)

\* A block starts in the file, is not empty and ends in the file.
LEMMA BlockEndInFile ==
  ASSUME NEW b \in Nat
  PROVE  /\ BlockEnd(b) \in Nat /\ BlockEnd(b) <= Total
         /\ BlockEnd(b) <= b + BlockSize
         /\ b <= Total => b <= BlockEnd(b)
BY DownloaderAssumption DEF BlockEnd

\* The blocks before block v end where it starts.
LEMMA BlocksInOrder ==
  ASSUME NEW v \in Nat, NEW w \in Nat, v < w
  PROVE  /\ v * BlockSize \in Nat
         /\ v * BlockSize + BlockSize <= w * BlockSize
<1>1. v * BlockSize \in Nat /\ w * BlockSize \in Nat
  BY DownloaderAssumption
<1>2. PICK d \in Nat : w = v + 1 + d
  <2> WITNESS w - v - 1 \in Nat
  <2> QED  OBVIOUS
<1>3. w * BlockSize = v * BlockSize + BlockSize + d * BlockSize
  BY <1>2, DownloaderAssumption
<1>4. d * BlockSize \in Nat
  BY <1>2, DownloaderAssumption
<1> QED  BY <1>1, <1>3, <1>4, DownloaderAssumption

\* The first ranges are ranges of the file.
LEMMA FirstRanges ==
  /\ FirstBegin \in [Workers -> Nat] /\ FirstEnd \in [Workers -> Nat] /\ FirstGen \in Nat
  /\ \A w \in Workers : FirstEnd[w] <= Total
  /\ 1 \in Workers
<1>1. \A w \in Workers : (w - 1) * BlockSize \in Nat
  BY DownloaderAssumption DEF Workers
<1>2. 1 \in Workers /\ N \in Workers
  BY DownloaderAssumption DEF Workers
<1> QED  BY <1>1, <1>2, BlockEndInFile DEF FirstBegin, FirstEnd, FirstGen

LEMMA NextWorker ==
  ASSUME NEW k \in Workers
  PROVE  /\ k \in 0..(N + 1) /\ k + 1 \in 0..(N + 1) /\ 1 \in 0..(N + 1) /\ 0 \in 0..(N + 1)
         /\ k # N => k + 1 \in Workers
BY DownloaderAssumption DEF Workers

-----------------------------------------------------------------------------
(* Type correctness *)

LEMMA InitInv == Init => Inv
<1> SUFFICES ASSUME Init PROVE Inv
  OBVIOUS
<1>1. FirstImage \in Images
  BY FirstRanges DEF FirstImage, Images
<1>2. TypeOK
  <2>1. fresh \in [worker : Workers, begin : Nat, end : Nat]
    BY FirstRanges DEF Init, Start
  <2>2. mk \in Workers /\ resets \in 0..MaxResets /\ ck \in 0..(N + 1)
    BY FirstRanges, DownloaderAssumption DEF Init, Start
  <2>3. pauser \in [at : {"none", "call", "send", "mark"}, worker : Workers]
    BY FirstRanges DEF Init, Start
  <2> QED
    BY <1>1, <2>1, <2>2, <2>3, FirstRanges DEF Init, Start, TypeOK, Statuses, ExecPCs, Stages
<1>3. RangesInFile
  BY FirstRanges, DownloaderAssumption DEF Init, Start, FirstImage, RangesInFile
<1>4. ChunkFits /\ ResetsLeft /\ CanceledAtEnd /\ CompletedIsIdle /\ FreshIsIdle
  BY DEF Init, Start, ChunkFits, ResetsLeft, CanceledAtEnd, CompletedIsIdle, FreshIsIdle,
         Completed
<1> QED  BY <1>2, <1>3, <1>4 DEF Inv

\* A step of a worker: of its own range only the beginning moves, and a status
\* that counts as complete is set with nothing left, or after the cancellation.
LEMMA WorkerInv == ASSUME Inv, NEW w \in Workers, WorkerStep(w) PROVE Inv'
<1> USE DEF Inv, TypeOK, RangesInFile, ChunkFits, ResetsLeft, CanceledAtEnd, CompletedIsIdle,
            FreshIsIdle, workerVars, monitorVars, checkVars, callVars, Quiet, Happens, Return,
            Len, Completed, Statuses, ExecPCs, Stages, Images
<1>1. CASE ExecStart(w) /\ UNCHANGED written
  <2>1. queue' \in [Workers -> Nat]
    BY <1>1 DEF ExecStart
  <2>2. CASE Len(w) <= 0 /\ Return(w, "Successed") /\ UNCHANGED <<started, canceled, reseted>>
    BY <1>1, <2>1, <2>2 DEF ExecStart, WorkerStep
  <2>3. CASE Len(w) > 0 /\ status' = [status EXCEPT ![w] = "Pending"]
    <3>1. TypeOK'
      <4>1. /\ pc' = [pc EXCEPT ![w] = "request"]
            /\ started' = [started EXCEPT ![w] = TRUE]
            /\ canceled' = [canceled EXCEPT ![w] = FALSE]
            /\ reseted' = [reseted EXCEPT ![w] = FALSE]
        BY <1>1, <2>3 DEF ExecStart
      <4>2. UNCHANGED <<begin, end, chunk, readErr, monitorVars, checkVars, callVars, events, written>>
        BY <1>1 DEF ExecStart, WorkerStep
      <4> QED  BY <2>1, <2>3, <4>1, <4>2
    <3>2. RangesInFile' /\ ResetsLeft'
      BY <1>1, <2>3 DEF ExecStart, WorkerStep
    <3>3. ChunkFits' /\ CanceledAtEnd'
      BY <1>1, <2>3 DEF ExecStart, WorkerStep
    <3>4. CompletedIsIdle' /\ FreshIsIdle'
      BY <1>1, <2>3 DEF ExecStart, WorkerStep
    <3> QED  BY <3>1, <3>2, <3>3, <3>4
  <2> QED  BY <1>1, <2>2, <2>3 DEF ExecStart
<1>2. CASE Respond(w) /\ UNCHANGED written
  BY <1>2 DEF Respond, WorkerStep
<1>3. CASE Select(w) /\ UNCHANGED written
  BY <1>3 DEF Select, WorkerStep
<1>4. CASE Read(w) /\ UNCHANGED written
  <2>1. events' \in Nat
    BY <1>4 DEF Read, ReadStops
  <2>2. CASE Len(w) <= 0 /\ Return(w, "Canceled")
    BY <1>4, <2>1, <2>2 DEF Read, WorkerStep
  <2>3. CASE ~(Len(w) <= 0 /\ Return(w, "Canceled"))
    <3>1. PICK n \in 0..BufSize :
            /\ n <= Len(w) /\ chunk' = [chunk EXCEPT ![w] = n]
            /\ \E e \in BOOLEAN : readErr' = [readErr EXCEPT ![w] = e]
      BY <1>4, <2>3 DEF Read
    <3>2. /\ pc[w] = "read" /\ pc' = [pc EXCEPT ![w] = "write"]
          /\ status' = [status EXCEPT ![w] = "WaitToWrite"]
          /\ UNCHANGED <<begin, end, queue, started, canceled, reseted>>
      BY <1>4, <2>3 DEF Read
    <3> QED  BY <1>4, <2>1, <3>1, <3>2, DownloaderAssumption DEF WorkerStep
  <2> QED  BY <2>2, <2>3
<1>5. CASE Write(w)
  <2>1. pc[w] = "write" /\ begin[w] \in Nat /\ chunk[w] \in Nat
        /\ begin[w] + chunk[w] <= end[w] /\ end[w] \in Nat /\ end[w] <= Total
    BY <1>5 DEF Write
  <2>2. begin[w] .. (begin[w] + chunk[w] - 1) \subseteq Bytes
    BY <2>1, DownloaderAssumption DEF Bytes
  <2>3. written' \subseteq Bytes
    BY <1>5, <2>2 DEF Write
  <2> QED  BY <1>5, <2>3 DEF Write, WorkerStep
<1>6. CASE Advance(w) /\ UNCHANGED written
  BY <1>6 DEF Advance, WorkerStep
<1> QED  BY <1>1, <1>2, <1>3, <1>4, <1>5, <1>6 DEF WorkerStep

\* A step of the monitor: a range is stored only into an idle worker, and a
\* connection is counted only below the limit.
LEMMA MonitorInv == ASSUME Inv, MonitorStep PROVE Inv'
<1> USE DEF Inv, TypeOK, RangesInFile, ChunkFits, ResetsLeft, CanceledAtEnd, CompletedIsIdle,
            FreshIsIdle, workerVars, checkVars, Len, Completed, Statuses, Stages
<1>0. UNCHANGED <<checkVars, cancelReq, pauser, written, events>>
  BY DEF MonitorStep, MonitorLoop, MonitorEnd, MonitorRest
<1>1. CASE Tick
  BY <1>0, <1>1, FirstRanges DEF Tick
<1>2. CASE Finish
  <2>1. saved' \in Images /\ \A w \in Workers : saved'.end[w] <= Total
    BY <1>2 DEF Finish, Report, Images
  <2>2. canceled' \in [Workers -> BOOLEAN]
    BY <1>2 DEF Finish, Report
  <2> QED  BY <1>0, <1>2, <2>1, <2>2 DEF Finish, Report
<1>3. CASE CheckFailed
  BY <1>0, <1>3, FirstRanges, NextWorker DEF CheckFailed, ToNextWorker, CanReset
<1>4. CASE ResetFailed
  <2>1. mk' \in Workers /\ mpc' \in {"put", "check"}
    BY <1>4, FirstRanges, NextWorker DEF ResetFailed, ToNextWorker
  <2>2. resets' \in 0..MaxResets
    BY <1>4, DownloaderAssumption DEF ResetFailed
  <2>3. /\ status' \in [Workers -> Statuses] /\ queue' \in [Workers -> Nat]
        /\ reseted' \in [Workers -> BOOLEAN]
        /\ \A w \in Workers : status'[w] = status[w] \/ status'[w] = "Init"
    <3>1. CASE UNCHANGED <<status, queue, reseted>>
      BY <3>1
    <3>2. CASE /\ queue' = [queue EXCEPT ![mk] = @ + 1]
               /\ reseted' = [reseted EXCEPT ![mk] = TRUE]
               /\ status' = [status EXCEPT ![mk] = "Init"]
      BY <3>2
    <3> QED  BY <1>4, <3>1, <3>2 DEF ResetFailed, Launch
  <2> QED  BY <1>0, <1>4, <2>1, <2>2, <2>3 DEF ResetFailed
<1>5. CASE Put
  <2>1. image' \in Images /\ \A w \in Workers : image'.end[w] <= Total
    BY <1>5 DEF Put, Copied, Images
  <2>2. saved' \in Images /\ \A w \in Workers : saved'.end[w] <= Total
    <3>1. saved' = saved \/ saved' = [saved EXCEPT !.ok = FALSE]
      BY <1>5 DEF Put
    <3>2. saved \in Images /\ \A w \in Workers : saved.end[w] <= Total
      OBVIOUS
    <3>3. saved' \in Images /\ saved'.end = saved.end
      BY ONLY <3>1, <3>2 DEF Images
    <3> QED  BY <3>2, <3>3
  <2>3. mk' \in Workers /\ mpc' \in {"put", "write"}
    BY <1>5, FirstRanges, NextWorker DEF Put
  <2> QED  BY <1>0, <1>5, <2>1, <2>2, <2>3 DEF Put
<1>6. CASE PutWrite
  BY <1>0, <1>6 DEF PutWrite
<1>7. CASE GenRange
  <2>1. CASE mpc' = "finish"
    BY <1>0, <1>7, <2>1 DEF GenRange
  <2>2. CASE mpc' # "finish"
    <3>1. PICK w \in Workers :
            /\ Completed(w) /\ CanReset /\ ~GenDone
            /\ fresh' = [worker |-> w, begin |-> genBegin, end |-> BlockEnd(genBegin)]
      BY <1>7, <2>2 DEF GenRange
    <3>2. genBegin' = BlockEnd(genBegin) /\ mpc' = "assign" /\ mpc = "genRange"
      BY <1>7, <2>2 DEF GenRange
    <3>3. /\ BlockEnd(genBegin) \in Nat /\ BlockEnd(genBegin) <= Total
          /\ genBegin <= BlockEnd(genBegin)
      BY <3>1, BlockEndInFile, DownloaderAssumption DEF GenDone
    <3>4. UNCHANGED <<workerVars, mk, resets, image, saved, outcome>>
      BY <1>7 DEF GenRange
    <3> QED  BY <1>0, <3>1, <3>2, <3>3, <3>4 DEF CanReset
  <2> QED  BY <2>1, <2>2
<1>8. CASE Assign
  <2>1. fresh.worker \in Workers /\ fresh.begin \in Nat /\ fresh.end \in Nat
    OBVIOUS
  <2>2. /\ begin' = [begin EXCEPT ![fresh.worker] = fresh.begin]
        /\ end' = [end EXCEPT ![fresh.worker] = fresh.end]
        /\ status' = [status EXCEPT ![fresh.worker] = "Init"]
        /\ mpc' = "finish"
    BY <1>8 DEF Assign
  <2>3. resets' \in 0..MaxResets /\ queue' \in [Workers -> Nat]
    BY <1>8, <2>1, DownloaderAssumption DEF Assign, Launch
  <2>4. UNCHANGED <<pc, chunk, readErr, started, canceled, reseted, genBegin, fresh, mk, image, saved, outcome>>
    BY <1>8 DEF Assign
  <2>5. mpc = "assign"
    BY <1>8 DEF Assign
  <2>6. TypeOK'
    BY <1>0, <2>1, <2>2, <2>3, <2>4
  <2> QED  BY <2>1, <2>2, <2>4, <2>5, <2>6
<1>9. CASE EndTick
  <2>1. ~ReloadDue
    BY DEF ReloadDue, MaxSpeeds, IsLeftWorkersAllFailed
  <2> QED  BY <1>0, <1>9, <2>1 DEF EndTick
<1> QED
  BY <1>1, <1>2, <1>3, <1>4, <1>5, <1>6, <1>7, <1>8, <1>9 DEF MonitorStep, MonitorLoop, MonitorEnd

\* The steps of the completion goroutine, of the callers and of the clock.
LEMMA OtherInv ==
  ASSUME Inv, ExpireReset \/ CheckStep \/ Pause \/ Resume \/ Cancel \/ Terminated
  PROVE  Inv'
<1> USE DEF Inv, TypeOK, RangesInFile, ChunkFits, ResetsLeft, CanceledAtEnd, CompletedIsIdle,
            FreshIsIdle, workerVars, monitorVars, checkVars, callVars, Happens, Quiet, Len,
            Completed, Statuses, ExecPCs
<1>1. CASE ExpireReset
  <2>1. resets' \in 0..MaxResets /\ resets' <= resets
    BY <1>1, DownloaderAssumption DEF ExpireReset
  <2> QED  BY <1>1, <2>1, DownloaderAssumption DEF ExpireReset
<1>2. CASE CheckStep
  <2>1. ck' \in 0..(N + 1) /\ done' \in Nat /\ completed' \in BOOLEAN /\ mtErr' \in BOOLEAN
    <3>1. CASE CountWorker
      <4>1. ck \in Workers /\ ck + 1 \in 0..(N + 1) /\ 0 \in 0..(N + 1)
        BY <3>1, NextWorker DEF CountWorker
      <4>2. CASE Fatal(ck)
        BY <3>1, <4>1, <4>2 DEF CountWorker
      <4>3. CASE ~Fatal(ck)
        <5>1. done' = done + (IF Completed(ck) THEN 1 ELSE 0) /\ ck' = ck + 1
              /\ UNCHANGED <<completed, mtErr>>
          BY <3>1, <4>3 DEF CountWorker
        <5> QED  BY <4>1, <5>1
      <4> QED  BY <4>2, <4>3
    <3>2. CASE CountEnd
      BY <3>2, NextWorker, FirstRanges DEF CountEnd
    <3> QED  BY <1>2, <3>1, <3>2 DEF CheckStep
  <2>2. UNCHANGED <<workerVars, monitorVars, callVars, written, events>>
    BY <1>2 DEF CheckStep
  <2> QED  BY <2>1, <2>2
<1>3. CASE Pause
  <2>1. UNCHANGED <<begin, end, queue, chunk, readErr, started, canceled, reseted,
                    monitorVars, checkVars, cancelReq, outcome, written>>
    BY <1>3 DEF Pause
  <2>2. pauser' \in [at : {"none", "call", "send", "mark"}, worker : Workers] /\ events' \in Nat
    <3>1. NextPause => pauser' \in [at : {"none", "call", "send", "mark"}, worker : Workers]
      BY FirstRanges, NextWorker DEF NextPause
    <3> QED  BY <1>3, <3>1, FirstRanges DEF Pause, PauseCall, PauseWorker, PauseReceive, PauseMark
  <2>3. /\ status' \in [Workers -> Statuses] /\ pc' \in [Workers -> ExecPCs]
        /\ \A w \in Workers : status'[w] = status[w] \/ status'[w] = "Paused"
        /\ \A w \in Workers : pc'[w] = pc[w] \/ pc'[w] = "idle"
    BY <1>3 DEF Pause, PauseCall, PauseWorker, PauseReceive, PauseMark, MarkPaused
  <2> QED  BY <2>1, <2>2, <2>3
<1>4. CASE Resume
  <2>1. queue' \in [Workers -> Nat]
    BY <1>4 DEF Resume
  <2> QED  BY <1>4, <2>1 DEF Resume
<1>5. CASE Cancel
  BY <1>5 DEF Cancel
<1>6. CASE Terminated
  BY <1>6 DEF Terminated, vars
<1> QED  BY <1>1, <1>2, <1>3, <1>4, <1>5, <1>6

LEMMA RestartInv == ASSUME Inv, Restart PROVE Inv'
<1> USE DEF Inv, Statuses, ExecPCs, Stages
<1>1. /\ begin' \in [Workers -> Nat] /\ end' \in [Workers -> Nat] /\ genBegin' \in Nat
      /\ \A w \in Workers : end'[w] <= Total
  BY FirstRanges DEF Restart, TypeOK, Images, RangesInFile
<1>2. image' \in Images /\ \A w \in Workers : image'.end[w] <= Total
  BY FirstRanges DEF Restart, FirstImage, Images
<1>3. fresh' \in [worker : Workers, begin : Nat, end : Nat] /\ fresh'.begin <= fresh'.end /\ fresh'.end <= Total
  BY FirstRanges, DownloaderAssumption DEF Restart
<1>4. mk' \in Workers /\ resets' \in 0..MaxResets /\ ck' \in 0..(N + 1) /\ done' \in Nat /\ events' \in Nat
  BY FirstRanges, DownloaderAssumption DEF Restart, Happens, TypeOK
<1>5. pauser' \in [at : {"none", "call", "send", "mark"}, worker : Workers]
  BY FirstRanges DEF Restart
<1>6. TypeOK'
  BY <1>1, <1>2, <1>3, <1>4, <1>5 DEF Restart, TypeOK
<1>7. RangesInFile'
  BY <1>1, <1>2, <1>3 DEF Restart, RangesInFile
<1>8. ChunkFits' /\ ResetsLeft' /\ CanceledAtEnd' /\ CompletedIsIdle' /\ FreshIsIdle'
  BY DEF Restart, ChunkFits, ResetsLeft, CanceledAtEnd, CompletedIsIdle, FreshIsIdle, Completed
<1> QED  BY <1>6, <1>7, <1>8

LEMMA NextInv == Inv /\ [Next]_vars => Inv'
<1> SUFFICES ASSUME Inv, [Next]_vars PROVE Inv'
  OBVIOUS
<1>1. CASE UNCHANGED vars
  BY <1>1 DEF Inv, TypeOK, RangesInFile, ChunkFits, ResetsLeft, CanceledAtEnd, CompletedIsIdle,
     FreshIsIdle, Completed, Len, vars, workerVars, monitorVars, checkVars, callVars
<1> QED  BY <1>1, WorkerInv, MonitorInv, OtherInv, RestartInv DEF Next

\* The state is well typed, bytes are written only inside the file, and the
\* monitor never enters its reload branch.
THEOREM TypeCorrect == Spec => []TypeOK
<1>1. Spec => []Inv
  BY InitInv, NextInv, PTL DEF Spec
<1>2. Inv => TypeOK
  BY DEF Inv
<1> QED  BY <1>1, <1>2, PTL

-----------------------------------------------------------------------------
(* No byte is lost *)

\* The first ranges and the generator behind them hold every byte.
LEMMA FirstCovers ==
  ASSUME NEW b \in Bytes
  PROVE  (\E w \in Workers : FirstBegin[w] <= b /\ b < FirstEnd[w]) \/ b >= FirstGen
<1>1. b \in Nat /\ b < Total /\ BlockSize \in Nat \ {0} /\ N \in Nat \ {0}
  BY DownloaderAssumption DEF Bytes
<1> DEFINE q == b \div BlockSize
<1>2. q \in Nat /\ q * BlockSize <= b /\ b < q * BlockSize + BlockSize
  BY <1>1
<1>3. CASE q < N
  <2>1. q + 1 \in Workers /\ (q + 1) - 1 = q
    BY <1>2, <1>3, <1>1 DEF Workers
  <2>2. FirstBegin[q + 1] = q * BlockSize /\ FirstEnd[q + 1] = BlockEnd(q * BlockSize)
    BY <2>1 DEF FirstBegin, FirstEnd
  <2>3. b < BlockEnd(q * BlockSize)
    BY <1>1, <1>2 DEF BlockEnd
  <2> QED  BY <1>2, <2>1, <2>2, <2>3
<1>4. CASE q >= N
  <2>1. (N - 1) * BlockSize + BlockSize <= q * BlockSize /\ (N - 1) * BlockSize \in Nat
    BY <1>1, <1>2, <1>4, BlocksInOrder
  <2> QED  BY <1>1, <1>2, <2>1, BlockEndInFile DEF FirstGen
<1> QED  BY <1>1, <1>2, <1>3, <1>4

LEMMA InitBytes == Init => ByteInv
<1> SUFFICES ASSUME Init PROVE ByteInv
  OBVIOUS
<1>1. NoByteLost
  BY FirstCovers, FirstRanges DEF Init, Start, NoByteLost, Left, Bytes
<1>2. ChunkWritten /\ ResumeIsSafe /\ mpc # "write"
  BY DEF Init, Start, FirstImage, ChunkWritten, ResumeIsSafe
<1>3. CopyBehind
  BY DEF Init, Start, CopyBehind
<1> QED  BY <1>1, <1>2, <1>3 DEF ByteInv

\* Bytes once on disk stay there: an image that was safe stays safe.
LEMMA CoversGrows ==
  ASSUME NEW im, ImageCovers(im), written \subseteq written'
  PROVE  ImageCovers(im)'
BY DEF ImageCovers

\* A byte leaves a worker's range only when it has been written.
LEMMA WorkerBytes == ASSUME Inv, ByteInv, NEW w \in Workers, WorkerStep(w) PROVE ByteInv'
<1>1. UNCHANGED <<end, genBegin, fresh, mpc, mk, image, saved>>
  BY DEF WorkerStep, monitorVars, ExecStart, Respond, Select, Read, Write, Advance
<1>0. CopyBehind'
  <2>1. \A v \in Workers : begin'[v] \in Nat /\ begin[v] <= begin'[v]
    BY DEF WorkerStep, ExecStart, Respond, Select, Read, Write, Advance, Inv, TypeOK
  <2> QED  BY <1>1, <2>1 DEF ByteInv, CopyBehind, Inv, TypeOK, Images
<1>2. CASE ~Write(w) /\ ~Advance(w)
  <2>1. UNCHANGED <<begin, written>>
    BY <1>2 DEF WorkerStep, ExecStart, Respond, Select, Read
  <2>2. \A v \in Workers : pc'[v] = "advance" => pc[v] = "advance" /\ chunk'[v] = chunk[v]
    BY <1>2 DEF WorkerStep, ExecStart, Respond, Select, Read, Return, Inv, TypeOK
  <2> QED  BY <1>0, <1>1, <2>1, <2>2
       DEF ByteInv, NoByteLost, ChunkWritten, ResumeIsSafe, ImageCovers, Left
<1>3. CASE Write(w)
  <2>1. /\ written \subseteq written' /\ UNCHANGED <<begin, chunk>>
    BY <1>3 DEF Write
  <2>2. NoByteLost'
    BY <1>1, <2>1 DEF ByteInv, NoByteLost, Left
  <2>3. ChunkWritten'
    <3>1. CASE /\ written' = written \cup begin[w] .. (begin[w] + chunk[w] - 1)
               /\ pc' = [pc EXCEPT ![w] = "advance"]
      BY <3>1, <2>1 DEF ByteInv, ChunkWritten, Inv, TypeOK, Bytes
    <3>2. CASE pc' = [pc EXCEPT ![w] = "idle"]
      BY <3>2, <2>1 DEF ByteInv, ChunkWritten, Inv, TypeOK
    <3> QED  BY <1>3, <3>1, <3>2 DEF Write, Return
  <2> QED  BY <1>0, <1>1, <2>1, <2>2, <2>3, CoversGrows DEF ByteInv, ResumeIsSafe
<1>4. CASE Advance(w)
  <2>1. /\ pc[w] = "advance" /\ begin' = [begin EXCEPT ![w] = @ + chunk[w]]
        /\ pc'[w] # "advance" /\ \A v \in Workers \ {w} : pc'[v] = pc[v]
        /\ chunk' = [chunk EXCEPT ![w] = 0]
    BY <1>4 DEF Advance, Return, Inv, TypeOK
  <2>2. written' = written
    BY <2>1, <1>4 DEF WorkerStep, Write
  <2>3. NoByteLost'
    <3> SUFFICES ASSUME NEW b \in Bytes, b \notin written, b < genBegin,
                        ~(mpc = "assign" /\ fresh.begin <= b /\ b < fresh.end)
                 PROVE  \E v \in Workers : begin'[v] <= b /\ b < end[v]
      BY <1>1, <2>2 DEF NoByteLost, Left, Inv, TypeOK, Bytes
    <3>1. PICK v \in Workers : begin[v] <= b /\ b < end[v]
      BY DEF ByteInv, NoByteLost, Left, Inv, TypeOK, Bytes
    <3>2. CASE v = w
      BY <2>1, <3>1, <3>2 DEF ByteInv, ChunkWritten, Inv, TypeOK, Bytes
    <3> QED  BY <2>1, <3>1, <3>2 DEF Inv, TypeOK
  <2>4. ChunkWritten'
    BY <2>1, <2>2 DEF ByteInv, ChunkWritten, Inv, TypeOK
  <2> QED  BY <1>0, <1>1, <2>2, <2>3, <2>4 DEF ByteInv, ResumeIsSafe, ImageCovers
<1> QED  BY <1>2, <1>3, <1>4

\* The monitor moves bytes from the generator to a range in its hand, and from
\* there to an idle worker; what it saves is what the workers and the generator
\* still hold.
LEMMA MonitorBytes == ASSUME Inv, ByteInv, MonitorStep PROVE ByteInv'
<1>0. UNCHANGED written
  BY DEF MonitorStep, MonitorLoop, MonitorEnd, MonitorRest
<1>1. CASE Tick \/ CheckFailed \/ ResetFailed \/ EndTick \/ Finish
  <2>1. UNCHANGED <<begin, end, pc, chunk, genBegin, fresh>>
    BY <1>1 DEF Tick, CheckFailed, ResetFailed, EndTick, Finish, Report, workerVars
  <2>2. mpc # "assign" /\ mpc' \notin {"assign", "write"}
    BY <1>1 DEF Tick, CheckFailed, ResetFailed, EndTick, Finish, Report, ToNextWorker
  <2>3. saved' = saved \/ ~saved'.ok
    BY <1>1 DEF Tick, CheckFailed, ResetFailed, EndTick, Finish, Report, Inv, TypeOK, Images
  <2>4. CopyBehind'
    BY <1>1 DEF CopyBehind, Tick, CheckFailed, ResetFailed, EndTick, Finish, Report, ToNextWorker,
       Workers, Inv, TypeOK
  <2> QED  BY <1>0, <2>1, <2>2, <2>3, <2>4
       DEF ByteInv, NoByteLost, ChunkWritten, ResumeIsSafe, ImageCovers, Left
<1>2. CASE Put \/ PutWrite
  <2>1. UNCHANGED <<begin, end, pc, chunk, genBegin, fresh>>
    BY <1>2 DEF Put, PutWrite, workerVars
  <2>2. mpc # "assign" /\ mpc' # "assign"
    BY <1>2 DEF Put, PutWrite
  <2>3. NoByteLost' /\ ChunkWritten'
    BY <1>0, <2>1, <2>2 DEF ByteInv, NoByteLost, ChunkWritten, Left
  <2>4. CASE Put
    <3>1. mpc = "put" /\ image' = Copied(mk) /\ (saved' = saved \/ ~saved'.ok)
      BY <2>4 DEF Put, Inv, TypeOK, Images
    <3>2. \A v \in Workers : v <= mk =>
            /\ image'.gen = genBegin /\ image'.end[v] = end[v]
            /\ image'.begin[v] \in Nat /\ image'.begin[v] <= begin[v]
      <4> SUFFICES ASSUME NEW v \in Workers, v <= mk
                   PROVE  /\ image'.gen = genBegin /\ image'.end[v] = end[v]
                          /\ image'.begin[v] \in Nat /\ image'.begin[v] <= begin[v]
        OBVIOUS
      <4>1. /\ image'.gen = genBegin
            /\ image'.begin = [image.begin EXCEPT ![mk] = begin[mk]]
            /\ image'.end = [image.end EXCEPT ![mk] = end[mk]]
        BY <3>1 DEF Copied, Inv, TypeOK, Images
      <4>2. v < mk => image.end[v] = end[v] /\ image.begin[v] <= begin[v]
        BY <3>1 DEF ByteInv, CopyBehind
      <4>3. v < mk \/ v = mk
        BY DEF Inv, TypeOK, Workers
      <4> QED  BY <4>1, <4>2, <4>3 DEF Inv, TypeOK, Images
    <3>3. CopyBehind'
      <4>1. mk \in Int /\ (mpc' = "put" => mk' = mk + 1)
        BY <2>4 DEF Put, Inv, TypeOK, Workers
      <4>2. \A v \in Workers : v \in Int /\ (v < mk + 1 => v <= mk)
        BY <4>1 DEF Workers
      <4> QED  BY <2>1, <3>2, <4>1, <4>2 DEF CopyBehind
    <3>4. (mpc = "write" => ImageCovers(image))'
      <4> SUFFICES ASSUME mpc' = "write", NEW b \in Bytes, b \notin written, b < genBegin
                   PROVE  \E v \in Workers : image'.begin[v] <= b /\ b < image'.end[v]
        <5>1. image'.gen = genBegin
          BY <3>2 DEF Inv, TypeOK, Workers
        <5> QED  BY <1>0, <5>1 DEF ImageCovers, Inv, TypeOK, Bytes
      <4>1. PICK v \in Workers : begin[v] <= b /\ b < end[v]
        BY <2>2 DEF ByteInv, NoByteLost, Left, Inv, TypeOK, Bytes
      <4>2. v <= mk
        BY <2>4 DEF Put, Workers
      <4> QED  BY <3>2, <4>1, <4>2 DEF Inv, TypeOK, Bytes
    <3> QED  BY <1>0, <2>3, <3>1, <3>3, <3>4 DEF ByteInv, ResumeIsSafe, ImageCovers
  <2>5. CASE PutWrite
    BY <1>0, <2>3, <2>5 DEF PutWrite, ByteInv, ResumeIsSafe, ImageCovers, CopyBehind
  <2> QED  BY <1>2, <2>4, <2>5
<1>3. CASE GenRange
  <2>1. UNCHANGED <<begin, end, pc, chunk, image, saved>> /\ mpc # "assign" /\ mpc' \notin {"write", "put"}
    BY <1>3 DEF GenRange, workerVars
  <2>2. NoByteLost'
    <3>1. CASE UNCHANGED genBegin /\ mpc' # "assign"
      BY <1>0, <2>1, <3>1 DEF ByteInv, NoByteLost, Left
    <3>2. CASE /\ fresh'.begin = genBegin /\ fresh'.end = genBegin'
               /\ mpc' = "assign" /\ genBegin' = BlockEnd(genBegin)
      <4>1. genBegin' \in Nat
        BY <3>2, BlockEndInFile DEF Inv, TypeOK
      <4> QED
        BY <1>0, <2>1, <3>2, <4>1 DEF ByteInv, NoByteLost, Left, Inv, TypeOK, Bytes
    <3> QED  BY <1>3, <3>1, <3>2 DEF GenRange
  <2> QED
    BY <1>0, <2>1, <2>2 DEF ByteInv, ChunkWritten, ResumeIsSafe, ImageCovers, CopyBehind
<1>4. CASE Assign
  <2> DEFINE w == fresh.worker
  <2>1. w \in Workers /\ pc[w] = "idle" /\ end[w] <= begin[w] /\ mpc = "assign"
    BY <1>4 DEF Assign, Inv, TypeOK, FreshIsIdle, Len
  <2>2. /\ begin' = [begin EXCEPT ![w] = fresh.begin] /\ end' = [end EXCEPT ![w] = fresh.end]
        /\ mpc' = "finish" /\ UNCHANGED <<pc, chunk, genBegin, image, saved>>
    BY <1>4 DEF Assign
  <2>3. NoByteLost'
    <3> SUFFICES ASSUME NEW b \in Bytes, b \notin written, b < genBegin
                 PROVE  \E v \in Workers : begin'[v] <= b /\ b < end'[v]
      BY <1>0, <2>2 DEF NoByteLost, Left, Inv, TypeOK, Bytes
    <3>1. CASE fresh.begin <= b /\ b < fresh.end
      BY <2>1, <2>2, <3>1 DEF Inv, TypeOK
    <3>2. CASE ~(fresh.begin <= b /\ b < fresh.end)
      <4>1. PICK v \in Workers : begin[v] <= b /\ b < end[v]
        BY <3>2 DEF ByteInv, NoByteLost, Left, Inv, TypeOK, Bytes
      <4>2. v # w
        BY <2>1, <4>1 DEF Inv, TypeOK, Bytes
      <4> QED  BY <2>2, <4>1, <4>2 DEF Inv, TypeOK
    <3> QED  BY <3>1, <3>2
  <2>4. ChunkWritten'
    BY <1>0, <2>1, <2>2 DEF ByteInv, ChunkWritten, Inv, TypeOK
  <2> QED
    BY <1>0, <2>2, <2>3, <2>4 DEF ByteInv, ResumeIsSafe, ImageCovers, CopyBehind
<1> QED  BY <1>1, <1>2, <1>3, <1>4 DEF MonitorStep, MonitorLoop, MonitorEnd

\* The new downloader starts from the breakpoint file or from the first ranges.
LEMMA RestartBytes == ASSUME Inv, ByteInv, Restart PROVE ByteInv'
<1>1. UNCHANGED <<saved, written>> /\ mpc' = "wait" /\ \A w \in Workers : pc'[w] = "idle"
  BY DEF Restart
<1>2. NoByteLost'
  <2>1. CASE saved.ok
    <3>1. begin' = saved.begin /\ end' = saved.end /\ genBegin' = saved.gen
      BY <2>1 DEF Restart
    <3> QED  BY <1>1, <2>1, <3>1
         DEF ByteInv, ResumeIsSafe, ImageCovers, NoByteLost, Left, Inv, TypeOK, Images, Bytes
  <2>2. CASE ~saved.ok
    <3>1. begin' = FirstBegin /\ end' = FirstEnd /\ genBegin' = FirstGen
      BY <2>2 DEF Restart
    <3> QED  BY <1>1, <3>1, FirstCovers, FirstRanges DEF NoByteLost, Left, Bytes
  <2> QED  BY <2>1, <2>2
<1> QED
  BY <1>1, <1>2 DEF ByteInv, ChunkWritten, ResumeIsSafe, ImageCovers, CopyBehind

LEMMA NextBytes == Inv /\ ByteInv /\ [Next]_vars => ByteInv'
<1> SUFFICES ASSUME Inv, ByteInv, [Next]_vars PROVE ByteInv'
  OBVIOUS
<1>1. CASE UNCHANGED vars \/ ExpireReset \/ CheckStep \/ Pause \/ Resume \/ Cancel \/ Terminated
  <2>1. UNCHANGED <<begin, end, chunk, genBegin, fresh, mpc, mk, image, saved, written>>
    BY <1>1 DEF vars, workerVars, monitorVars, checkVars, callVars, ExpireReset, CheckStep,
       Pause, Resume, Cancel, Terminated
  <2>2. \A w \in Workers : pc'[w] = "advance" => pc[w] = "advance"
    BY <1>1 DEF vars, workerVars, monitorVars, checkVars, callVars, ExpireReset, CheckStep,
       Pause, Resume, Cancel, Terminated, PauseCall, PauseWorker, PauseReceive, PauseMark,
       Inv, TypeOK
  <2> QED  BY <2>1, <2>2
       DEF ByteInv, NoByteLost, ChunkWritten, ResumeIsSafe, ImageCovers, CopyBehind, Left
<1> QED  BY <1>1, WorkerBytes, MonitorBytes, RestartBytes DEF Next

\* No reset, retry, restart, pause, cancellation or assignment drops a byte.
THEOREM NothingLost == Spec => []NoByteLost
<1>1. Spec => [](Inv /\ ByteInv)
  BY InitInv, NextInv, InitBytes, NextBytes, PTL DEF Spec
<1>2. ByteInv => NoByteLost
  BY DEF ByteInv
<1> QED  BY <1>1, <1>2, PTL

\* Whenever the process dies, a breakpoint file that can be read accounts for
\* every byte that is not on disk.
THEOREM ResumeSafety == Spec => []ResumeIsSafe
<1>1. Spec => [](Inv /\ ByteInv)
  BY InitInv, NextInv, InitBytes, NextBytes, PTL DEF Spec
<1>2. ByteInv => ResumeIsSafe
  BY DEF ByteInv
<1> QED  BY <1>1, <1>2, PTL

-----------------------------------------------------------------------------
(* No byte twice *)

LEMMA FirstDisjoint ==
  /\ \A v, w \in Workers : v # w =>
       \A b \in Bytes : ~(FirstBegin[v] <= b /\ b < FirstEnd[v] /\ FirstBegin[w] <= b /\ b < FirstEnd[w])
  /\ \A w \in Workers : \A b \in Bytes : FirstBegin[w] <= b /\ b < FirstEnd[w] => b < FirstGen
<1>1. \A v, w \in Workers : v < w => FirstEnd[v] <= FirstBegin[w]
  <2> SUFFICES ASSUME NEW v \in Workers, NEW w \in Workers, v < w
               PROVE  FirstEnd[v] <= FirstBegin[w]
    OBVIOUS
  <2>1. v - 1 \in Nat /\ w - 1 \in Nat /\ v - 1 < w - 1
    BY DownloaderAssumption DEF Workers
  <2>2. /\ (v - 1) * BlockSize \in Nat
        /\ (v - 1) * BlockSize + BlockSize <= (w - 1) * BlockSize
    BY <2>1, BlocksInOrder
  <2>3. BlockEnd((v - 1) * BlockSize) <= (v - 1) * BlockSize + BlockSize
    BY <2>2, BlockEndInFile
  <2>4. /\ FirstEnd[v] = BlockEnd((v - 1) * BlockSize) /\ FirstBegin[w] = (w - 1) * BlockSize
    BY DEF FirstEnd, FirstBegin
  <2>5. BlockEnd((v - 1) * BlockSize) \in Nat /\ (w - 1) * BlockSize \in Int
    BY <2>1, <2>2, BlockEndInFile, DownloaderAssumption
  <2> QED  BY <2>2, <2>3, <2>4, <2>5, DownloaderAssumption
<1>2. N \in Workers /\ FirstEnd[N] = FirstGen
  BY DownloaderAssumption DEF FirstEnd, FirstGen, Workers
<1>3. \A w \in Workers : FirstEnd[w] <= FirstGen
  <2> SUFFICES ASSUME NEW w \in Workers PROVE FirstEnd[w] <= FirstGen
    OBVIOUS
  <2>1. CASE w = N
    BY <1>2, <2>1, FirstRanges
  <2>2. CASE w # N
    <3>1. w < N
      BY <2>2, DownloaderAssumption DEF Workers
    <3>2. FirstEnd[w] <= (N - 1) * BlockSize
      BY <1>1, <1>2, <3>1 DEF FirstBegin
    <3>3. (N - 1) * BlockSize \in Nat /\ (N - 1) * BlockSize < Total
      BY DownloaderAssumption
    <3>4. (N - 1) * BlockSize <= FirstGen
      BY <3>3, BlockEndInFile, DownloaderAssumption DEF FirstGen
    <3> QED  BY <3>2, <3>3, <3>4, FirstRanges
  <2> QED  BY <2>1, <2>2
<1>4. \A v, w \in Workers : v # w => v < w \/ w < v
  BY DownloaderAssumption DEF Workers
<1> QED  BY <1>1, <1>3, <1>4, FirstRanges DEF Bytes

LEMMA FirstImageDisjoint ==
  ASSUME NEW im, im.begin = FirstBegin, im.end = FirstEnd, im.gen = FirstGen
  PROVE  ImageDisjoint(im)
BY FirstDisjoint DEF ImageDisjoint

LEMMA InitDisjoint == Init => DisjointInv
<1> SUFFICES ASSUME Init PROVE DisjointInv
  OBVIOUS
<1>1. ImageDisjoint(Live)
  BY FirstImageDisjoint DEF Init, Start, Live
<1> QED  BY <1>1 DEF Init, Start, FirstImage, DisjointInv, CopyDisjoint

LEMMA WorkerDisjoint == ASSUME Inv, DisjointInv, NEW w \in Workers, WorkerStep(w) PROVE DisjointInv'
<1>1. UNCHANGED <<end, genBegin, fresh, mpc, mk, image, saved>>
  BY DEF WorkerStep, monitorVars, ExecStart, Respond, Select, Read, Write, Advance
<1>2. \A v \in Workers : begin'[v] \in Nat /\ begin[v] <= begin'[v]
  BY DEF WorkerStep, ExecStart, Respond, Select, Read, Write, Advance, Inv, TypeOK
<1>3. \A v \in Workers : \A b \in Bytes : begin'[v] <= b => begin[v] <= b
  BY <1>2 DEF Inv, TypeOK, Bytes
<1>4. ImageDisjoint(Live)'
  BY <1>1, <1>3 DEF DisjointInv, ImageDisjoint, Live
<1>5. CopyDisjoint'
  BY <1>1, <1>3 DEF DisjointInv, CopyDisjoint
<1> QED  BY <1>1, <1>3, <1>4, <1>5 DEF DisjointInv, ImageDisjoint

\* One more range is copied: it is what the worker holds now, which no earlier
\* copy has a byte of.
LEMMA PutDisjoint == ASSUME Inv, DisjointInv, Put PROVE DisjointInv'
<1>1. UNCHANGED <<begin, end, genBegin>> /\ mpc = "put" /\ mpc' # "assign" /\ mk \in Workers
  BY DEF Put, workerVars, Inv, TypeOK
<1>2. /\ image'.gen = genBegin
      /\ image'.begin = [image.begin EXCEPT ![mk] = begin[mk]]
      /\ image'.end = [image.end EXCEPT ![mk] = end[mk]]
      /\ image.begin \in [Workers -> Nat] /\ image.end \in [Workers -> Nat]
  BY DEF Put, Copied, Inv, TypeOK, Images
<1>3. \A v \in Workers : \A b \in Bytes : begin[v] <= b /\ b < end[v] =>
        b < genBegin /\ \A w \in Workers \ {v} : ~(begin[w] <= b /\ b < end[w])
  BY DEF DisjointInv, ImageDisjoint, Live
<1>4. ASSUME NEW v \in Workers, v <= mk, NEW b \in Bytes, image'.begin[v] <= b, b < image'.end[v]
      PROVE  /\ b < genBegin
             /\ \A w \in Workers \ {v} :
                  /\ ~(begin[w] <= b /\ b < end[w])
                  /\ w <= mk => ~(image'.begin[w] <= b /\ b < image'.end[w])
  <2>1. \A w \in Workers : w <= mk => w < mk \/ w = mk
    BY <1>1 DEF Workers
  <2>2. CASE v = mk
    <3>1. begin[v] <= b /\ b < end[v]
      BY <1>1, <1>2, <1>4, <2>2
    <3>2. \A w \in Workers \ {v} : w <= mk => ~(image'.begin[w] <= b /\ b < image'.end[w])
      BY <1>1, <1>2, <2>1, <2>2, <3>1 DEF DisjointInv, CopyDisjoint
    <3> QED  BY <1>3, <3>1, <3>2
  <2>3. CASE v < mk
    <3>1. v # mk /\ image.begin[v] <= b /\ b < image.end[v]
      BY <1>1, <1>2, <1>4, <2>3 DEF Workers
    <3>2. /\ b < genBegin
          /\ \A w \in Workers \ {v} :
               /\ ~(begin[w] <= b /\ b < end[w])
               /\ w < mk => ~(image.begin[w] <= b /\ b < image.end[w])
      BY <1>1, <2>3, <3>1 DEF DisjointInv, CopyDisjoint
    <3>3. \A w \in Workers \ {v} : w <= mk => ~(image'.begin[w] <= b /\ b < image'.end[w])
      BY <1>2, <2>1, <3>2
    <3> QED  BY <3>2, <3>3
  <2> QED  BY <1>4, <2>1, <2>2, <2>3
<1>5. CopyDisjoint'
  <2>1. mpc' = "put" => \A v \in Workers : v < mk' => v <= mk
    BY <1>1 DEF Put, Workers
  <2> QED  BY <1>1, <1>2, <1>4, <2>1 DEF CopyDisjoint
<1>6. (mpc = "write" => ImageDisjoint(image))'
  <2>1. mpc' = "write" => \A v \in Workers : v <= mk
    BY DEF Put, Workers
  <2> QED  BY <1>2, <1>4, <2>1 DEF ImageDisjoint
<1>7. (saved.ok => ImageDisjoint(saved))'
  BY DEF Put, DisjointInv, ImageDisjoint, Inv, TypeOK, Images
<1>8. ImageDisjoint(Live)'
  BY <1>1 DEF DisjointInv, ImageDisjoint, Live
<1> QED  BY <1>1, <1>5, <1>6, <1>7, <1>8 DEF DisjointInv

LEMMA MonitorDisjoint == ASSUME Inv, DisjointInv, MonitorStep PROVE DisjointInv'
<1>1. CASE Tick \/ CheckFailed \/ ResetFailed \/ EndTick \/ Finish \/ PutWrite
  <2>1. UNCHANGED <<begin, end, genBegin>> /\ mpc' \notin {"assign", "write"}
    BY <1>1 DEF Tick, CheckFailed, ResetFailed, EndTick, Finish, Report, PutWrite, workerVars, ToNextWorker
  <2>2. ImageDisjoint(Live)'
    BY <2>1 DEF DisjointInv, ImageDisjoint, Live
  <2>3. (saved.ok => ImageDisjoint(saved))'
    BY <1>1 DEF DisjointInv, ImageDisjoint, Inv, TypeOK, Images, Tick, CheckFailed, ResetFailed,
       EndTick, Finish, Report, PutWrite
  <2>4. CopyDisjoint'
    BY <1>1 DEF CopyDisjoint, Tick, CheckFailed, ResetFailed, EndTick, Finish, Report, PutWrite,
       ToNextWorker, Workers, Inv, TypeOK
  <2> QED  BY <2>1, <2>2, <2>3, <2>4 DEF DisjointInv
<1>2. CASE GenRange
  <2>1. UNCHANGED <<begin, end, saved, image>> /\ mpc' \notin {"write", "put"}
    BY <1>2 DEF GenRange, workerVars
  <2>2. genBegin' \in Nat /\ genBegin <= genBegin'
    BY <1>2, BlockEndInFile, DownloaderAssumption DEF GenRange, GenDone, Inv, TypeOK
  <2>3. ImageDisjoint(Live)'
    BY <2>1, <2>2 DEF DisjointInv, ImageDisjoint, Live, Inv, TypeOK, Bytes
  <2>4. mpc' = "assign" => fresh'.begin = genBegin /\ fresh'.end = genBegin'
    BY <1>2 DEF GenRange
  <2>5. mpc' = "assign" => \A w \in Workers : \A b \in Bytes :
            ~(begin[w] <= b /\ b < end[w] /\ fresh'.begin <= b /\ b < fresh'.end)
    BY <2>4 DEF DisjointInv, ImageDisjoint, Live, Inv, TypeOK, Bytes
  <2> QED  BY <2>1, <2>2, <2>3, <2>4, <2>5 DEF DisjointInv, ImageDisjoint, CopyDisjoint
<1>3. CASE Assign
  <2> DEFINE w == fresh.worker
  <2>1. w \in Workers /\ fresh.begin \in Nat /\ fresh.end \in Nat /\ mpc = "assign"
    BY <1>3 DEF Assign, Inv, TypeOK
  <2>2. /\ begin' = [begin EXCEPT ![w] = fresh.begin] /\ end' = [end EXCEPT ![w] = fresh.end]
        /\ mpc' = "finish" /\ UNCHANGED <<genBegin, image, saved>>
    BY <1>3 DEF Assign
  <2>3. ImageDisjoint(Live)'
    BY <2>1, <2>2 DEF DisjointInv, ImageDisjoint, Live, Inv, TypeOK, Bytes
  <2> QED  BY <2>2, <2>3 DEF DisjointInv, ImageDisjoint, CopyDisjoint
<1> QED  BY <1>1, <1>2, <1>3, PutDisjoint DEF MonitorStep, MonitorLoop, MonitorEnd

LEMMA RestartDisjoint == ASSUME Inv, DisjointInv, Restart PROVE DisjointInv'
<1>1. UNCHANGED saved /\ mpc' = "wait"
  BY DEF Restart
<1>2. ImageDisjoint(Live)'
  <2>1. CASE saved.ok
    BY <2>1 DEF Restart, DisjointInv, ImageDisjoint, Live
  <2>2. CASE ~saved.ok
    BY <2>2, FirstDisjoint DEF Restart, ImageDisjoint, Live
  <2> QED  BY <2>1, <2>2
<1> QED  BY <1>1, <1>2 DEF DisjointInv, ImageDisjoint, CopyDisjoint

LEMMA NextDisjoint == Inv /\ DisjointInv /\ [Next]_vars => DisjointInv'
<1> SUFFICES ASSUME Inv, DisjointInv, [Next]_vars PROVE DisjointInv'
  OBVIOUS
<1>1. CASE UNCHANGED vars \/ ExpireReset \/ CheckStep \/ Pause \/ Resume \/ Cancel \/ Terminated
  <2>1. UNCHANGED <<begin, end, genBegin, fresh, mpc, mk, image, saved>>
    BY <1>1 DEF vars, workerVars, monitorVars, checkVars, callVars, ExpireReset, CheckStep,
       Pause, Resume, Cancel, Terminated
  <2> QED  BY <2>1 DEF DisjointInv, ImageDisjoint, CopyDisjoint, Live
<1> QED  BY <1>1, WorkerDisjoint, MonitorDisjoint, RestartDisjoint DEF Next

\* No byte is in the hands of two workers, or of a worker and the generator,
\* after any history of assignments, retries and resumptions.
THEOREM NothingTwice == Spec => []RangesDisjoint
<1>1. Spec => [](Inv /\ DisjointInv)
  BY InitInv, NextInv, InitDisjoint, NextDisjoint, PTL DEF Spec
<1>2. Inv /\ DisjointInv => RangesDisjoint
  BY DownloaderAssumption DEF DisjointInv, ImageDisjoint, Live, RangesDisjoint, Left, Bytes, RangesInFile, Inv, TypeOK
<1> QED  BY <1>1, <1>2, PTL

-----------------------------------------------------------------------------
(* A running Execute keeps its range *)

LEMMA StepStable ==
  ASSUME Inv, Next, NEW w \in Workers, pc[w] # "idle", pc'[w] # "idle"
  PROVE  end'[w] = end[w] /\ begin'[w] \in {begin[w], begin[w] + chunk[w]}
<1>1. CASE \E v \in Workers : WorkerStep(v)
  BY <1>1 DEF WorkerStep, ExecStart, Respond, Select, Read, Write, Advance, Inv, TypeOK
<1>2. CASE MonitorStep
  <2>1. CASE Assign
    <3>1. w # fresh.worker
      BY <2>1 DEF Assign, Inv, FreshIsIdle
    <3> QED  BY <2>1, <3>1 DEF Assign, Inv, TypeOK
  <2>2. CASE ~Assign
    BY <1>2, <2>2 DEF MonitorStep, MonitorLoop, MonitorEnd, Tick, Finish, Report, CheckFailed,
       ResetFailed, Put, PutWrite, GenRange, EndTick, workerVars
  <2> QED  BY <2>1, <2>2
<1>3. CASE ExpireReset \/ CheckStep \/ Pause \/ Resume \/ Cancel \/ Terminated
  BY <1>3 DEF ExpireReset, CheckStep, Pause, Resume, Cancel, Terminated, vars, workerVars
<1>4. CASE Restart
  BY <1>4 DEF Restart
<1> QED  BY <1>1, <1>2, <1>3, <1>4 DEF Next

\* TryAddNewWork never stores a new range into a worker that is downloading,
\* whatever Executes are queued up and however stale the status it looked at.
THEOREM RangeStability == Spec => RangeIsStable
<1>1. Inv /\ [Next]_vars =>
        [\A w \in Workers :
           pc[w] # "idle" /\ pc'[w] # "idle" =>
             /\ end'[w] = end[w]
             /\ begin'[w] \in {begin[w], begin[w] + chunk[w]}]_vars
  BY StepStable
<1>2. Spec => []Inv
  BY InitInv, NextInv, PTL DEF Spec
<1> QED  BY <1>1, <1>2, PTL DEF Spec, RangeIsStable

-----------------------------------------------------------------------------
(* No worker is forgotten *)

LEMMA WorkerRemembered ==
  ASSUME TypeOK, NoWorkerForgotten, NEW w \in Workers, WorkerStep(w) PROVE NoWorkerForgotten'
<1>1. pauser' = pauser /\ \A v \in Workers \ {w} :
        status'[v] = status[v] /\ pc'[v] = pc[v] /\ queue'[v] = queue[v]
  BY DEF WorkerStep, callVars, ExecStart, Respond, Select, Read, Write, Advance, Return, TypeOK
<1>2. pc'[w] # "idle" \/
      status'[w] \in {"Successed", "NetError", "TooMany", "InternalError", "Canceled", "Reseted", "Failed"}
  BY DEF WorkerStep, ExecStart, Respond, Select, Read, Write, Advance, Return, TypeOK
<1> QED  BY <1>1, <1>2 DEF NoWorkerForgotten

LEMMA OtherRemembered ==
  ASSUME TypeOK, NoWorkerForgotten, Next, ~\E w \in Workers : WorkerStep(w)
  PROVE  NoWorkerForgotten'
<1>1. CASE MonitorStep
  <2>1. UNCHANGED <<pc, pauser>>
    BY <1>1 DEF MonitorStep, MonitorLoop, MonitorEnd, MonitorRest, Tick, Finish, Report, CheckFailed,
       ResetFailed, Put, PutWrite, GenRange, Assign, EndTick, workerVars
  <2>2. \A w \in Workers : queue[w] > 0 => queue'[w] > 0
    BY <1>1 DEF MonitorStep, MonitorLoop, MonitorEnd, Launch, Tick, Finish, Report, CheckFailed,
       ResetFailed, Put, PutWrite, GenRange, Assign, EndTick, workerVars, TypeOK
  <2>3. \A w \in Workers : status'[w] = status[w] \/ queue'[w] > 0
    BY <1>1 DEF MonitorStep, MonitorLoop, MonitorEnd, Launch, Tick, Finish, Report, CheckFailed,
       ResetFailed, Put, PutWrite, GenRange, Assign, EndTick, workerVars, TypeOK
  <2> QED  BY <2>1, <2>2, <2>3 DEF NoWorkerForgotten
<1>2. CASE Pause
  <2>1. queue' = queue
    BY <1>2 DEF Pause
  <2>2. CASE PauseCall \/ PauseWorker
    BY <2>1, <2>2 DEF PauseCall, PauseWorker, NoWorkerForgotten
  <2>3. CASE PauseReceive
    BY <2>1, <2>3 DEF PauseReceive, NoWorkerForgotten, TypeOK
  <2>4. CASE PauseMark
    BY <2>1, <2>4 DEF PauseMark, MarkPaused, NoWorkerForgotten, TypeOK
  <2> QED  BY <1>2, <2>2, <2>3, <2>4 DEF Pause
<1>3. CASE Resume
  BY <1>3 DEF Resume, callVars, NoWorkerForgotten, TypeOK
<1>4. CASE Restart
  BY <1>4 DEF Restart, NoWorkerForgotten
<1>5. CASE ExpireReset \/ CheckStep \/ Cancel \/ Terminated
  BY <1>5 DEF ExpireReset, CheckStep, Cancel, Terminated, vars, workerVars, callVars, NoWorkerForgotten
<1> QED  BY <1>1, <1>2, <1>3, <1>4, <1>5 DEF Next

\* A worker that is neither complete, failed, paused nor reset always has a
\* goroutine that will go on with it.
THEOREM NobodyForgotten == Spec => []NoWorkerForgotten
<1>1. Init => NoWorkerForgotten
  BY DEF Init, Start, NoWorkerForgotten
<1>2. TypeOK /\ NoWorkerForgotten /\ [Next]_vars => NoWorkerForgotten'
  <2>1. TypeOK /\ NoWorkerForgotten /\ UNCHANGED vars => NoWorkerForgotten'
    BY DEF vars, workerVars, callVars, NoWorkerForgotten
  <2> QED  BY <2>1, WorkerRemembered, OtherRemembered
<1> QED  BY <1>1, <1>2, TypeCorrect, PTL DEF Spec

-----------------------------------------------------------------------------
(* Success means that the file is there                                       *)
(*                                                                            *)
(* It is not so in general: the runs DownloaderRace and DownloaderCancel show *)
(* a range handed out behind the back of the completion goroutine, and a      *)
(* cancellation that is reported as a success.  Without these two it is so.   *)

\* SelectBlockSizeAndInitRangeGen took Total \div parallel + 1 as block size: the
\* first ranges hold the whole file (downloader.go:150-155).
AllHandedOut == N * BlockSize >= Total

\* Nobody calls Cancel.
NoCancel == "cancel" \notin Events

AllEmpty == \A w \in Workers : Len(w) <= 0

\* The generator is and stays at the end, in the breakpoint data as well.
AllGenerated ==
  /\ genBegin >= Total /\ image.gen >= Total /\ saved.gen >= Total
  /\ mpc # "assign"

\* No context of a worker is ever canceled.
NeverCanceled == ~cancelReq /\ \A w \in Workers : ~canceled[w]

\* Without a cancellation a complete worker has nothing left, whatever stage
\* the monitor is in.
CompletedIsEmpty == \A w \in Workers : Completed(w) => Len(w) <= 0

\* If every worker counted so far was complete, their ranges are empty now; the
\* channel is closed without an error, and success reported, on such a count.
CountIsLasting ==
  /\ ck # 0 => done <= ck - 1 /\ (done = ck - 1 => \A w \in 1..(ck - 1) : Len(w) <= 0)
  /\ completed /\ ~mtErr => AllEmpty
  /\ outcome = "success" => AllEmpty

SuccessInv == AllGenerated /\ NeverCanceled /\ CompletedIsEmpty /\ CountIsLasting

LEMMA FirstGenAtEnd == ASSUME AllHandedOut PROVE FirstGen >= Total
<1>1. (N - 1) * BlockSize + BlockSize = N * BlockSize /\ (N - 1) * BlockSize \in Int
  BY DownloaderAssumption
<1> QED  BY <1>1, DownloaderAssumption DEF AllHandedOut, FirstGen, BlockEnd

\* Without a range to generate, TryAddNewWork does nothing.
LEMMA StaysGenerated ==
  ASSUME AllHandedOut
  PROVE  /\ Init => AllGenerated
         /\ Inv /\ AllGenerated /\ [Next]_vars => AllGenerated'
<1>1. Init => AllGenerated
  BY FirstGenAtEnd DEF Init, Start, FirstImage, AllGenerated
<1>2. ASSUME Inv, AllGenerated, MonitorStep PROVE AllGenerated'
  <2>1. ~Assign
    BY <1>2 DEF Assign, AllGenerated
  <2>2. genBegin' = genBegin /\ mpc' # "assign"
    BY <1>2, <2>1 DEF MonitorStep, MonitorLoop, MonitorEnd, Tick, Finish, Report, CheckFailed,
       ResetFailed, Put, PutWrite, GenRange, GenDone, EndTick, ToNextWorker, AllGenerated
  <2>3. image'.gen >= Total
    BY <1>2, <2>1 DEF MonitorStep, MonitorLoop, MonitorEnd, Tick, Finish, Report, CheckFailed,
       ResetFailed, Put, Copied, PutWrite, GenRange, EndTick, AllGenerated, Inv, TypeOK, Images
  <2>4. saved'.gen >= Total
    BY <1>2, <2>1 DEF MonitorStep, MonitorLoop, MonitorEnd, Tick, Finish, Report, CheckFailed,
       ResetFailed, Put, PutWrite, GenRange, EndTick, AllGenerated, Inv, TypeOK, Images
  <2> QED  BY <1>2, <2>2, <2>3, <2>4 DEF AllGenerated
<1>3. ASSUME AllGenerated, Restart PROVE AllGenerated'
  BY <1>3, FirstGenAtEnd DEF Restart, FirstImage, AllGenerated
<1>4. ASSUME AllGenerated, \/ UNCHANGED vars \/ (\E w \in Workers : WorkerStep(w)) \/ ExpireReset
                          \/ CheckStep \/ Pause \/ Resume \/ Cancel \/ Terminated
      PROVE  AllGenerated'
  <2>1. UNCHANGED <<genBegin, image, saved, mpc>>
    BY <1>4 DEF vars, monitorVars, WorkerStep, ExpireReset, CheckStep, Pause, Resume, Cancel,
       Terminated
  <2> QED  BY <1>4, <2>1 DEF AllGenerated
<1> QED  BY <1>1, <1>2, <1>3, <1>4 DEF Next

LEMMA InitSuccess == ASSUME AllHandedOut PROVE Init => SuccessInv
<1>1. 1..0 = {}
  OBVIOUS
<1>2. Init => AllGenerated
  BY StaysGenerated
<1> QED  BY <1>1, <1>2
         DEF Init, Start, SuccessInv, NeverCanceled, CompletedIsEmpty, CountIsLasting, Completed

\* The beginning of a range only moves towards its end: what is empty stays so.
LEMMA EmptyStaysEmpty ==
  ASSUME Inv, UNCHANGED end,
         \A w \in Workers : begin'[w] \in Nat /\ begin[w] <= begin'[w]
  PROVE  \A w \in Workers : Len(w) <= 0 => Len(w)' <= 0
BY DEF Inv, TypeOK, Len

LEMMA CountLasts ==
  ASSUME Inv, CountIsLasting, UNCHANGED <<checkVars, outcome>>,
         \A w \in Workers : Len(w) <= 0 => Len(w)' <= 0
  PROVE  CountIsLasting'
<1>1. ck # 0 => 1..(ck - 1) \subseteq Workers
  BY DownloaderAssumption DEF Inv, TypeOK, Workers
<1> QED  BY <1>1 DEF checkVars, CountIsLasting, AllEmpty

\* Of the statuses that count as complete, a worker sets "Canceled" for want of a
\* range only, its context being alive, and "Successed" at the end of its range.
LEMMA WorkerSuccess == ASSUME Inv, SuccessInv, NEW w \in Workers, WorkerStep(w) PROVE SuccessInv'
<1>1. UNCHANGED <<end, monitorVars, checkVars, callVars>>
  BY DEF WorkerStep, ExecStart, Respond, Select, Read, Write, Advance
<1>2. \A v \in Workers : begin'[v] \in Nat /\ begin[v] <= begin'[v]
  BY DEF WorkerStep, ExecStart, Respond, Select, Read, Write, Advance, Inv, TypeOK
<1>3. \A v \in Workers : Len(v) <= 0 => Len(v)' <= 0
  BY <1>1, <1>2, EmptyStaysEmpty
<1>4. \A v \in Workers : ~canceled'[v]
  BY DEF WorkerStep, ExecStart, Respond, Select, Read, Write, Advance, Inv, TypeOK,
     SuccessInv, NeverCanceled
<1>5. CompletedIsEmpty'
  <2>1. \A v \in Workers \ {w} : status'[v] = status[v]
    BY DEF WorkerStep, ExecStart, Respond, Select, Read, Write, Advance, Return, Inv, TypeOK
  <2>2. Completed(w)' => Len(w)' <= 0
    <3>1. CASE ExecStart(w) \/ Read(w)
      <4>1. begin' = begin
        BY <3>1 DEF ExecStart, Read
      <4>2. status'[w] \in {"Pending", "WaitToWrite"} \/ Len(w) <= 0
        BY <3>1 DEF ExecStart, Read, Return, Inv, TypeOK
      <4> QED  BY <4>2, <1>3 DEF Completed
    <3>2. CASE Respond(w) \/ Select(w) \/ Write(w)
      <4>1. ~canceled[w]
        BY DEF SuccessInv, NeverCanceled
      <4>2. \/ status'[w] \in {"NetError", "TooMany", "InternalError", "Reseted", "Downloading"}
            \/ status'[w] = status[w]
        BY <3>2, <4>1 DEF Respond, Select, Write, Return, Inv, TypeOK
      <4> QED  BY <4>2, <1>3 DEF Completed, SuccessInv, CompletedIsEmpty
    <3>3. CASE Advance(w)
      <4>1. begin'[w] = begin[w] + chunk[w] /\ end'[w] = end[w]
        BY <3>3 DEF Advance, Inv, TypeOK
      <4>2. \/ status'[w] = "Successed" /\ Len(w) <= chunk[w]
            \/ status'[w] = "Failed"
            \/ status'[w] = status[w]
        BY <3>3 DEF Advance, Return, Inv, TypeOK
      <4>3. Len(w) <= chunk[w] => Len(w)' <= 0
        BY <4>1 DEF Len, Inv, TypeOK
      <4> QED  BY <4>2, <4>3, <1>3 DEF Completed, SuccessInv, CompletedIsEmpty
    <3> QED  BY <3>1, <3>2, <3>3 DEF WorkerStep
  <2> QED  BY <1>3, <2>1, <2>2 DEF SuccessInv, CompletedIsEmpty, Completed
<1>6. CountIsLasting'
  BY <1>1, <1>3, CountLasts DEF callVars, SuccessInv
<1> QED
  BY <1>1, <1>4, <1>5, <1>6 DEF SuccessInv, NeverCanceled, AllGenerated, monitorVars, callVars

\* The monitor has no range to hand out, and ends on `completed` only.
LEMMA MonitorSuccess == ASSUME Inv, SuccessInv, MonitorStep PROVE NeverCanceled' /\ CompletedIsEmpty' /\ CountIsLasting'
<1>1. UNCHANGED <<checkVars, cancelReq>>
  BY DEF MonitorStep, MonitorLoop, MonitorEnd, MonitorRest
<1>2. ~Assign
  BY DEF Assign, SuccessInv, AllGenerated
<1>3. UNCHANGED <<begin, end>>
  BY <1>2 DEF MonitorStep, MonitorLoop, MonitorEnd, Tick, Finish, Report, CheckFailed,
     ResetFailed, Put, PutWrite, GenRange, EndTick, workerVars
<1>4. \A w \in Workers : status'[w] = status[w] \/ status'[w] = "Init"
  BY <1>2 DEF MonitorStep, MonitorLoop, MonitorEnd, Tick, Finish, Report, CheckFailed,
     ResetFailed, Put, PutWrite, GenRange, EndTick, workerVars, Inv, TypeOK
<1>5. canceled' = canceled
  BY <1>2 DEF MonitorStep, MonitorLoop, MonitorEnd, Tick, Finish, Report, CheckFailed,
     ResetFailed, Put, PutWrite, GenRange, EndTick, workerVars, SuccessInv, NeverCanceled
<1>6. NeverCanceled'
  BY <1>1, <1>5 DEF SuccessInv, NeverCanceled
<1>7. CompletedIsEmpty'
  BY <1>3, <1>4 DEF SuccessInv, CompletedIsEmpty, Completed, Len
<1>8. outcome' = "success" => AllEmpty'
  <2>1. CASE Finish
    <3>1. completed
      BY <2>1 DEF Finish, SuccessInv, NeverCanceled
    <3>2. outcome' = "success" => ~mtErr
      BY <2>1 DEF Finish, Report
    <3> QED  BY <1>3, <3>1, <3>2 DEF SuccessInv, CountIsLasting, AllEmpty, Len
  <2>2. CASE ~Finish
    <3>1. outcome' = outcome
      BY <1>2, <2>2 DEF MonitorStep, MonitorLoop, MonitorEnd, Tick, CheckFailed, ResetFailed,
         Put, PutWrite, GenRange, EndTick
    <3> QED  BY <1>3, <3>1 DEF SuccessInv, CountIsLasting, AllEmpty, Len
  <2> QED  BY <2>1, <2>2
<1>9. CountIsLasting'
  BY <1>1, <1>3, <1>8 DEF SuccessInv, CountIsLasting, AllEmpty, Len, checkVars
<1> QED  BY <1>6, <1>7, <1>9

\* The completion goroutine counts a worker only when its range is empty.
LEMMA CheckSuccess == ASSUME Inv, SuccessInv, CheckStep PROVE SuccessInv'
<1>1. UNCHANGED <<workerVars, monitorVars, callVars>>
  BY DEF CheckStep
<1>2. \A w \in Workers : Len(w)' = Len(w)
  BY <1>1 DEF workerVars, Len
<1>3. AllGenerated' /\ NeverCanceled' /\ CompletedIsEmpty'
  BY <1>1 DEF workerVars, monitorVars, callVars, SuccessInv, AllGenerated, NeverCanceled,
     CompletedIsEmpty, Completed, Len
<1>4. CountIsLasting'
  <2>1. CASE CountWorker
    <3>1. ck \in Workers /\ ck \in Int /\ ck >= 1 /\ done \in Nat
      BY <2>1, DownloaderAssumption DEF CountWorker, Workers, Inv, TypeOK
    <3>2. CASE Fatal(ck)
      BY <1>1, <1>2, <2>1, <3>2 DEF CountWorker, SuccessInv, CountIsLasting, AllEmpty, callVars
    <3>3. CASE ~Fatal(ck)
      <4>1. /\ ck' = ck + 1 /\ UNCHANGED <<completed, mtErr>>
            /\ done' = IF Completed(ck) THEN done + 1 ELSE done
        BY <2>1, <3>1, <3>3 DEF CountWorker
      <4>2. done <= ck - 1 /\ (done = ck - 1 => \A w \in 1..(ck - 1) : Len(w) <= 0)
        BY <3>1 DEF SuccessInv, CountIsLasting
      <4>3. done' <= ck' - 1
        BY <3>1, <4>1, <4>2
      <4>4. ASSUME done' = ck' - 1, NEW w \in 1..(ck' - 1) PROVE Len(w)' <= 0
        <5>1. Completed(ck) /\ done = ck - 1
          BY <3>1, <4>1, <4>2, <4>4
        <5>2. w \in Workers /\ (w = ck \/ w \in 1..(ck - 1))
          BY <3>1, <4>1, DownloaderAssumption DEF Workers
        <5>3. Len(w) <= 0
          BY <3>1, <4>2, <5>1, <5>2 DEF SuccessInv, CompletedIsEmpty
        <5> QED  BY <1>2, <5>2, <5>3
      <4>5. /\ completed' /\ ~mtErr' => AllEmpty'
            /\ outcome' = "success" => AllEmpty'
        BY <1>1, <1>2, <4>1 DEF SuccessInv, CountIsLasting, AllEmpty, callVars
      <4> QED  BY <4>3, <4>4, <4>5 DEF CountIsLasting
    <3> QED  BY <3>2, <3>3
  <2>2. CASE CountEnd
    <3>1. ck = N + 1 /\ done' = 0 /\ UNCHANGED mtErr /\ done \in Nat
      BY <2>2 DEF CountEnd, Inv, TypeOK
    <3>2. done >= N => AllEmpty
      <4>1. done <= N /\ (done = N => \A w \in 1..N : Len(w) <= 0)
        BY <3>1, DownloaderAssumption DEF SuccessInv, CountIsLasting
      <4> QED  BY <3>1, <4>1, DownloaderAssumption DEF AllEmpty, Workers
    <3>3. (completed' /\ ~mtErr') => AllEmpty
      <4>1. done >= N \/ completed' = completed
        BY <2>2 DEF CountEnd
      <4>2. completed /\ ~mtErr => AllEmpty
        BY DEF SuccessInv, CountIsLasting
      <4> QED  BY <3>1, <3>2, <4>1, <4>2
    <3>4. ck' = 0 \/ ck' = 1
      BY <2>2 DEF CountEnd
    <3>5. 1..(1 - 1) = {}
      OBVIOUS
    <3> QED
      BY <1>1, <1>2, <3>1, <3>3, <3>4, <3>5 DEF SuccessInv, CountIsLasting, AllEmpty, callVars
  <2> QED  BY <2>1, <2>2 DEF CheckStep
<1> QED  BY <1>3, <1>4 DEF SuccessInv

LEMMA OtherSuccess ==
  ASSUME NoCancel, Inv, SuccessInv,
         UNCHANGED vars \/ ExpireReset \/ Pause \/ Resume \/ Cancel \/ Terminated
  PROVE  SuccessInv'
<1>1. ~Cancel
  BY DEF NoCancel, Cancel, Happens
<1>2. UNCHANGED <<begin, end, canceled, genBegin, image, saved, checkVars, cancelReq, outcome, mpc>>
  BY <1>1 DEF vars, workerVars, monitorVars, checkVars, callVars, ExpireReset, Pause, Resume,
     Terminated
<1>3. \A w \in Workers : status'[w] = status[w] \/ status'[w] = "Paused"
  BY <1>1 DEF vars, workerVars, ExpireReset, Pause, PauseCall, PauseWorker, PauseReceive,
     PauseMark, MarkPaused, Resume, Terminated, Inv, TypeOK
<1>4. CountIsLasting'
  BY <1>2, CountLasts DEF SuccessInv, Len
<1>5. CompletedIsEmpty'
  BY <1>2, <1>3 DEF SuccessInv, CompletedIsEmpty, Completed, Len
<1> QED  BY <1>2, <1>4, <1>5 DEF SuccessInv, AllGenerated, NeverCanceled

LEMMA RestartSuccess == Restart => NeverCanceled' /\ CompletedIsEmpty' /\ CountIsLasting'
<1>1. 1..0 = {}
  OBVIOUS
<1> QED  BY <1>1 DEF Restart, NeverCanceled, CompletedIsEmpty, CountIsLasting, Completed

LEMMA NextSuccess ==
  ASSUME AllHandedOut, NoCancel PROVE Inv /\ SuccessInv /\ [Next]_vars => SuccessInv'
<1> SUFFICES ASSUME Inv, SuccessInv, [Next]_vars PROVE SuccessInv'
  OBVIOUS
<1>1. AllGenerated'
  BY StaysGenerated DEF SuccessInv
<1> QED  BY <1>1, WorkerSuccess, MonitorSuccess, CheckSuccess, OtherSuccess, RestartSuccess
         DEF Next, SuccessInv

\* When the first ranges hold the whole file and nobody cancels, the success
\* event and the removal of the breakpoint file mean that every byte is on disk,
\* whatever connections fail, workers pause and processes die on the way.
THEOREM SuccessIsReal ==
  ASSUME AllHandedOut, NoCancel PROVE Spec => []SuccessMeansDownloaded
<1>1. Init => SuccessInv
  BY InitSuccess
<1>2. Inv /\ SuccessInv /\ [Next]_vars => SuccessInv'
  BY NextSuccess
<1>3. Spec => [](Inv /\ ByteInv /\ SuccessInv)
  BY <1>1, <1>2, InitInv, NextInv, InitBytes, NextBytes, PTL DEF Spec
<1>4. Inv /\ ByteInv /\ SuccessInv => SuccessMeansDownloaded
  <2> SUFFICES ASSUME Inv, ByteInv, SuccessInv, outcome = "success"
               PROVE  written = Bytes
    BY DEF SuccessMeansDownloaded
  <2>1. ASSUME NEW b \in Bytes PROVE b \in written
    <3>1. ~\E w \in Workers : b \in Left(w)
      BY DEF SuccessInv, CountIsLasting, AllEmpty, Len, Left, Inv, TypeOK, Bytes
    <3>2. b < genBegin /\ mpc # "assign"
      BY DownloaderAssumption DEF SuccessInv, AllGenerated, Inv, TypeOK, Bytes
    <3> QED  BY <3>1, <3>2 DEF ByteInv, NoByteLost, Inv, TypeOK, Bytes
  <2> QED  BY <2>1 DEF Inv, TypeOK
<1> QED  BY <1>3, <1>4, PTL

-----------------------------------------------------------------------------
(* The downloader implements Transfer                                         *)

\* Execute returns exactly when the monitor ends.
EndsOnce == outcome = "running" <=> mpc # "done"

LEMMA EndsWithMonitor ==
  /\ Init => EndsOnce
  /\ Inv /\ EndsOnce /\ [Next]_vars => EndsOnce'
<1>1. Init => EndsOnce
  BY DEF Init, Start, EndsOnce
<1>2. ASSUME Inv, EndsOnce, MonitorStep PROVE EndsOnce'
  <2>1. CASE Finish
    BY <1>2, <2>1 DEF Finish, Report, EndsOnce
  <2>2. CASE MonitorLoop
    <3>1. mpc # "done" /\ outcome' = outcome
      BY <2>2 DEF MonitorLoop, Tick, CheckFailed, ResetFailed, Put, PutWrite, GenRange, Assign,
         EndTick
    <3>2. mpc' # "done"
      BY <2>2 DEF MonitorLoop, Tick, CheckFailed, ResetFailed, Put, PutWrite, GenRange, Assign,
         EndTick, ToNextWorker
    <3> QED  BY <1>2, <3>1, <3>2 DEF EndsOnce
  <2> QED  BY <1>2, <2>1, <2>2 DEF MonitorStep, MonitorEnd
<1>3. ASSUME EndsOnce, Restart PROVE EndsOnce'
  BY <1>3 DEF Restart, EndsOnce
<1>4. ASSUME EndsOnce, \/ UNCHANGED vars \/ (\E w \in Workers : WorkerStep(w)) \/ ExpireReset
                       \/ CheckStep \/ Pause \/ Resume \/ Cancel \/ Terminated
      PROVE  EndsOnce'
  <2>1. UNCHANGED <<outcome, mpc>>
    BY <1>4 DEF vars, callVars, monitorVars, WorkerStep, ExpireReset, CheckStep, Pause, Resume,
       Cancel, Terminated
  <2> QED  BY <1>4, <2>1 DEF EndsOnce
<1> QED  BY <1>1, <1>2, <1>3, <1>4 DEF Next

LEMMA WorkerTransfers ==
  ASSUME Inv, NEW w \in Workers, WorkerStep(w)
  PROVE  UNCHANGED <<written, outcome, saved.ok>> \/ Contract!Arrive
<1>1. UNCHANGED <<outcome, saved>>
  BY DEF WorkerStep, monitorVars, callVars
<1>2. written \subseteq written'
  BY DEF WorkerStep, Write
<1>3. written' \in SUBSET Bytes
  BY WorkerInv DEF Inv, TypeOK
<1> QED  BY <1>1, <1>2, <1>3 DEF Contract!Arrive

LEMMA MonitorTransfers ==
  ASSUME Inv, SuccessInv, SuccessMeansDownloaded', EndsOnce, MonitorStep
  PROVE  UNCHANGED <<written, outcome, saved.ok>> \/ Contract!Next
<1>1. written' = written
  BY DEF MonitorStep, MonitorLoop, MonitorEnd, MonitorRest
<1>2. CASE Finish
  <2>1. outcome = "running"
    BY <1>2 DEF Finish, EndsOnce
  <2>2. CASE ~mtErr /\ outcome' = "success" /\ saved' = [saved EXCEPT !.ok = FALSE]
    <3>1. written = Bytes
      BY <1>1, <2>2 DEF SuccessMeansDownloaded
    <3>2. saved'.ok = FALSE
      BY <2>2 DEF Inv, TypeOK, Images
    <3> QED  BY <1>1, <2>1, <2>2, <3>1, <3>2 DEF Contract!Succeed, Contract!Next
  <2>3. CASE outcome' = "error" /\ UNCHANGED saved
    BY <1>1, <2>1, <2>3 DEF Contract!Fail, Contract!Next
  <2> QED  BY <1>2, <2>2, <2>3 DEF Finish, Report
<1>3. CASE Put \/ PutWrite
  <2>1. outcome = "running" /\ outcome' = outcome
    BY <1>3 DEF Put, PutWrite, EndsOnce
  <2>2. saved'.ok \in BOOLEAN
    BY MonitorInv DEF Inv, TypeOK, Images
  <2> QED  BY <1>1, <2>1, <2>2 DEF Contract!Save, Contract!Next
<1>4. CASE Tick \/ CheckFailed \/ ResetFailed \/ GenRange \/ Assign \/ EndTick
  BY <1>1, <1>4 DEF Tick, CheckFailed, ResetFailed, GenRange, Assign, EndTick
<1> QED  BY <1>2, <1>3, <1>4 DEF MonitorStep, MonitorLoop, MonitorEnd

LEMMA StepTransfers ==
  ASSUME Inv, SuccessInv, SuccessMeansDownloaded', EndsOnce, [Next]_vars
  PROVE  [Contract!Next]_<<written, outcome, saved.ok>>
<1>1. CASE \E w \in Workers : WorkerStep(w)
  BY <1>1, WorkerTransfers DEF Contract!Next
<1>2. CASE MonitorStep
  BY <1>2, MonitorTransfers
<1>3. CASE Restart
  <2>1. UNCHANGED <<saved, written>> /\ outcome' = "running" /\ outcome \in {"running", "error"}
    BY <1>3 DEF Restart
  <2> QED  BY <2>1 DEF Contract!Again, Contract!Next
<1>4. CASE UNCHANGED vars \/ ExpireReset \/ CheckStep \/ Pause \/ Resume \/ Cancel \/ Terminated
  BY <1>4 DEF vars, callVars, monitorVars, ExpireReset, CheckStep, Pause, Resume, Cancel, Terminated
<1> QED  BY <1>1, <1>2, <1>3, <1>4 DEF Next

\* Every step of the downloader is one of Transfer, or changes nothing that the
\* queue sees: the breakpoint file is gone for good once success is reported.
THEOREM DownloaderImplementsTransfer ==
  ASSUME AllHandedOut, NoCancel PROVE Spec => ImplementsTransfer
<1>1. Init => SuccessInv
  BY InitSuccess
<1>2. Inv /\ SuccessInv /\ [Next]_vars => SuccessInv'
  BY NextSuccess
<1>3. Spec => [](Inv /\ SuccessInv /\ EndsOnce)
  BY <1>1, <1>2, InitInv, NextInv, EndsWithMonitor, PTL DEF Spec
<1>4. Spec => []SuccessMeansDownloaded
  BY SuccessIsReal
<1>5. Init => Contract!Init
  BY DEF Init, Start, FirstImage, Contract!Init
<1>6. Inv /\ SuccessInv /\ EndsOnce /\ SuccessMeansDownloaded' /\ [Next]_vars
        => [Contract!Next]_<<written, outcome, saved.ok>>
  BY StepTransfers
<1> QED  BY <1>3, <1>4, <1>5, <1>6, PTL DEF Spec, ImplementsTransfer, Contract!Spec

-----------------------------------------------------------------------------
(* Completed means done                                                       *)
(*                                                                            *)
(* Again with every range handed out, and without a Pause (a Pause that takes *)
(* one of two Executes out of its loop may mark a worker as paused that the   *)
(* other has completed).  Cancellations are allowed.                          *)

\* Nobody calls Pause.
NoPause == "pause" \notin Events

NothingPaused == pauser.at = "none" /\ \A w \in Workers : status[w] # "Paused"

\* A worker has one goroutine: one that waits for execMu finds it free, and the
\* status as the code that launched it has set it.
OneGoroutine ==
  \A w \in Workers :
    queue[w] = 0 \/ (queue[w] = 1 /\ pc[w] = "idle" /\ status[w] = "Init")

\* What ResetFailedAndNetErrorWorkers is about to reset is still as it was when
\* the status was read.
FailedIsIdle ==
  /\ \A w \in Workers : Resettable(w) => pc[w] = "idle"
  /\ mpc = "reset" => Resettable(mk)

\* What the completion goroutine has counted as complete stays complete.
CountIsFinal ==
  /\ ck # 0 => done <= ck - 1 /\ (done = ck - 1 => \A w \in 1..(ck - 1) : Completed(w))
  /\ completed /\ ~mtErr => \A w \in Workers : Completed(w)

OneEach == NothingPaused /\ OneGoroutine /\ FailedIsIdle

LEMMA InitOneEach == Init => OneEach
BY DEF Init, Start, OneEach, NothingPaused, OneGoroutine, FailedIsIdle, Resettable

\* Only a worker that has a goroutine moves, and it uses that goroutine up.
LEMMA WorkerOneEach ==
  ASSUME TypeOK, OneEach, NEW w \in Workers, WorkerStep(w)
  PROVE  OneEach' /\ (queue[w] = 0 => pc[w] # "idle")
<1>1. UNCHANGED <<pauser, mpc, mk>> /\ \A v \in Workers \ {w} :
        status'[v] = status[v] /\ pc'[v] = pc[v] /\ queue'[v] = queue[v]
  BY DEF WorkerStep, callVars, monitorVars, ExecStart, Respond, Select, Read, Write, Advance,
     Return, TypeOK
<1>2. queue[w] = 0 => pc[w] # "idle"
  BY DEF WorkerStep, ExecStart, Respond, Select, Read, Write, Advance, TypeOK
<1>3. queue'[w] = 0
  BY DEF WorkerStep, ExecStart, Respond, Select, Read, Write, Advance, OneEach, OneGoroutine,
     TypeOK
<1>4. status'[w] # "Paused" /\ (Resettable(w)' => pc'[w] = "idle")
  <2>1. CASE ExecStart(w) \/ Select(w) \/ Read(w) \/ Write(w)
    BY <2>1 DEF ExecStart, Select, Read, Write, Return, Resettable, TypeOK
  <2>2. CASE Respond(w) \/ Advance(w)
    BY <2>2 DEF Respond, Advance, Return, Resettable, TypeOK, OneEach, NothingPaused,
       FailedIsIdle
  <2> QED  BY <2>1, <2>2 DEF WorkerStep
<1>5. mpc = "reset" => mk # w
  BY <1>2 DEF OneEach, OneGoroutine, FailedIsIdle, Resettable
<1>6. NothingPaused'
  BY <1>1, <1>4 DEF OneEach, NothingPaused
<1>7. OneGoroutine'
  BY <1>1, <1>3 DEF OneEach, OneGoroutine
<1>8. FailedIsIdle'
  BY <1>1, <1>4, <1>5 DEF OneEach, FailedIsIdle, Resettable, TypeOK
<1> QED  BY <1>2, <1>6, <1>7, <1>8 DEF OneEach

\* The monitor launches an Execute only for a worker that has none.
LEMMA MonitorOneEach ==
  ASSUME TypeOK, OneEach, AllGenerated, MonitorStep
  PROVE  /\ OneEach'
         /\ \A w \in Workers : Completed(w) => status'[w] = status[w]
<1>1. UNCHANGED <<pc, pauser>>
  BY DEF MonitorStep, MonitorLoop, MonitorEnd, MonitorRest, Tick, Finish, Report, CheckFailed,
     ResetFailed, Put, PutWrite, GenRange, Assign, EndTick, workerVars
<1>2. CASE ResetFailed
  <2>1. mpc = "reset" /\ mpc' # "reset" /\ mk \in Workers
    BY <1>2 DEF ResetFailed, ToNextWorker, TypeOK
  <2>2. Resettable(mk) /\ queue[mk] = 0 /\ pc[mk] = "idle"
    BY <2>1 DEF OneEach, OneGoroutine, FailedIsIdle, Resettable
  <2>3. \/ UNCHANGED <<status, queue>>
        \/ /\ queue' = [queue EXCEPT ![mk] = 1]
           /\ status' = [status EXCEPT ![mk] = "Init"]
    BY <1>2, <2>2 DEF ResetFailed, Launch, TypeOK
  <2>4. ~Completed(mk)
    BY <2>2 DEF Resettable, Completed
  <2> QED  BY <1>1, <2>1, <2>2, <2>3, <2>4
           DEF OneEach, NothingPaused, OneGoroutine, FailedIsIdle, Resettable, TypeOK
<1>3. CASE ~ResetFailed
  <2>1. ~Assign
    BY DEF Assign, AllGenerated
  <2>2. UNCHANGED <<status, queue>>
    BY <1>3, <2>1 DEF MonitorStep, MonitorLoop, MonitorEnd, Tick, Finish, Report, CheckFailed,
       Put, PutWrite, GenRange, EndTick, workerVars
  <2>3. mpc' = "reset" => Resettable(mk)' /\ mk' = mk
    BY <1>3, <2>1, <2>2 DEF MonitorStep, MonitorLoop, MonitorEnd, Tick, Finish, CheckFailed,
       ToNextWorker, Put, PutWrite, GenRange, EndTick, Resettable
  <2> QED  BY <1>1, <2>2, <2>3
           DEF OneEach, NothingPaused, OneGoroutine, FailedIsIdle, Resettable
<1> QED  BY <1>2, <1>3

LEMMA OtherOneEach ==
  ASSUME NoPause, TypeOK, OneEach,
         \/ UNCHANGED vars \/ ExpireReset \/ CheckStep \/ Pause \/ Resume \/ Cancel
         \/ Terminated
  PROVE  OneEach' /\ UNCHANGED status
<1>1. ~Pause
  BY DEF Pause, PauseCall, PauseWorker, PauseReceive, PauseMark, NoPause, Happens, OneEach,
     NothingPaused
<1>2. UNCHANGED <<status, pc, pauser, mpc, mk>>
  BY <1>1 DEF vars, workerVars, callVars, monitorVars, ExpireReset, CheckStep, Resume, Cancel,
     Terminated
<1>3. queue' = queue
  <2>1. CASE Resume
    BY <2>1 DEF Resume, OneEach, NothingPaused, TypeOK
  <2> QED  BY <1>1, <2>1 DEF vars, workerVars, ExpireReset, CheckStep, Cancel, Terminated
<1> QED  BY <1>2, <1>3 DEF OneEach, NothingPaused, OneGoroutine, FailedIsIdle, Resettable

LEMMA RestartOneEach == Restart => OneEach' /\ CountIsFinal'
<1>1. 1..0 = {}
  OBVIOUS
<1> QED  BY <1>1 DEF Restart, OneEach, NothingPaused, OneGoroutine, FailedIsIdle, Resettable,
                     CountIsFinal

\* A complete worker has no goroutine, and nobody starts one.
LEMMA CompleteStays ==
  ASSUME NoPause, Inv, OneEach, AllGenerated, [Next]_vars, ~Restart
  PROVE  OneEach' /\ \A w \in Workers : Completed(w) => Completed(w)'
<1>1. ASSUME NEW v \in Workers, WorkerStep(v)
      PROVE  OneEach' /\ \A w \in Workers : Completed(w) => Completed(w)'
  <2>1. OneEach' /\ (queue[v] = 0 => pc[v] # "idle")
    BY <1>1, WorkerOneEach DEF Inv
  <2>2. \A w \in Workers : Completed(w) => queue[w] = 0 /\ pc[w] = "idle"
    BY DEF Completed, OneEach, OneGoroutine, Inv, CompletedIsIdle
  <2>3. \A w \in Workers \ {v} : status'[w] = status[w]
    BY <1>1 DEF WorkerStep, ExecStart, Respond, Select, Read, Write, Advance, Return, Inv, TypeOK
  <2> QED  BY <2>1, <2>2, <2>3 DEF Completed
<1>2. ASSUME MonitorStep
      PROVE  OneEach' /\ \A w \in Workers : Completed(w) => Completed(w)'
  BY <1>2, MonitorOneEach DEF Inv, Completed
<1>3. ASSUME \/ UNCHANGED vars \/ ExpireReset \/ CheckStep \/ Pause \/ Resume \/ Cancel
             \/ Terminated
      PROVE  OneEach' /\ \A w \in Workers : Completed(w) => Completed(w)'
  BY <1>3, OtherOneEach DEF Inv, Completed
<1> QED  BY <1>1, <1>2, <1>3 DEF Next

LEMMA CheckFinal == ASSUME Inv, CountIsFinal, CheckStep PROVE CountIsFinal'
<1>1. \A w \in Workers : Completed(w)' <=> Completed(w)
  BY DEF CheckStep, workerVars, Completed
<1>2. CASE CountWorker
  <2>1. ck \in Workers /\ ck \in Int /\ ck >= 1 /\ done \in Nat
    BY <1>2, DownloaderAssumption DEF CountWorker, Workers, Inv, TypeOK
  <2>2. CASE Fatal(ck)
    BY <1>2, <2>2 DEF CountWorker, CountIsFinal
  <2>3. CASE ~Fatal(ck)
    <3>1. /\ ck' = ck + 1 /\ UNCHANGED <<completed, mtErr>>
          /\ done' = IF Completed(ck) THEN done + 1 ELSE done
      BY <1>2, <2>1, <2>3 DEF CountWorker
    <3>2. done <= ck - 1 /\ (done = ck - 1 => \A w \in 1..(ck - 1) : Completed(w))
      BY <2>1 DEF CountIsFinal
    <3>3. done' <= ck' - 1
      BY <2>1, <3>1, <3>2
    <3>4. ASSUME done' = ck' - 1, NEW w \in 1..(ck' - 1) PROVE Completed(w)'
      <4>1. Completed(ck) /\ done = ck - 1
        BY <2>1, <3>1, <3>2, <3>4
      <4>2. w \in Workers /\ (w = ck \/ w \in 1..(ck - 1))
        BY <2>1, <3>1, DownloaderAssumption DEF Workers
      <4>3. Completed(w)
        BY <3>2, <4>1, <4>2
      <4> QED  BY <1>1, <4>2, <4>3
    <3>5. completed' /\ ~mtErr' => \A w \in Workers : Completed(w)'
      BY <1>1, <3>1 DEF CountIsFinal
    <3> QED  BY <3>3, <3>4, <3>5 DEF CountIsFinal
  <2> QED  BY <2>2, <2>3
<1>3. CASE CountEnd
  <2>1. /\ ck = N + 1 /\ done' = 0 /\ UNCHANGED mtErr /\ done \in Nat
        /\ ck' = 0 \/ ck' = 1
        /\ done >= N \/ completed' = completed
    BY <1>3 DEF CountEnd, Inv, TypeOK
  <2>2. done >= N => \A w \in Workers : Completed(w)
    <3>1. done <= N /\ (done = N => \A w \in 1..N : Completed(w))
      BY <2>1, DownloaderAssumption DEF CountIsFinal
    <3> QED  BY <2>1, <3>1, DownloaderAssumption DEF Workers
  <2>3. completed' /\ ~mtErr' => \A w \in Workers : Completed(w)'
    BY <1>1, <2>1, <2>2 DEF CountIsFinal
  <2>4. 1..(1 - 1) = {}
    OBVIOUS
  <2> QED  BY <2>1, <2>3, <2>4 DEF CountIsFinal
<1> QED  BY <1>2, <1>3 DEF CheckStep

LEMMA NextFinal ==
  ASSUME NoPause
  PROVE  Inv /\ OneEach /\ AllGenerated /\ CountIsFinal /\ [Next]_vars
           => OneEach' /\ CountIsFinal'
<1> SUFFICES ASSUME Inv, OneEach, AllGenerated, CountIsFinal, [Next]_vars
             PROVE  OneEach' /\ CountIsFinal'
  OBVIOUS
<1>1. CASE Restart
  BY <1>1, RestartOneEach
<1>2. CASE ~Restart
  <2>1. OneEach' /\ \A w \in Workers : Completed(w) => Completed(w)'
    BY <1>2, CompleteStays
  <2>2. CASE CheckStep
    BY <2>1, <2>2, CheckFinal
  <2>3. CASE ~CheckStep
    <3>1. UNCHANGED checkVars
      BY <1>2, <2>3 DEF Next, WorkerStep, MonitorStep, MonitorLoop, MonitorEnd, MonitorRest,
         ExpireReset, Pause, Resume, Cancel, Terminated, vars
    <3>2. ck # 0 => 1..(ck - 1) \subseteq Workers
      BY DownloaderAssumption DEF Inv, TypeOK, Workers
    <3>3. CountIsFinal'
      BY <2>1, <3>1, <3>2 DEF checkVars, CountIsFinal
    <3> QED  BY <2>1, <3>3
  <2> QED  BY <2>2, <2>3
<1> QED  BY <1>1, <1>2

\* The comment at monitor.go:185 is right when the first ranges hold the whole
\* file and nobody pauses: `completed` is closed without an error only when every
\* worker is complete and every range has been generated.
THEOREM CompletedIsDone ==
  ASSUME AllHandedOut, NoPause PROVE Spec => []CompletedMeansDone
<1>1. Init => AllGenerated
  BY StaysGenerated
<1>2. Inv /\ AllGenerated /\ [Next]_vars => AllGenerated'
  BY StaysGenerated
<1>3. Init => CountIsFinal
  <2>1. 1..(1 - 1) = {}
    OBVIOUS
  <2> QED  BY <2>1 DEF Init, Start, CountIsFinal
<1>4. Inv /\ OneEach /\ AllGenerated /\ CountIsFinal /\ [Next]_vars
        => OneEach' /\ CountIsFinal'
  BY NextFinal
<1>5. Spec => [](Inv /\ OneEach /\ AllGenerated /\ CountIsFinal)
  BY <1>1, <1>2, <1>3, <1>4, InitInv, NextInv, InitOneEach, PTL DEF Spec
<1>6. AllGenerated /\ CountIsFinal => CompletedMeansDone
  BY DEF AllGenerated, CountIsFinal, CompletedMeansDone, GenDone
<1> QED  BY <1>5, <1>6, PTL
=============================================================================
