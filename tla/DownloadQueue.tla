---------------------------- MODULE DownloadQueue ----------------------------
(***************************************************************************)
(* RunDownload (internal/pcscommand/download.go): a deque of tasks, handed  *)
(* out in rounds of a wait group to at most options.load goroutines.  A     *)
(* directory puts what it contains on the deque, a file is downloaded and   *)
(* checked, and a failed task goes back to the deque until its retries are  *)
(* used up.  The downloader and the server are seen from outside here: what *)
(* Execute returns and what it leaves on disk (Downloader models how).      *)
(*                                                                          *)
(* The closure of every goroutine assigns the one `err` of RunDownload, so  *)
(* each test and each use of it is a step of its own.                       *)
(***************************************************************************)
EXTENDS Integers, Sequences, FiniteSets

CONSTANTS
  Roots,      \* the paths to download, in order
  Dirs,       \* directories
  Files,      \* files
  Children,   \* directory -> what FilesDirectoriesList returns for it
  Unsummed,   \* files of more than one block, whose MD5 cannot be compared
  Unreadable, \* files that cannot always be read back for the check
  Banned,     \* files for which the server sends a notice instead
  MaxLoad,    \* max_download_load
  MaxRetry,   \* options.MaxRetry
  Options,    \* overwrite and noCheck, as the command line may give them
  Before      \* files that may be at their save path from the start

Paths == Dirs \cup Files
Slots == 1..MaxLoad

ASSUME DownloadQueueAssumption ==
  /\ MaxLoad \in Nat \ {0} /\ MaxRetry \in Nat
  /\ Roots \in Seq(Paths) /\ Children \in [Dirs -> Seq(Paths)]
  /\ Unsummed \subseteq Files /\ Unreadable \subseteq Files /\ Banned \subseteq Files
  /\ Dirs \cap Files = {} /\ "none" \notin Dirs \cup Files
  /\ Options \subseteq [overwrite : BOOLEAN, noCheck : BOOLEAN]
  /\ Before \subseteq Files

VARIABLES
  count, tokens, caller, goroutine,  \* the wait group of the round (WaitGroup)
  load,      \* options.Load: at most MaxLoad, fewer when there are fewer files
  options,   \* the other options
  deque,     \* dlist
  next,      \* the task shifted off it last
  over,      \* "no", "done", or "crashed": a goroutine has panicked
  job,       \* slot -> task of its goroutine
  pc,        \* slot -> where its goroutine is
  own,       \* slot -> the err that handleTaskErr was given
  seen,      \* slot -> failedList as append read it
  err,       \* err
  known,     \* tasks that have their downloadInfo
  retry,     \* task -> task.retry
  file,      \* task -> what is at its save path
  mark,      \* task -> its breakpoint file
  lost,      \* slots that write to a file removed in the meantime
  failed,    \* failedList
  told       \* tasks given up with a message of their own

groupVars == <<count, tokens, caller, goroutine>>
mainVars == <<deque, next, over>>
slotVars == <<job, pc, own, seen>>
diskVars == <<file, mark, lost>>
reportVars == <<failed, told>>
vars == <<groupVars, mainVars, slotVars, diskVars, reportVars, load, options, err, known, retry>>

WG == INSTANCE WaitGroup WITH Tasks <- Slots, Parallel <- MaxLoad, task <- goroutine

Nobody == "none"
Stages ==
  {"idle", "meta", "metaTest", "look", "download", "write", "test", "handle",
   "check", "checkTest", "checkSwitch", "checkHandle", "sleep", "list", "remove", "listAgain"}
Errors == {"nil", "meta", "init", "net", "unsummed", "sum", "banned", "open"}
FileStates == {"none", "old", "empty", "part", "good", "bad", "banned"}
Marks == {"none", "true", "stale"}

Init ==
  /\ WG!NewWaitGroup
  /\ load \in 1..MaxLoad /\ options \in Options
  /\ deque = Roots /\ next = Nobody /\ over = "no"
  /\ job = [s \in Slots |-> Nobody] /\ pc = [s \in Slots |-> "idle"]
  /\ own = [s \in Slots |-> "nil"] /\ seen = [s \in Slots |-> {}]
  /\ err = "nil" /\ known = {} /\ retry = [t \in Paths |-> 0]
  /\ file \in {[t \in Files |-> IF t \in old THEN "old" ELSE "none"] : old \in SUBSET Before}
  /\ mark = [t \in Files |-> "none"]
  /\ lost = {} /\ failed = {} /\ told = {}

-------------------------------------------------------------------------------
(* The goroutine of RunDownload. *)

Take ==
  /\ caller = "free" /\ deque # <<>>
  /\ WG!AddDelta
  /\ next' = Head(deque) /\ deque' = Tail(deque)
  /\ UNCHANGED <<over, slotVars, err, known, retry, diskVars, reportVars>>

\* The channel of the group has `load` places.
Acquire ==
  /\ tokens < load
  /\ WG!SendToken
  /\ UNCHANGED <<mainVars, slotVars, err, known, retry, diskVars, reportVars>>

\* A slot is only a name: a new goroutine takes the first one that is free.
Go(s) ==
  /\ \A r \in 1..(s - 1) : goroutine[r] # "none"
  /\ WG!CountUp(s)
  /\ job' = [job EXCEPT ![s] = next] /\ pc' = [pc EXCEPT ![s] = "meta"]
  /\ next' = Nobody
  /\ UNCHANGED <<deque, over, own, seen, err, known, retry, diskVars, reportVars>>

\* The deque was empty when Shift looked: the round ends.
EndRound ==
  /\ deque = <<>>
  /\ WG!Wait
  /\ UNCHANGED <<mainVars, slotVars, err, known, retry, diskVars, reportVars>>

Join ==
  /\ WG!Join
  /\ UNCHANGED <<mainVars, slotVars, err, known, retry, diskVars, reportVars>>

\* Mutant: what the goroutines put on the deque is not looked at again.
AgainNever ==
  /\ caller = "joined" /\ over' = "done"
  /\ UNCHANGED <<groupVars, deque, next, slotVars, err, known, retry, diskVars, reportVars>>

Again ==
  /\ caller = "joined"
  /\ \/ deque # <<>> /\ WG!New /\ UNCHANGED over
     \/ deque = <<>> /\ over' = "done" /\ UNCHANGED groupVars
  /\ UNCHANGED <<deque, next, slotVars, err, known, retry, diskVars, reportVars>>

Main == Take \/ Acquire \/ (\E s \in Slots : Go(s)) \/ EndRound \/ Join \/ Again

-------------------------------------------------------------------------------
(* The goroutine of a task. *)

\* It goes on at stage p.
Stay(s, p) ==
  /\ pc' = [pc EXCEPT ![s] = p]
  /\ UNCHANGED <<groupVars, job>>

\* It returns, and the deferred Done counts it down.
Return(s) ==
  /\ WG!CountDown(s)
  /\ pc' = [pc EXCEPT ![s] = "idle"] /\ job' = [job EXCEPT ![s] = Nobody]

Meta(s) ==
  /\ pc[s] = "meta"
  /\ \/ job[s] \in known /\ Stay(s, "look") /\ UNCHANGED <<known, err>>
     \/ job[s] \notin known /\ Stay(s, "metaTest")
        /\ \/ known' = known \cup {job[s]} /\ err' = "nil"
           \/ err' = "meta" /\ UNCHANGED known
  /\ UNCHANGED <<mainVars, own, seen, retry, diskVars, reportVars>>

\* When another goroutine has set err to nil meanwhile, the nil downloadInfo of
\* a failed request is used, and the process panics.
MetaTest(s) ==
  /\ pc[s] = "metaTest"
  /\ \/ err # "nil" /\ told' = told \cup {job[s]} /\ Return(s) /\ UNCHANGED over
     \/ err = "nil" /\ job[s] \in known /\ Stay(s, "look") /\ UNCHANGED <<told, over>>
     \/ err = "nil" /\ job[s] \notin known /\ Stay(s, "look") /\ over' = "crashed" /\ UNCHANGED told
  /\ UNCHANGED <<deque, next, own, seen, err, known, retry, diskVars, failed>>

\* FilesDirectoriesList has an err of its own.  The one Append per child is one
\* step here: the deque has its lock, and nothing tells an order of its tasks.
List(s) ==
  /\ pc[s] = "look" /\ job[s] \in Dirs
  /\ \/ /\ deque' = deque \o Children[job[s]]
        /\ known' = known \cup {Children[job[s]][i] : i \in DOMAIN Children[job[s]]}
        /\ UNCHANGED told
     \/ told' = told \cup {job[s]} /\ UNCHANGED <<deque, known>>
  /\ Return(s)
  /\ UNCHANGED <<next, over, own, seen, err, retry, diskVars, failed>>

\* Mutant: the breakpoint file is not looked for.
FileExistPartly(t) == file[t] \notin {"none", "empty"}
FileExist(t) == file[t] \notin {"none", "empty"} /\ mark[t] = "none"

Look(s) ==
  /\ pc[s] = "look" /\ job[s] \in Files
  /\ \/ ~options.overwrite /\ FileExist(job[s]) /\ Return(s)
     \/ (options.overwrite \/ ~FileExist(job[s])) /\ Stay(s, "download")
  /\ UNCHANGED <<mainVars, own, seen, err, known, retry, diskVars, reportVars>>

\* download() cannot create the file, or the server refuses before the
\* breakpoint file is opened; a file that was created for it is removed again.
Refused(s) ==
  /\ pc[s] = "download"
  /\ err' \in {"init", "net"}
  /\ Stay(s, "test")
  /\ UNCHANGED <<mainVars, own, seen, known, retry, diskVars, reportVars>>

\* The breakpoint file is opened: from here on the file is a partial one.
Begin(s) ==
  /\ pc[s] = "download"
  /\ file' = [file EXCEPT ![job[s]] = IF @ = "none" THEN "empty" ELSE "part"]
  /\ mark' = [mark EXCEPT ![job[s]] = IF @ = "none" THEN "true" ELSE @]
  /\ lost' = lost \ {s}
  /\ Stay(s, "write")
  /\ UNCHANGED <<mainVars, own, seen, err, known, retry, reportVars>>

\* Execute fails after writing something, or nothing into an empty file, which
\* is removed; the breakpoint file stays either way.
Broken(s) ==
  /\ pc[s] = "write"
  /\ err' = "net"
  /\ IF s \in lost THEN UNCHANGED file
     ELSE \/ file' = [file EXCEPT ![job[s]] = "part"]
          \/ file[job[s]] = "empty" /\ file' = [file EXCEPT ![job[s]] = "none"]
  /\ Stay(s, "test")
  /\ UNCHANGED <<mainVars, own, seen, known, retry, mark, lost, reportVars>>

\* What a stale breakpoint file left out is missing; and even without one the
\* bytes need not be those of the MD5 the server gave.
Received(t) ==
  CASE t \in Banned       -> {"banned"}
    [] mark[t] = "stale"  -> {"bad"}
    [] OTHER              -> {"good", "bad"}

\* Execute succeeds and removes the breakpoint file.
Complete(s) ==
  /\ pc[s] = "write"
  /\ err' = "nil"
  /\ IF s \in lost THEN UNCHANGED file
     ELSE \E content \in Received(job[s]) : file' = [file EXCEPT ![job[s]] = content]
  /\ mark' = [mark EXCEPT ![job[s]] = "none"]
  /\ Stay(s, "test")
  /\ UNCHANGED <<mainVars, own, seen, known, retry, lost, reportVars>>

Test(s) ==
  /\ pc[s] = "test"
  /\ \/ err # "nil" /\ Stay(s, "handle")
     \/ err = "nil" /\ options.noCheck /\ Return(s)
     \/ err = "nil" /\ ~options.noCheck /\ Stay(s, "check")
  /\ UNCHANGED <<mainVars, own, seen, err, known, retry, diskVars, reportVars>>

\* checkFileValid.
Verdict(t) ==
  CASE t \in Unsummed     -> "unsummed"
    [] file[t] = "none"   -> "open"
    [] file[t] = "good"   -> "nil"
    [] file[t] = "banned" -> "banned"
    [] OTHER              -> "sum"

Check(s) ==
  /\ pc[s] = "check"
  /\ \/ err' = Verdict(job[s])
     \/ job[s] \in Unreadable \ Unsummed /\ err' = "open"
  /\ Stay(s, "checkTest")
  /\ UNCHANGED <<mainVars, own, seen, known, retry, diskVars, reportVars>>

CheckTest(s) ==
  /\ pc[s] = "checkTest"
  /\ IF err = "nil" THEN Return(s) ELSE Stay(s, "checkSwitch")
  /\ UNCHANGED <<mainVars, own, seen, err, known, retry, diskVars, reportVars>>

CheckSwitch(s) ==
  /\ pc[s] = "checkSwitch"
  /\ \/ err = "banned" /\ told' = told \cup {job[s]} /\ Return(s)
     \/ err # "banned" /\ Stay(s, "checkHandle") /\ UNCHANGED told
  /\ UNCHANGED <<mainVars, own, seen, err, known, retry, diskVars, failed>>

-------------------------------------------------------------------------------
(* handleTaskErr, called with the value err has at that moment. *)

\* "Failed to start" ends a task only when the download itself reports it.
NotRetried(s) ==
  err = "unsummed" \/ (err = "init" /\ pc[s] = "handle")

Handling(s) == pc[s] \in {"handle", "checkHandle"}

Ignore(s) ==
  /\ Handling(s) /\ err = "nil"
  /\ Return(s)
  /\ UNCHANGED <<mainVars, own, seen, err, known, retry, diskVars, reportVars>>

GiveUp(s) ==
  /\ Handling(s) /\ NotRetried(s)
  /\ told' = told \cup {job[s]}
  /\ Return(s)
  /\ UNCHANGED <<mainVars, own, seen, err, known, retry, diskVars, failed>>

\* Mutant: a task is retried without end.
RetryUnlimited(s) ==
  /\ Handling(s) /\ err # "nil" /\ ~NotRetried(s)
  /\ retry' = [retry EXCEPT ![job[s]] = @ + 1]
  /\ deque' = Append(deque, job[s])
  /\ own' = [own EXCEPT ![s] = err]
  /\ Stay(s, "sleep")
  /\ UNCHANGED <<next, over, seen, err, known, diskVars, reportVars>>

\* Mutant: the retries of a task are not counted.
RetryUncounted(s) ==
  /\ Handling(s) /\ err # "nil" /\ ~NotRetried(s) /\ retry[job[s]] < MaxRetry
  /\ deque' = Append(deque, job[s])
  /\ own' = [own EXCEPT ![s] = err]
  /\ Stay(s, "sleep")
  /\ UNCHANGED <<next, over, seen, err, known, retry, diskVars, reportVars>>

\* Mutant: a retry puts the task on the deque twice.
RetryTwice(s) ==
  /\ Handling(s) /\ err # "nil" /\ ~NotRetried(s) /\ retry[job[s]] < MaxRetry
  /\ retry' = [retry EXCEPT ![job[s]] = @ + 1]
  /\ deque' = deque \o <<job[s], job[s]>>
  /\ own' = [own EXCEPT ![s] = err]
  /\ Stay(s, "sleep")
  /\ UNCHANGED <<next, over, seen, err, known, diskVars, reportVars>>

Retry(s) ==
  /\ Handling(s) /\ err # "nil" /\ ~NotRetried(s) /\ retry[job[s]] < MaxRetry
  /\ retry' = [retry EXCEPT ![job[s]] = @ + 1]
  /\ deque' = Append(deque, job[s])
  /\ own' = [own EXCEPT ![s] = err]
  /\ Stay(s, "sleep")
  /\ UNCHANGED <<next, over, seen, err, known, diskVars, reportVars>>

\* failedList = append(...) reads the list, then stores the longer one.
Exhaust(s) ==
  /\ Handling(s) /\ err # "nil" /\ ~NotRetried(s) /\ retry[job[s]] >= MaxRetry
  /\ own' = [own EXCEPT ![s] = err]
  /\ seen' = [seen EXCEPT ![s] = failed]
  /\ Stay(s, "list")
  /\ UNCHANGED <<mainVars, err, known, retry, diskVars, reportVars>>

\* A file that failed its check is removed, other tasks are done with.
AfterHandling(s) ==
  /\ IF own[s] = "sum" THEN Stay(s, "remove") ELSE Return(s)
  /\ own' = [own EXCEPT ![s] = "nil"]

Awake(s) ==
  /\ pc[s] = "sleep"
  /\ AfterHandling(s)
  /\ UNCHANGED <<mainVars, seen, err, known, retry, diskVars, reportVars>>

\* Mutant: a task out of retries is not listed.
ListForgotten(s) ==
  /\ pc[s] = "list"
  /\ seen' = [seen EXCEPT ![s] = {}]
  /\ AfterHandling(s)
  /\ UNCHANGED <<mainVars, err, known, retry, diskVars, reportVars>>

ListFailed(s) ==
  /\ pc[s] = "list"
  /\ failed' = seen[s] \cup {job[s]}
  /\ seen' = [seen EXCEPT ![s] = {}]
  /\ AfterHandling(s)
  /\ UNCHANGED <<mainVars, err, known, retry, diskVars, told>>

\* os.Remove takes the file away under whoever writes to it, and leaves the
\* breakpoint file.
Remove(s) ==
  /\ pc[s] = "remove"
  /\ file[job[s]] # "none"
  /\ file' = [file EXCEPT ![job[s]] = "none"]
  /\ mark' = [mark EXCEPT ![job[s]] = IF @ = "none" THEN @ ELSE "stale"]
  /\ lost' = lost \cup {r \in Slots : pc[r] = "write" /\ job[r] = job[s]}
  /\ Return(s)
  /\ UNCHANGED <<mainVars, own, seen, err, known, retry, reportVars>>

RemoveFails(s) ==
  /\ pc[s] = "remove"
  /\ seen' = [seen EXCEPT ![s] = failed]
  /\ Stay(s, "listAgain")
  /\ UNCHANGED <<mainVars, own, err, known, retry, diskVars, reportVars>>

ListUnremoved(s) ==
  /\ pc[s] = "listAgain"
  /\ failed' = seen[s] \cup {job[s]}
  /\ seen' = [seen EXCEPT ![s] = {}]
  /\ Return(s)
  /\ UNCHANGED <<mainVars, own, err, known, retry, diskVars, told>>

\* The second half of Done.
Leave(s) ==
  /\ WG!TakeToken(s)
  /\ UNCHANGED <<mainVars, slotVars, err, known, retry, diskVars, reportVars>>

HandleTaskErr(s) ==
  \/ Ignore(s) \/ GiveUp(s) \/ Retry(s) \/ Exhaust(s) \/ Awake(s)
  \/ ListFailed(s) \/ Remove(s) \/ RemoveFails(s) \/ ListUnremoved(s)

Worker(s) ==
  \/ Meta(s) \/ MetaTest(s) \/ List(s) \/ Look(s)
  \/ Refused(s) \/ Begin(s) \/ Broken(s) \/ Complete(s) \/ Test(s)
  \/ Check(s) \/ CheckTest(s) \/ CheckSwitch(s) \/ HandleTaskErr(s) \/ Leave(s)

Running == over = "no" /\ UNCHANGED <<load, options>>
MainStep == Running /\ Main
WorkerStep(s) == Running /\ Worker(s)
Terminated == over # "no" /\ UNCHANGED vars

Next == MainStep \/ (\E s \in Slots : WorkerStep(s)) \/ Terminated

\* Goroutines are scheduled, and requests have timeouts.  Only Execute need not
\* return: a worker refused for too many connections may never be started again
\* (monitor.go:153), so nothing is assumed of the stage "write".
Fairness ==
  /\ WF_vars(MainStep)
  /\ \A s \in Slots : WF_vars(WorkerStep(s) /\ pc[s] # "write")

Spec == Init /\ [][Next]_vars
FairSpec == Spec /\ Fairness

-------------------------------------------------------------------------------
TypeOK ==
  /\ WG!TypeOK /\ tokens <= load
  /\ load \in 1..MaxLoad /\ options \in Options
  /\ deque \in Seq(Paths) /\ next \in Paths \cup {Nobody}
  /\ over \in {"no", "done", "crashed"}
  /\ job \in [Slots -> Paths \cup {Nobody}] /\ pc \in [Slots -> Stages]
  /\ own \in [Slots -> Errors] /\ seen \in [Slots -> SUBSET Paths]
  /\ err \in Errors /\ known \subseteq Paths
  /\ retry \in [Paths -> 0..MaxRetry]
  /\ file \in [Files -> FileStates] /\ mark \in [Files -> Marks]
  /\ lost \subseteq Slots
  /\ failed \subseteq Paths /\ told \subseteq Paths

\* How often task t is on its way: on the deque, or in a goroutine that is not
\* yet done with its err.
Pending(t) ==
  Cardinality({i \in DOMAIN deque : deque[i] = t})
  + (IF next = t THEN 1 ELSE 0)
  + Cardinality({s \in Slots : job[s] = t /\ pc[s] \notin {"idle", "sleep", "list", "remove", "listAgain"}})

\* Whatever err a goroutine reads, a task is never on its way twice: its file and
\* breakpoint file never have two goroutines writing to them.
OneDownloadPerTask == \A t \in Paths : Pending(t) <= 1

\* The files this run of the command has come across.
Found == {t \in Files : t \in known \/ \E i \in DOMAIN Roots : Roots[i] = t}

\* What the user can live with without being told: the file is complete and,
\* unless the check was turned off, verified; or it was there before.
Present(t) ==
  \/ file[t] = "good"
  \/ file[t] = "old" /\ ~options.overwrite
  \/ file[t] \in {"bad", "banned"} /\ options.noCheck

\* One task at a time, which is the default: when the command ends, every file
\* it came across is there, or the user was told that it is not, through every
\* retry, failed check, failed removal and breakpoint file.  (A file the check
\* could not read is found and skipped by the retry, whatever is in it.)
TruthTold ==
  (over = "done" /\ load = 1) =>
    \A t \in Found : Present(t) \/ t \in failed \cup told \cup Unreadable

\* A file that failed its check is removed to be downloaded again: when it goes,
\* its task is on its way or listed as failed (the comment at download.go:373).
RemovedToDownloadAgain ==
  [][\A t \in Files :
       file[t] \notin {"none", "empty"} /\ file'[t] = "none" =>
         \/ Pending(t)' > 0 \/ t \in (failed \cup told)'
         \/ \E s \in Slots : job'[s] = t /\ pc'[s] = "list"]_vars

\* All that is left are goroutines whose Execute has not returned.
InExecute ==
  /\ \E s \in Slots : pc[s] = "write"
  /\ \A s \in Slots : pc[s] \in {"idle", "write"}

\* The command ends, or comes to wait for nothing but calls of Execute that never
\* return: retries are bounded, no other goroutine keeps a round from ending, and
\* none is left behind on the deque.
QueueEnds == <>[](over # "no" \/ InExecute)
===============================================================================
