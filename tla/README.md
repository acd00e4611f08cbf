# BaiduPCS-Go in TLA+

This directory holds a formal model of BaiduPCS-Go, a command line and web client of the Baidu
network disk: TLA+ modules translated from the Go source, TLC configurations that check them on small
instances, and theorems about them whose proofs TLAPS checks. `PROJECT.json` relates every definition to
the lines it models, every run to its properties, and every property to a plausible bug that breaks it.

## 1. Inventory

Third-party code (`vendor/`), generated protobuf code, the compiled web assets and the wrappers around
single REST calls are left aside. What remains, by how much goes on in it:

### Downloader (`requester/downloader`, `requester/transfer`)

* State. One `Worker` per connection: its range (`wrange`), status code, pause channel and cancel
  functions. The `Monitor`: the workers, the range generator, the `ResetController`, the channel
  `completed`, the error. The breakpoint file (`InstanceState`): the generator and the ranges.
* Operations. `Downloader.Execute` (first request, choice of parallelism and block size, resume),
  `Worker.Execute`, `Pause`, `Resume`, `Reset`, `Cancel`, `Monitor.Execute` with its ticker branch
  (reset failed workers, save the breakpoint file, hand out a range, reload), `registerAllCompleted`.
* Interaction. Everything is shared memory: each worker stores its range and status with atomics, the monitor
  reads both and writes both, and a goroutine of its own decides when the download is complete.
* What is hard. A status that is read in one step and acted on in another; two goroutines of the same
  worker, one waiting for `execMu`; the range on its way from the generator to a worker; the breakpoint
  file written from ranges that move; pauses over an unbuffered channel; a limit on connections.
* Correct when no byte is dropped, none is downloaded twice, the breakpoint file accounts for every byte
  that is not on disk, success means a complete file, and the download ends.

### Range generator (`requester/transfer/rangelist.go`)

* State: mode, total, position, block size, number of ranges. One operation with a lock (`GenRange`), one
  without (`RangeCount`). Shared by the downloader and by `SplitBlock` of the uploader.
* Correct when the ranges tile the file: no gap, no overlap, none empty, and as many as `RangeCount` says.

### Uploader (`requester/uploader`, `internal/pcsfunctions/pcsupload`)

* State: a list of parts with their checksums, a deque of parts to upload, the channels `canceled`,
  `finished` and `updateInstanceStateChan`.
* Operations: `Execute`, `Cancel`, the goroutine of each part, the goroutine of its request, and the goroutine that
  reports once a second and stores the state of the upload.
* Hard: a retry of a part whose reader was half read; termination of all parts by one; the last report
  against the events of the end; an upload resumed from a stored state.
* Correct when `CreateSuperFile` is called once, with the checksum of every part, of the right bytes; when
  `Execute` returns; and when a finished upload leaves no state to resume from.

### Upload database (`internal/pcsfunctions/pcsupload/upload_database.go`)

* State: a list of (meta data, state) pairs in memory and in a JSON file. An entry holds a pointer to the
  `LocalFileMeta` of the task that added it, and changes when that task opens its file again.
* Operations: `NewUploadingDatabase`, `Search`, `UpdateUploading`, `Delete`, `Save` (truncate, then write),
  `clearModTimeChange`. The queue and the reporting goroutine of an upload call them without a lock.
* Hard: two tests of identity (path; length and MD5, also of MD5s never computed), modification times,
  a crash between the two writes.
* Correct when a file is only ever resumed from its own parts.

### Queues of tasks (`internal/pcscommand/download.go`, `upload.go`)

* State: a deque of tasks with retry counters, a list of failures, and the files already there.
  Downloads run in parallel in rounds of a wait group, uploads one by one.
* Hard: the goroutines of all downloads share one `err`; a task is queued again before its file is
  removed; rapid upload, resume and retry choose each other's entry point.
* Correct when every task ends as downloaded, skipped or reported, a retried download does not lose the
  file, an upload puts together the file as it is, and the command ends.

### Wait group (`pcsutil/waitgroup`)

* A `sync.WaitGroup` with a channel of tokens that bounds how many run at once.
* Correct when the bound holds, `Wait` returns only when all are done, and no call panics.

### Cache of directory lists (`baidupcs/cache.go`, `baidupcs/expires`)

* State: a map from an operation to a pool, and pools from a key to a list that expires. Both are
  `sync.Map`s; nothing is locked across two calls.
* Operations: `CacheOperation` (look up, or fetch and store), `LazyInitCachePoolOp`, `deleteCache` after
  every request that changes a directory.
* Correct when a list from the cache is not older than a change its reader knows of.

### Signature of a download link (`baidupcs/internal/panhome/sign2.js`)

* A pure computation: an RC4-like key schedule and stream, then base 64. Correct when it never leaves its
  arrays, loses no byte of its permutation, and the text decodes to the cipher text.

### Smaller parts with state

* Rate limit (`requester/rio/speeds/ratelimit.go`): adders blocked on a channel that a ticker replaces.
* Buffer pools (`pcsutil/cachepool`): ids handed out to concurrent callers.
* Configuration and accounts (`internal/pcsconfig`): the active account, its client, and the file.
* Web sessions (`internal/pcsweb/memory.go`): a map and a list in order of access, with garbage collection.

`PROJECT.json` lists the rest (HTTP client, command parsing, error decoding, self update, utilities) as not
modelled, each with the reason, and under `hazards` what in this code a test would hardly reach.

## 2. Plan

In this order, the behaviour that matters most first:

1. `RangeListGen`: the pure algorithm under everything. **Done, proved.**
2. `Downloader`: workers, monitor, completion, breakpoint file, pause, cancel, restart; against an abstract
   `Transfer` (bytes arrive and stay, success comes with all of them and is the last word).
   **Done, safety proved, refinement proved.**
3. `WaitGroup`, against an abstract `TaskGroup` (at most so many running, joined when none is).
   **Done, refinement proved.**
4. `Uploader`: parts, retries, termination, the reporting goroutine and the stored state; its rounds
   are those of `WaitGroup`, which it instantiates; against an abstract `Upload` (success with all parts
   acknowledged, nothing remembered that was not). **Done, safety proved, refinement proved.**
5. `UploadQueue`: the queue of uploads with its database, over runs, crashes and modified files. **Done, safety proved.**
6. `DownloadQueue`: retries, failed checks and the list of failures, composed with `WaitGroup`. **Done, safety proved.**
7. `Sign2`: the signature. **Done, proved.** `CacheMap`: the cache of directory lists. **Done, proved.**
8. `RateLimit`, `IdPool`, `Accounts`, `Sessions`: small, each with a hazard listed in `PROJECT.json`.

## 3. Modules and how they correspond to the code

`map` in `PROJECT.json` gives the lines of each definition. Definitions whose comment begins with `Mutant`
are plausible bugs; nothing uses them in a run, each only shows that a property notices it.

### `RangeListGen`

A generator is a record with the fields of the Go struct; `RangeCount`, `Repaired` (the fields `GenRange`
fixes before it locks), `GenRange` are functions on it. The state machine calls `GenRange` until it returns nil and
remembers what it returned. `GenRange` runs under its mutex, so a call is one step.

### `Downloader`

| Code | Module |
| --- | --- |
| `Worker.wrange`, `status.statusCode`, `execMu`, contexts | `begin`, `end`, `status`, `queue`/`pc`, `started`, `canceled`, `reseted` |
| `Worker.Execute` | `ExecStart`, `Respond`, `Select`, `Read`, `Write`, `Advance` |
| `Monitor.Execute` | `Tick`, `CheckFailed`, `ResetFailed`, `Put`, `PutWrite`, `GenRange`, `Assign`, `EndTick`, `Finish` |
| `InstanceState.Put`, the breakpoint file | `image` (being built, range by range), `saved` |
| `ResetController` | `resets`, `CanReset`, `ExpireReset` |
| `registerAllCompleted` | `CountWorker` for each worker, then `CountEnd` |
| `Monitor.Pause`, `Worker.Pause` | `PauseCall`, `PauseWorker`, `PauseReceive`, `PauseMark` |
| `Resume`, `Cancel` | `Resume`, `Cancel` |
| `Downloader.Execute`, run again | `Start`/`Init`, `Restart`, `Report` |

A step ends where another goroutine can see a difference: a status is read in one step and acted on in the
next, the completion goroutine reads one worker a step, `TryAddNewWork` takes the range off the generator in
one step and stores it in another, and the breakpoint data copies one range a step. `go worker.Execute()`
raises `queue`: any number of these goroutines may stand before `execMu`, one holds it.

Abstractions. The file is the set of its bytes and the server sends the right ones; an unexpected status or
length of the answer is an error of the connection (`net`). Only the block-size mode is modelled, which both front
ends select, and only a server that serves ranges. The round-robin of `GetAvaliableWorker` is a free choice
of an idle worker. The stores of `Assign` and of `Reset` are one step each. One caller pauses at a
time. A crash is the death of the process, not of the machine; a breakpoint file found torn is unreadable or
still the old one. After `Execute` has returned the file is closed, so a late `WriteAt` fails.

The reload branch of the monitor (monitor.go:412-434) is not modelled because it is dead: `maxSpeeds` is
always 0 and `IsLeftWorkersAllFailed` always false. `ReloadDue` states its condition as the code has
it, the stage `reload` is not in `Stages`, and so `TypeOK`, checked and proved, says that it is never entered.
After a cancellation with ranges left to generate, the completion goroutine goes on for ever (`ck # 0`).
`PauseWaitsForEndedOnly` says what is left of "pause all downloads": `Pause` sends on an unbuffered
channel, and waits for ever exactly when the worker it has come to has ended.

`Transfer` is `Downloader.Execute` as its caller sees it: the bytes on disk, what `Execute` returned, and whether there
is a breakpoint file that can be read (`resumable`, mapped to `saved.ok` by `Contract`). A crash changes none of the three;
an error may be followed by another call. The queue of downloads takes the file at the save path to be whole when
`Execute` has returned nil, and takes a breakpoint file for the mark of a partial one.

### `WaitGroup`, `TaskGroup`

`AddDelta` is `AddDelta` (the call), `SendToken` (the blocking send) and `CountUp` (the counter, and the
goroutine the caller starts); `Done` is `CountDown` and `TakeToken`, in the order of the code; `Wait` is `Wait` and `Join`.
`New` is the next round of the caller, with another group. Every caller in the repository is of this shape:
one goroutine adds and waits, each task calls `Done` once. `Join` also closes the channel; a receive from a
closed channel returns at once, so tasks between the halves of `Done` leave with the group they belong
to. `TaskGroup` is what callers rely on, and `Group` its refinement mapping: a task runs until its counter is taken down.

### `Uploader`

| Code | Module |
| --- | --- |
| `MultiUploader.upload`, rounds over `uploadDeque` | `Shift`, `Spawn`, `NextRound`, over `WaitGroup` with slots for tasks |
| the goroutine of a part (multiworker.go:55-113) | `Request`, `Abandon`, `Terminate`, `Retry`, `Succeed`, `Notify`, `Done` |
| `workerList[..].checksum`, `canceled`, `uperr` | `sum`, `canceled`, `uperr` |
| `CreateSuperFile`, the end of `Execute` | `Decide`, `Create`, `Finish` |
| `OnSuccess` and `OnError` of `RunUpload`: `Delete`, `Save` | `Forget`, `Save`, `Write` |
| `uploadStatusEvent` and its callback in `RunUpload` | `Tick`, `Store`, `StoreSave`, `StoreWrite`, `ReporterEnd` |
| `UploadingDatabase` of this file, in memory and on disk; on its way into the file | `mem`, `disk`; `text` |
| the loop of `InstanceState` over the parts | `image`, what was done when it began, and `InstanceState` |
| the parts the server holds, and ever acknowledged | `server`, `acked` (history) |
| requests on their way that nobody waits for any more | `loose`: `Loosen`, `Arrive` |

Abstractions. A stored state is the set of its parts with a checksum; the empty one and none are the same, for
both upload every part. `AddDelta` keeps at most `Parallel` goroutines alive, which is why slots stand for
them. A request that fails,
is abandoned, or is under way when the process dies becomes `loose`: its part may still reach the server
at any time, also during a later `Execute`, or never (`Arrive`). `TmpFile` may miss the status that
should end the upload (`missed`), which the code permits since the channel is signalled first. `Save` makes the text in one step
and writes it in another, and the goroutine in `Execute` and the reporter may both be between the two; `InstanceState` reads
the parts over an interval in which more are finished. Where the model stops: a write is one step (a crash between truncating and
writing is in `UploadQueue`; two writes that overlap could leave a file that is neither text), two goroutines that change the list of
entries at once do not corrupt it, and
what a retried part reads through its buffered reader is not modelled. `Again` waits for the old reporter: a retry sleeps
three seconds or more, the reporter wakes every second. `Abandon` is the return
of a part on `canceled`; the goroutine of its request goes on, since `client.Req` knows no context and there is no response to close
yet, so its request is `loose` from then on. `Cancel` has no caller in the repository; it is modelled, and closing the channel
twice is `Panic`. A file without parts has only `Create` and is excluded (`P` is positive).

`Upload` is what the queue relies on when it calls `Execute`, and again after an error or a crash: an upload ends in `success` when
the server has acknowledged every part and holds it; once there is a result no request is made and none is acknowledged; and what is remembered,
in memory and in the file, was acknowledged and only grows until there is a result. What was on its way (`sent`) may arrive at any
time, with a result or in a later upload; that nothing arrives late would be false (section 6). After that it may be deleted and put back: `Upload` says
that even then no part is skipped that has to be sent. `Contract` maps what is on its way (`Sent`), what the server holds, what it acknowledged and the two stored states; the
upload is `over` when `Execute` and the reporter have ended.

### `DownloadQueue`

| Code | Module |
| --- | --- |
| `dlist`, `failedList`, `err` of `RunDownload` | `deque`, `failed`, `err` |
| the outer loop: `Shift`, `AddDelta`, `go`, `Wait` | `Take`, `Acquire`, `Go`, `EndRound`, `Join`, `Again`, over `WaitGroup` |
| the goroutine of a task | `Meta`, `MetaTest`, `List`, `Look`, `Refused`/`Begin`/`Broken`/`Complete`, `Test`, `Check`, `CheckTest`, `CheckSwitch` |
| `handleTaskErr` | `Ignore`, `GiveUp`, `Retry`, `Exhaust`, `Awake`, `ListFailed`, `Remove`, `RemoveFails`, `ListUnremoved` |
| the file at the save path, and its breakpoint file | `file`, `mark` |

`err` is a variable of `RunDownload` that every goroutine assigns and tests, so each use of it is a step and
sees what another goroutine has stored. `failedList = append(...)` is a read and a write for the same reason.
`handleTaskErr` has its own copy (`own`) from the call on. A task goes through `WaitGroup` by `INSTANCE`, with
slots for goroutines. The downloader is seen from outside: `Execute` leaves a partial file and a breakpoint file, or
a complete file without one; content that was completed from a breakpoint file whose data file had been removed
(`stale`) is bad; and any completed content may be bad, since the MD5 of the server need not be that
of its bytes. `told` is what the user was told in a message that ends the task.

### `UploadQueue`

One run of the command is `Run`, then for each task `TakeFront`, `OpenPath`, `Search`, and either
`RapidUpload` or (`RapidUploadFails`, `StoreRapid`) and the upload: `Execute` starts the reporter, parts are uploaded (`UploadPart`),
and it ends (`Success`, `Expired`, `Retry` with `Wake`, `GiveUp`), each with what it does to the database. Each file has a reporter
of its own, as each `Execute` starts a goroutine: `Tick` takes the state of the upload, `Find` is the search of `UpdateUploading`,
`Put` stores the state at the index found and saves, `Leave` is the end. Nothing waits for it: it may do all of that while the
next files are searched for, uploaded and deleted from the database, and a `Delete` between `Find` and `Put` makes the index that
of another file, or of none (`Panic`). `Save` is a truncation
(`cut` when the text is shorter than what was there) and `WriteAt`. An entry is its path, meta data, state and
whether it shares the meta data with the task (`own`); a state is, for each part, the content its
checksum was taken from, which is what lets `UploadedIsLocal` compare an upload with the file. The user changes a
file between runs (`Modify`) or before the next try in a run (`Touch`); no file changes while it is being read.

Abstractions. One search, append, removal or store in the list is one step: what two goroutines do to the slice
itself at once is left out. So is another step within a `Save`; two saves that overlap, and the text made earlier than
it is written, are in `Uploader`. `StoreRapid` finds and stores in one step, since a report in between neither moves nor removes
an entry. `Wake` assumes timing: a retry sleeps three seconds or more, and within that time a reporter, which looks once a second, has
seen the end of its upload. A blank state stands for none. The command line names each file once
(`UploadQueueAssumption`); of two tasks with one path each would have meta data of its own.
Modification times are as fine as modifications (in the code, seconds). `UploadPart` is a part of `Uploader`, seen from its result.

### `CacheMap`

`LazyInit` and `Make` are the two halves of `LazyInitCachePoolOp`, `Read`, `ReadDrop`, `Fetch`, `Store` those of
`CacheOperation`, `Look` and `Delete` those of `deleteCache`. A list is the number of changes it has seen. Two histories
state the property: `since`, the changes that were done before the call, and `passed`, the
changes that dropped the cache while the list was on its way into it. `Change` may lose the answer, in which case nothing is
dropped and nobody was told. One key stands for all: the repository only caches lists in the default order, which is the order
`deleteCache` drops. `RapidUploadNoCheckDir` (fixing an MD5) and the removal of the directory itself drop nothing, and
are left out of `done`; so is the restore from the recycle bin, which changes a directory and does not touch the cache; so is a copy
or move whose request could not be prepared: `cpmvOp` returns no error then (cp_mv_rename.go:27-30).

### `Sign2`

The script, one step per turn of its loops: `Schedule` fills and exchanges, `Stream` makes a cipher value of each
unit of the text, `Encode` writes four digits for three bytes, with a branch each for one and two
bytes left. Units of the text are 16 bits wide, indices and digits are cut by the masks the script uses.

## 4. Runs

| Run | Instance | Question |
| --- | --- | --- |
| `RangeListGen` | files up to 7 bytes, up to 4 ranges, seven block sizes from -1 to 9, from every start | do the ranges tile the file |
| `Downloader` | 2 workers, a third range; failing connections, restarts, a cancellation; 2 events | bytes, breakpoint file, goroutines, races around `execMu` |
| `DownloaderLive` | 2 workers, all ranges handed out at the start; failing and refused connections, failing writes, wrong lengths, pauses; fair | it is a `Transfer`, errors are reported, it ends, and what `Pause` waits for |
| `DownloaderRace`, `DownloaderCancel` | as small as the flaw allows | section 6 |
| `WaitGroup` | 4 tasks, capacity 3; fair | tokens, refinement, no call blocks for ever |
| `Uploader` | 2 parts at a time; failures, denials, expiry, cancellation, crashes, repeated uploads; 2 events; fair | parts, checksums, stored state, it is an `Upload`, end |
| `DownloadQueue` | a directory with one file, and a banned file; 1 or 2 goroutines, 1 retry; with and without overwriting and checking; fair | tasks, truth of the report, end |
| `DownloadQueueLoss` | the same | section 6 |
| `UploadQueue` | 2 files of one part, 2 contents of one length, 1 retry; 3 runs, modifications or crashes; fair | what is put together, end |
| `CacheMap` | 3 callers, 2 changes | staleness |
| `Sign2` | the vector of the repository's test, and keys and texts at the edges | bounds, permutation, encoding |

The bounds, and why they are enough:

* `N = 2`, `Total = 3`, `BlockSize = 1`: two workers are what a race between a worker, another
  worker and the monitor needs, and the third byte is the range that is handed out later. `BufSize = 1` makes
  a range take its own steps; `DownloaderLive` has two
  bytes and two ranges of one byte (`Total = 2`, `BlockSize = 1`, a buffer of two), all handed out at the start. Ranges that take
  several reads are in no run; the refinement and the safety theorems cover any size.
* `MaxResets` 1 or 2 instead of 80: the budget runs out within the instance and is freed again by the clock. `MaxQueue = 2`: one Execute
  queued behind another; three goroutines of a worker need more events than there are.
* `MaxEvents` counts what the environment does (failed connections, restarts, calls). Two or three cover a
  failure during the recovery from another; the theorems about the downloader cover any number, and all
  kinds at once.
* `Parallel = 3` with 4 tasks: the channel is full and one caller is blocked. For the uploader, 2 parts with
  2 slots: one part is back in the deque while the other fails, succeeds or terminates the upload. The theorems cover any number of parts,
  slots and events.
* `MaxLoad = 2`, `MaxRetry = 1`, two files: a goroutine sleeps before it removes a file while the other has taken
  its retry; a retry fails again and the task is listed. `load` ranges over 1 and 2, for the command lowers it.
* `UploadQueue`: two contents of one length, which the database may confuse; two files, which may be copies of each other or
  not, so that the report of one comes while the other is uploaded. One part is enough for that, as the database stores and
  resumes a state as a whole; that some of its parts are done and others not is the subject of `Uploader`, and the theorems about what is
  put together (`UploadsLocalFile`, `StoredStatesAreHonest`) cover any number of parts, files and events. A run counts as an event: three
  are a crashed run, a modification, and the run that follows.
* `CacheMap`: a reader, a changer and a third caller that makes a pool, reads or changes in between. Two changes:
  one that is done before the read and one that overlaps it. The theorems cover any number.

## 5. Fairness

* `Downloader`: weak fairness of each worker's goroutine, of the monitor, of the completion goroutine, of the
  ageing of reset entries (a clock), and of a `Pause` that has begun. The environment's failures and calls
  are never forced. Strong fairness of `MonitorEnd`: the monitor's `select` on the ticker, the context and `completed` picks at
  random among the ready ones, so it does not prefer the ticker for ever.
* `WaitGroup`: goroutines run, and end by calling `Done`; nothing forces the owner to add or to wait.
* `Uploader`: as the downloader; requests return. That is an assumption about the network: the client of a part has no
  timeout of its own (`SetTimeout(0)`, pcsupload/upload.go:45), only the transport bounds the wait for the answer's
  header, and TCP a connection that is gone. A request that nobody waits for need not end. Strong fairness of `ReporterEnd` for the same reason as above.
* `DownloadQueue`: the command's goroutines run and the calls of the client return, but `Downloader.Execute` (the stage
  "write") need not: a worker that was refused is never started again (section 6). So `QueueEnds` says that
  the command ends or stays with a download that does not return (`InExecute`), never in a wait or a retry of its own.
* `UploadQueue`: the command's goroutine and the reporters run, and the calls of the client return.
* Modified files, crashes and new runs are never forced.
* Requests of the downloader return as well: its clients have a timeout of 10 or 20 minutes (pcscommand/download.go:509, 521).

## 6. What the code does otherwise

Three runs state what a comment says and TLC shows a behaviour of the code that does not comply:

* `DownloaderRace`: the completion goroutine counts worker 1 as complete; the monitor then gives it the last
  range; the completion goroutine counts the others, finds the generator done, and closes `completed`. Execute
  reports success with a range missing.
* `DownloaderCancel`: a canceled download takes the path of a successful one.
* `DownloadQueueLoss`: a task whose check failed goes back to the deque and its goroutine sleeps for
  seconds before it removes the file. Another goroutine takes the task, finds the file and skips it; then the file goes.

The passing runs are set up beside these: `DownloaderLive` has no range to hand out late and no cancellation,
`TruthTold` is about one goroutine at a time; the theorems `SuccessIsReal`, `CompletedIsDone` and `RemovedIsDownloadedAgain` say that without these
causes the comments are right, for every size. `FirstGen` and `Events` in the configurations are what excludes them,
nothing in the modules does.

Met while modelling, and stated as what does hold instead:

* A worker refused for too many connections (429, 509) is never started again: the only branch that would is
  dead (`IsLeftWorkersAllFailed` counts on the path that returns at once, monitor.go:153). `DownloadEnds` excuses it, and
  `QueueEnds` the command that waits for such an `Execute`.
* `Pause` waits for ever for a worker that has ended (worker.go:154): `PauseWaitsForEndedOnly`.
* A second `Resume` before the first goroutine runs leaves an Execute that downloads through the next `Pause`.
* The reporter of an upload may put back the state of an upload that has succeeded (pcscommand/upload.go:355).
  It is then the state of the parts it had seen by that time, which need not be all; every one of them was acknowledged
  (`ImplementsUpload`), so that an upload which resumes from it skips nothing that has to be sent.
* A part that is cancelled returns and leaves it to the other side to close the connection (pcsupload/upload.go:68). Nobody does,
  as there is no response yet (`Abandon`): the part may reach the server after `Execute` has returned, or while the file is uploaded again.
  It does no harm to what is remembered (`StoredIsAcked`, `ImplementsUpload`).
* A `missed` status costs a retry; `Cancel` of an upload against a terminated part panics (nothing calls it).
* With several downloads at a time, a failed meta request whose `err` another goroutine has reset to nil panics
  on a nil `downloadInfo` (`over = "crashed"`), a task may be handled with the error of another, and of two
  entries appended to `failedList` at once one may get lost. `OneDownloadPerTask` and `QueueEnds` hold all the same.
* A file that could not be read back for the check is retried; the retry finds it and skips it, unchecked.
* Two files of one length whose MD5s were never computed (no rapid upload) are one entry of the upload database: the second
  may be put together from parts of the first. And a file modified between two tries of one run keeps its entry, for the entry
  shares the meta data that the next try refreshes. And a report that comes late
  stores its state at an index which `Delete` has since moved (upload_database.go:101): it lands in the entry of another
  file, or the process panics. `UploadedIsLocal` excuses these three (`excused`), and nothing else.
* A crash between the two writes of `Save` may leave a file that cannot be decoded; every later upload then returns at once.
* A list fetched before a change and stored after the change has dropped the cache is served for up to a minute.

## 7. Proofs

All theorems hold for every value of the constants that satisfies the assumption of the module
(`RangeListGenAssumption`, `DownloaderAssumption`, `WaitGroupAssumption`, `UploaderAssumption`, `Sign2Assumption`,
`CacheMapAssumption`, `DownloadQueueAssumption`, `UploadQueueAssumption`; TLC evaluates each of them). Nothing else is
assumed, but for the hypotheses that some theorems state: `AllHandedOut`, `NoCancel` and `NoPause`, `Tree`, and one download at a time.

* `RangeListGenProofs`. Two facts about one call carry everything: it begins where the generator stands, and
  the new position is inside the file. In the default mode the second needs `Sized`: the position is
  `count * blockSize`, and `blockSize * parallel` does not exceed the file. Proved: `GenTypeCorrect`, `NoGap`, `NoOverlap`,
  `NoEmptyRange`. `CountsRanges` adds what is left to count: the number of ranges handed out and the number of
  blocks that the rest of the file needs (`BlocksNeeded`, a quotient rounded up) add up to what `RangeCount` said at the start, in the
  default mode, or from the border of a block. From elsewhere `RangeCount`, which rounds by the length of the whole file, is
  at most one off. A block size of zero or less, by which it would divide, is left out.
* `DownloaderProofs`. Three invariants, each inductive relative to the former.
  `Inv` (types, ranges in the file, and who is idle): `TryAddNewWork` relies on a status alone, and what makes
  it right is `CompletedIsIdle`: a worker whose status is complete has no running Execute and an empty
  range until the monitor ends, because statuses that count as complete are stored last, and a cancellation
  comes only when the monitor has ended. `ByteInv`: bytes are where `NoByteLost` says, a chunk is on disk before
  the range advances, and a copy in the breakpoint data is never ahead of its worker (`CopyBehind`); this gives
  `NothingLost` and `ResumeSafety`. `DisjointInv`: the live ranges, the copies and the file on disk each hold no byte
  twice, also across a restart; this gives `NothingTwice`. `RangeStability` and `NobodyForgotten` follow from `Inv`.
  The environment's events are unbounded there (`MaxEvents` is any number), and so is the number of pauses,
  resets and restarts. `SuccessInv` is about success, which is true only under two hypotheses, each with a violation run that
  shows why: the first ranges hold the whole file (`AllHandedOut`; so it is when the block size is
  `total/parallel + 1`, the smaller of the two `SelectBlockSizeAndInitRangeGen` chooses from), and nobody cancels (`NoCancel`).
  Then ranges only shrink, a complete worker has an empty one (`CompletedIsEmpty`), and what the completion goroutine has
  counted stays true while it counts the rest and when the monitor takes the result (`CountIsLasting`): the status of a worker may
  change behind it, its range may not grow. With `NothingLost` this gives `SuccessIsReal`, and with `EndsOnce` (`Execute`
  returns when the monitor ends, and no breakpoint file is written after that) `DownloaderImplementsTransfer`.
  `CompletedIsDone` is about the statuses behind that, and takes `AllHandedOut` and `NoPause` instead: then a worker has one goroutine
  (`OneGoroutine`), so what is about to be reset is still failed (`FailedIsIdle`) and what was counted as complete stays complete
  (`CountIsFinal`). With pauses it is false: after two calls of `Resume` a worker has two Executes, a `Pause` takes one out of its
  loop, and marks the worker as paused when the other has completed it.
* `WaitGroupProofs`. The invariant counts: the counter is the number of running tasks, the tokens that of all
  tasks that hold one. Counting is what makes `Join` safe (a counter of zero means nobody runs) and `SendToken` respect the
  bound of `TaskGroup`. Proved: `GroupTypeCorrect` (the counter never goes
  below zero), `NoTokenLeaks`, and `Implementation`, that every step is one of `TaskGroup` or a stutter.

* `UploaderProofs`. Four invariants, each relative to the former. `GroupInv` counts the goroutines of the parts, so that past
  `Wait` no part is in hand. `PartsInv`: a part is in one place at a time (deque, about to be started, with a goroutine, or
  done); a deque without duplicates is never longer than the file has parts. It needs what the deque starts with, `ToUpload`: that an
  ascending enumeration of a finite set of numbers exists (`AscendingExists`) is proved by counting, since the provers cannot
  do induction. `Acknowledged`: a checksum kept anywhere, also in a text not yet written, is that of an acknowledged part, also across a crash.
  `EndInv`: how `Execute` comes to its result. Proved: every invariant of the run. `UploaderImplementsUpload` needs one more,
  `OnlyGrows`: until there is a result the reporter is the only one who saves, what it has read is between what it found before and what is
  done now, and so the memory, and the file after it, only grow. Each action of the three kinds of goroutine is then a step of `Upload`
  or a stutter (`StepExecutes`, `StepUploads`, `StepReports`), as is
  the arrival of a loose request (`StepArrives`): `sent` grows only without a result (`SentGrows`), and a crash changes nothing in it (`SentSurvives`). `NobodyWaitsInVain` is the safety half of `UploadEnds`. It counts the slots that
  hold a token (`TokensHeld`), which holds since every step is one of `WaitGroup` or begins anew (`UsesWaitGroup`), and adds that the reporter
  receives until the message of the end (`ReporterWaits`): what a goroutine waits for is there or is with one that can go on. It also says that a goroutine let in by
  `AddDelta` finds a slot free, so that slots, which the model has instead of goroutines, restrict nothing.
* `Sign2Proofs`. `Inv`: indices stay in their tables, the table is a permutation throughout (`Shuffled`: an exchange keeps
  it one), and input and output advance together (`Aligned`). Proved for every key and text: `SignTypeCorrect`, `StaysShuffled`, and
  `SignatureDecodes`: decoding the digits gives the cipher values back, for each of the three lengths the last group may have.
* `CacheMapProofs`. The pool in the map is always the one made last, and each caller makes at most one. A change is
  made before its caller asks for a pool, so what is stored in any later pool was fetched with the change in it
  (`LaterHave`); from its own pool the caller drops the list. So no pool that may still be handed out holds a list without a
  change that is done (`LatestKnow`). Each step is first reduced to what it does to one call and one pool (`Shape`), and the
  invariant follows from that alone. Proved: `CacheTypeCorrect`, `StaleLists`.
* `DownloadQueueProofs`. `GroupInv` is that of the uploader: when `Wait` has returned, no goroutine has a task. `JobsFit`: only
  files reach the stages of a download. `WayInv` is about what is on its way (on the deque, shifted off it, or with a goroutine
  not yet done with its err): each task at most once (`Once`), and nothing that is in a directory while the directory is
  (`ContentsWait`), so that its list adds only tasks that are nowhere yet. `Below`, what is in a directory at any depth, is the
  least closed set and not a recursion, which the provers could not unfold. Proved: `QueueTypeCorrect`, and
  `OneDownloadInATree` from the assumption `Tree`: the command line and the lists name each path once. Without it the property
  fails, as `RunDownload` does not look for duplicates. The instance of the run is such a tree. `TruthInv` is about one task
  at a time, where `err` has one writer (`Alone`, `Ends`). It follows a file through the loop of its task (`Loop`: on the deque, in a
  goroutine, or between the two) and says that a file that was found and is not on its way is there or reported (`FoundKept`,
  `Truth`), that what a stage knows of `err` is so (`StageFits`, `Caught`), and that a breakpoint file marks a partial file
  (`PartMarked`). It holds when a path is named more than once. Proved from it: `TruthIsTold`, and `RemovedIsDownloadedAgain`,
  the property that `DownloadQueueLoss` shows two goroutines to break. `RoundsAreWaitGroups` composes: the queue, seen
  through the variables of its group, is a `WaitGroup`. `NoMoreThanLoad` counts its tokens as in the uploader, against `load` instead of the slots.
* `UploadQueueProofs`. The invariant says what makes a stored state worth trusting (`Honest`): as long as the file has the time
  the entry was stored with, the MD5 and the checksums are of what the file contains. This holds of the database file
  (`DiskInv`) at every step, so a crash changes nothing; of the list in memory (`DbInv`), where an entry that shares the meta data of a
  task moreover has the time of the file; and of the task itself, the checksums of its upload and what its reporter has read of them (`TaskInv`). The three cases that
  `UploadedIsLocal` excuses are the steps that may break it. That times only grow, and are never reused (`TimesInv`), is an assumption of the
  model: `Modify` and `Touch` give the file a new time, and a file changed without that is beyond what the code can notice.
  Proved: `UploadQueueTypeCorrect`, `StoredStatesAreHonest`, `UploadsLocalFile`. `DatabaseHasOneEach` is about the list alone: what
  `clearModTimeChange` and `Delete` leave is taken from positions of its own (`Part`), and `UpdateUploading` adds an entry only when none
  has the path (`NoMatch`). A reporter that found none adds one later (`FoundInv`), and meanwhile nobody else adds one for its file: a
  file is named once, and is not taken again while its reporter runs (`QueueInv`). It needs no excuse; without it a state could hide behind an older one of the same file.

Every invariant and action property that a run checks is proved, but for `MatchesStandard`. Only model-checked: that one,
a computation of three hundred steps on given data, which TLC evaluates and for which a proof would be the same evaluation by
hand; and every liveness property (the prover does not handle fairness or ENABLED).

## 8. Not modelled

`components` in `PROJECT.json` lists every part with its reason: code without state of its own (the REST client,
command parsing, error decoding, conversions), pure I/O (self update, HTTP configuration, checksums), third-party and
generated code, and the parts the plan has left. `hazards` says for each hazard which property would notice it, or
why none does yet.
