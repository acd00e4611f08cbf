------------------------------ MODULE UploadQueue ------------------------------
(***************************************************************************)
(* RunUpload (internal/pcscommand/upload.go) and the database of unfinished *)
(* uploads (pcsupload/upload_database.go), over any number of runs of the   *)
(* process.  Files are taken off a list one at a time: the database is      *)
(* searched for a state to resume from, a rapid upload (by checksums only)  *)
(* is tried, then the parts are uploaded.  Uploader models that last step   *)
(* in detail; here a state is what matters to the database: for each part   *)
(* the content of the file its checksum was taken from.                     *)
(*                                                                          *)
(* The database keeps pointers: an entry added by UpdateUploading holds the *)
(* LocalFileMeta of the task itself (`own`), and changes with it.           *)
(*                                                                          *)
(* Execute starts a goroutine that stores the state of its upload.  Nothing *)
(* waits for it: its last report may come while the next files are uploaded *)
(* and nothing locks the database.                                          *)
(***************************************************************************)
EXTENDS Integers, Sequences, FiniteSets, SequencesExt

CONSTANTS
  Files,      \* the local paths, each once, in the order of the command line
  Contents,   \* what may be in a file
  Before,     \* what the files may contain at the start
  Length,     \* content -> its length
  Parts,      \* the parts of a file
  MaxRetry,   \* opt.MaxRetry
  NotRapid,   \* the values opt.NotRapidUpload may have
  Events,     \* what the environment may do in this instance
  MaxEvents   \* bound on the number of environment events

Paths == {Files[i] : i \in DOMAIN Files}
None == "none"
\* The state of an upload of which no part has a checksum, and no state: one
\* that is stored without a state has an MD5, so both resume in the same way.
Blank == [p \in Parts |-> None]

ASSUME UploadQueueAssumption ==
  /\ Files \in Seq(STRING) /\ None \notin Contents
  /\ \A i, j \in DOMAIN Files : Files[i] = Files[j] => i = j
  /\ Length \in [Contents -> Nat] /\ IsFiniteSet(Parts)
  /\ Before \subseteq [Paths -> Contents]
  /\ MaxRetry \in Nat /\ MaxEvents \in Nat
  /\ NotRapid \subseteq BOOLEAN
  /\ Events \subseteq {"modify", "touch", "crash"}

VARIABLES
  content, mtime,  \* file -> what is in it, and since when
  disk,      \* the database file: its entries
  cut,       \* the file cannot be decoded
  db,        \* UploadingList
  saving,    \* Save is between Truncate and WriteAt
  pc,        \* where the process is
  queue,     \* ulist
  cur,       \* the task off the list
  notRapid,  \* opt.NotRapidUpload
  meta,      \* file -> the LocalFileMeta of its task
  retry,     \* file -> task.retry
  sums,      \* file -> the checksums of its upload
  notice,    \* file -> updateInstanceStateChan of its upload is full
  reporter,  \* file -> where the reporting goroutine of its upload is
  shot,      \* file -> the state that goroutine has taken of the upload
  found,     \* file -> the index at which it is about to store that state
  events,    \* number of environment events so far
  excused,   \* history: a file was modified under a task, or taken for another
  mixed      \* history: a file was created from parts of something else

fileVars == <<content, mtime>>
dbVars == <<disk, cut, db, saving>>
taskVars == <<meta, retry>>
reportVars == <<sums, notice, reporter, shot, found>>
runVars == <<queue, cur, notRapid>>
vars == <<fileVars, dbVars, taskVars, pc, runVars, reportVars, events, excused, mixed>>

Stages == {"down", "top", "search", "control", "rapid", "store", "upload", "sleep"}
Reporters == {"off", "on", "find", "put"}
Metas == [length : {0} \cup {Length[c] : c \in Contents}, md5 : Contents \cup {None}, mtime : 0..MaxEvents]
States == [Parts -> Contents \cup {None}]
Entries == [path : Paths, meta : Metas, state : States, own : BOOLEAN]

\* The meta data of a task before its file is opened for the first time.
NoMeta == [f \in Paths |-> [length |-> 0, md5 |-> None, mtime |-> 0]]

Init ==
  /\ content \in Before /\ mtime = [f \in Paths |-> 0]
  /\ disk = <<>> /\ cut = FALSE /\ db = <<>> /\ saving = FALSE
  /\ pc = "down" /\ queue = <<>> /\ cur = None /\ notRapid = FALSE
  /\ meta = NoMeta /\ retry = [f \in Paths |-> 0]
  /\ sums = [f \in Paths |-> Blank] /\ notice = [f \in Paths |-> FALSE]
  /\ reporter = [f \in Paths |-> "off"]
  /\ shot = [f \in Paths |-> Blank] /\ found = [f \in Paths |-> 0]
  /\ events = 0 /\ excused = FALSE /\ mixed = FALSE

-------------------------------------------------------------------------------
(* The database. *)

EqualLengthMD5(e, f) == e.meta.length = meta[f].length /\ e.meta.md5 = meta[f].md5

Matches(e, f) == EqualLengthMD5(e, f) \/ e.path = f

\* Index of the first entry that matches the meta data of f; 0: there is none.
Match(list, f) ==
  LET hits == {i \in DOMAIN list : Matches(list[i], f)} IN
  IF hits = {} THEN 0 ELSE CHOOSE i \in hits : \A j \in hits : i <= j

\* The entry of another file, with no MD5 that says it has the content of f.
Foreign(e, f) == e.path # f /\ ~(EqualLengthMD5(e, f) /\ e.meta.md5 # None)

\* Such an entry counts as that of f.
Mistaken(list, f) == LET i == Match(list, f) IN i > 0 /\ Foreign(list[i], f)

\* UpdateUploading: what it does to the list, having found index i (0: none).
UpdateUploading(list, i, f, s) ==
  IF i > 0 THEN [list EXCEPT ![i].state = s]
  ELSE Append(list, [path |-> f, meta |-> meta[f], state |-> s, own |-> TRUE])

Delete(list, f) ==
  LET i == Match(list, f) IN IF i > 0 THEN RemoveAt(list, i) ELSE list

\* clearModTimeChange: entries of files that have changed since are dropped.
Unchanged(e) == e.meta.mtime = mtime[e.path]
\* Mutant: they are kept.
KeepAll(list) == list
ClearModTimeChange(list) ==
  LET kept == {i \in DOMAIN list : Unchanged(list[i])}
      order == CHOOSE q \in [1..Cardinality(kept) -> kept] :
                 \A i, j \in DOMAIN q : i < j => q[i] < q[j]
  IN [i \in 1..Cardinality(kept) |-> list[order[i]]]

\* The length of the JSON text grows with the entries and their checksums.
Size(list) ==
  Len(list) * (Cardinality(Parts) + 1)
  + Cardinality({at \in (DOMAIN list) \X Parts : list[at[1]].state[at[2]] # None})

\* Save(list): first the file gets the length of the new text.  A shorter text
\* cuts the old one, and a longer one leaves it with zeros behind, which the
\* decoder does not reach.
Save(list) ==
  /\ db' = list /\ saving' = TRUE
  /\ cut' = (Size(list) < Size(disk)) /\ UNCHANGED disk

WriteAt ==
  /\ saving /\ saving' = FALSE /\ cut' = FALSE
  /\ disk' = [i \in DOMAIN db |-> [db[i] EXCEPT !.own = FALSE]]
  /\ UNCHANGED <<fileVars, db, taskVars, pc, runVars, reportVars, events, excused, mixed>>

-------------------------------------------------------------------------------
(* The queue. *)

\* A run of the command.  It returns at once when the database cannot be read.
Run ==
  /\ pc = "down" /\ events < MaxEvents /\ events' = events + 1
  /\ ~cut
  /\ pc' = "top" /\ db' = disk /\ queue' = Files
  /\ notRapid' \in NotRapid
  /\ UNCHANGED <<fileVars, disk, cut, saving, taskVars, cur, reportVars, excused, mixed>>

\* The process ends, and forgets everything but the two kinds of files.
Stop ==
  /\ pc' = "down" /\ saving' = FALSE /\ db' = <<>>
  /\ queue' = <<>> /\ cur' = None /\ notRapid' = FALSE
  /\ retry' = [f \in Paths |-> 0] /\ meta' = NoMeta
  /\ sums' = [f \in Paths |-> Blank] /\ notice' = [f \in Paths |-> FALSE]
  /\ reporter' = [f \in Paths |-> "off"]
  /\ shot' = [f \in Paths |-> Blank] /\ found' = [f \in Paths |-> 0]

End ==
  /\ pc = "top" /\ queue = <<>> /\ Stop
  /\ UNCHANGED <<fileVars, disk, cut, events, excused, mixed>>

TakeFront ==
  /\ pc = "top" /\ queue # <<>>
  /\ pc' = "search" /\ cur' = Head(queue) /\ queue' = Tail(queue)
  /\ UNCHANGED <<fileVars, dbVars, taskVars, notRapid, reportVars, events, excused, mixed>>

\* Opening a file refreshes length and time of its meta data.
Refreshed(m) == [m EXCEPT !.length = Length[content[cur]], !.mtime = mtime[cur]]

\* An entry that shares the meta data changes too.  The file may be unreadable.
OpenPath ==
  /\ pc = "search"
  /\ \/ pc' = "top" /\ UNCHANGED <<meta, db>>
     \/ /\ pc' = "control"
        /\ meta' = [meta EXCEPT ![cur] = Refreshed(@)]
        /\ db' = [i \in DOMAIN db |->
                    IF db[i].own /\ db[i].path = cur THEN [db[i] EXCEPT !.meta = Refreshed(@)]
                    ELSE db[i]]
  /\ UNCHANGED <<fileVars, disk, cut, saving, retry, runVars, reportVars, events, excused, mixed>>

\* Execute, with the state to resume from, starts the reporting goroutine.
Execute(s) ==
  /\ pc' = "upload"
  /\ sums' = [sums EXCEPT ![cur] = s] /\ reporter' = [reporter EXCEPT ![cur] = "on"]
  /\ UNCHANGED <<notice, shot, found>>

\* Search, and the choice between rapid upload and upload.
Search ==
  /\ pc = "control"
  /\ LET list == ClearModTimeChange(db)
         i == Match(list, cur)
         hit == i > 0 /\ (EqualLengthMD5(list[i], cur) \/ list[i].meta.length = meta[cur].length)
         s == IF hit THEN list[i].state ELSE Blank
         md5 == IF hit THEN list[i].meta.md5 ELSE meta[cur].md5
     IN
     /\ db' = IF i > 0 /\ ~hit THEN Delete(list, cur) ELSE list
     /\ meta' = [meta EXCEPT ![cur].md5 = md5]
     /\ excused' = (excused \/ Mistaken(list, cur))
     /\ IF s # Blank \/ md5 # None \/ notRapid \/ retry[cur] > 0 THEN Execute(s)
        ELSE pc' = "rapid" /\ UNCHANGED reportVars
  /\ UNCHANGED <<fileVars, disk, cut, saving, retry, runVars, events, mixed>>

\* The file is there already, the list of its directory cannot be read, the
\* quota is full, or the server has the content: nothing is left to do.
RapidUpload ==
  /\ pc = "rapid" /\ pc' = "top"
  /\ meta' = [meta EXCEPT ![cur].md5 = content[cur]]
  /\ UNCHANGED <<fileVars, dbVars, retry, runVars, reportVars, events, excused, mixed>>

\* The server does not know the content: the checksums are stored with no state.
RapidUploadFails ==
  /\ pc = "rapid"
  /\ meta' = [meta EXCEPT ![cur].md5 = content[cur]]
  /\ pc' = "store"
  /\ UNCHANGED <<fileVars, dbVars, retry, runVars, reportVars, events, excused, mixed>>

\* One step: late reports replace states and append, so the index stays right.
StoreRapid ==
  /\ pc = "store"
  /\ Save(UpdateUploading(db, Match(db, cur), cur, Blank))
  /\ Execute(Blank)
  /\ UNCHANGED <<fileVars, taskVars, runVars, events, excused, mixed>>

UploadPart(p) ==
  /\ pc = "upload" /\ sums[cur][p] = None
  /\ sums' = [sums EXCEPT ![cur][p] = content[cur]] /\ notice' = [notice EXCEPT ![cur] = TRUE]
  /\ UNCHANGED <<fileVars, dbVars, taskVars, pc, runVars, reporter, shot, found, events, excused, mixed>>

Uploaded == None \notin {sums[cur][p] : p \in Parts}

\* OnSuccess: CreateSuperFile was given the checksum of every part.
Success ==
  /\ pc = "upload" /\ Uploaded
  /\ mixed' = (mixed \/ \E p \in Parts : sums[cur][p] # content[cur])
  /\ Save(Delete(db, cur))
  /\ pc' = "top"
  /\ UNCHANGED <<fileVars, taskVars, runVars, reportVars, events, excused>>

\* OnError, error 31363: the server no longer has the parts.
Expired ==
  /\ pc = "upload" /\ Uploaded
  /\ Save(Delete(db, cur))
  /\ pc' = "top"
  /\ UNCHANGED <<fileVars, taskVars, runVars, reportVars, events, excused, mixed>>

\* Mutant: a task is retried without end.
RetryUnlimited ==
  /\ pc = "upload"
  /\ retry' = [retry EXCEPT ![cur] = @ + 1]
  /\ queue' = Append(queue, cur) /\ pc' = "sleep"
  /\ UNCHANGED <<fileVars, dbVars, meta, cur, notRapid, reportVars, events, excused, mixed>>

\* Mutant: retries are not counted.
RetryAlways ==
  /\ pc = "upload"
  /\ queue' = Append(queue, cur) /\ pc' = "sleep"
  /\ UNCHANGED <<fileVars, dbVars, taskVars, cur, notRapid, reportVars, events, excused, mixed>>

\* OnError with an error worth a retry.
Retry ==
  /\ pc = "upload" /\ retry[cur] < MaxRetry
  /\ retry' = [retry EXCEPT ![cur] = @ + 1]
  /\ queue' = Append(queue, cur) /\ pc' = "sleep"
  /\ UNCHANGED <<fileVars, dbVars, meta, cur, notRapid, reportVars, events, excused, mixed>>

\* handleTaskErr sleeps for three seconds at least; a reporter needs no more
\* than the second of its ticker to see that its upload is over.
Wake ==
  /\ pc = "sleep" /\ pc' = "top"
  /\ \A f \in Paths : reporter[f] = "off"
  /\ UNCHANGED <<fileVars, dbVars, taskVars, runVars, reportVars, events, excused, mixed>>

\* OnError without one, or with no retry left.
GiveUp ==
  /\ pc = "upload" /\ pc' = "top"
  /\ UNCHANGED <<fileVars, dbVars, taskVars, runVars, reportVars, events, excused, mixed>>

Upload == (\E p \in Parts : UploadPart(p)) \/ Success \/ Expired \/ Retry \/ Wake \/ GiveUp
Process == End \/ TakeFront \/ OpenPath \/ Search \/ RapidUpload \/ RapidUploadFails \/ StoreRapid \/ Upload

-------------------------------------------------------------------------------
(* The reporting goroutine of the upload of file f, which may be over. *)

\* A tick, with a notice: the state of the upload is taken,
Tick(f) ==
  /\ reporter[f] = "on" /\ notice[f]
  /\ reporter' = [reporter EXCEPT ![f] = "find"]
  /\ notice' = [notice EXCEPT ![f] = FALSE] /\ shot' = [shot EXCEPT ![f] = sums[f]]
  /\ UNCHANGED <<fileVars, dbVars, taskVars, pc, runVars, sums, found, events, excused, mixed>>

\* UpdateUploading looks for an entry,
Find(f) ==
  /\ reporter[f] = "find"
  /\ reporter' = [reporter EXCEPT ![f] = "put"] /\ found' = [found EXCEPT ![f] = Match(db, f)]
  /\ UNCHANGED <<fileVars, dbVars, taskVars, pc, runVars, sums, notice, shot, events, excused, mixed>>

\* and stores the state at its index.  Delete may have moved another entry there
Put(f) ==
  /\ reporter[f] = "put" /\ found[f] <= Len(db)
  /\ Save(UpdateUploading(db, found[f], f, shot[f]))
  /\ excused' = (excused \/ (found[f] > 0 /\ Foreign(db[found[f]], f)))
  /\ reporter' = [reporter EXCEPT ![f] = "on"]
  /\ shot' = [shot EXCEPT ![f] = Blank] /\ found' = [found EXCEPT ![f] = 0]
  /\ UNCHANGED <<fileVars, taskVars, pc, runVars, sums, notice, events, mixed>>

\* or have left none: the process panics.
Panic(f) ==
  /\ reporter[f] = "put" /\ found[f] > Len(db)
  /\ Stop
  /\ UNCHANGED <<fileVars, disk, cut, events, excused, mixed>>

\* It receives from `finished`.
Leave(f) ==
  /\ reporter[f] = "on" /\ ~(pc = "upload" /\ cur = f)
  /\ reporter' = [reporter EXCEPT ![f] = "off"]
  /\ notice' = [notice EXCEPT ![f] = FALSE] /\ sums' = [sums EXCEPT ![f] = Blank]
  /\ UNCHANGED <<fileVars, dbVars, taskVars, pc, runVars, shot, found, events, excused, mixed>>

Report(f) == Tick(f) \/ Find(f) \/ Put(f) \/ Panic(f) \/ Leave(f)

-------------------------------------------------------------------------------
Happens(e) == e \in Events /\ events < MaxEvents /\ events' = events + 1

ModifyTo(f, c) ==
  /\ content' = [content EXCEPT ![f] = c]
  /\ mtime' = [mtime EXCEPT ![f] = @ + 1]
  /\ UNCHANGED <<dbVars, taskVars, pc, runVars, reportVars, mixed>>

\* A file is modified between two runs,
Modify ==
  /\ Happens("modify") /\ pc = "down"
  /\ \E f \in Paths, c \in Contents : c # content[f] /\ ModifyTo(f, c)
  /\ UNCHANGED excused

\* or in a run, before its next try.
Touch ==
  /\ Happens("touch") /\ pc = "top" /\ ~saving
  /\ \E f \in Paths, c \in Contents : c # content[f] /\ ModifyTo(f, c)
  /\ excused' = TRUE

Crash ==
  /\ Happens("crash") /\ pc # "down" /\ Stop
  /\ UNCHANGED <<fileVars, disk, cut, excused, mixed>>

Terminated == pc = "down" /\ UNCHANGED vars

\* A Save is not interleaved with other steps here: Uploader has that.
Goroutines == ~saving /\ (Process \/ \E f \in Paths : Report(f))

Next == Run \/ Goroutines \/ WriteAt \/ Modify \/ Touch \/ Crash \/ Terminated

Spec == Init /\ [][Next]_vars
FairSpec == Spec /\ WF_vars(Goroutines \/ WriteAt)

-------------------------------------------------------------------------------
TypeOK ==
  /\ content \in [Paths -> Contents] /\ mtime \in [Paths -> 0..MaxEvents]
  /\ disk \in Seq(Entries) /\ cut \in BOOLEAN
  /\ db \in Seq(Entries) /\ saving \in BOOLEAN
  /\ pc \in Stages /\ queue \in Seq(Paths) /\ cur \in Paths \cup {None}
  /\ notRapid \in BOOLEAN
  /\ meta \in [Paths -> Metas] /\ retry \in [Paths -> 0..MaxRetry]
  /\ sums \in [Paths -> States] /\ notice \in [Paths -> BOOLEAN]
  /\ reporter \in [Paths -> Reporters]
  /\ shot \in [Paths -> States] /\ found \in [Paths -> Nat]
  /\ events \in 0..MaxEvents /\ excused \in BOOLEAN /\ mixed \in BOOLEAN

\* What an upload puts together is the file as it is on disk: no state stored by
\* another run, for another file, before a modification or before a crash gets
\* into it.  Three cases are excused, and do occur: a file modified between two
\* tries of one run (its entry shares the meta data that the next try
\* refreshes), two files of one length without an MD5 to tell them apart, and a
\* late report stored at an index that has become that of another file.
UploadedIsLocal == ~excused => ~mixed

\* Every run of the command ends: retries are bounded, and every reporter sees
\* that its upload is over.
RunEnds == []<>(pc = "down")
================================================================================
