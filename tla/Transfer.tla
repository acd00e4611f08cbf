-------------------------------- MODULE Transfer --------------------------------
(***************************************************************************)
(* What the queue of downloads relies on when it calls Downloader.Execute,  *)
(* and calls it again after an error or a crash: bytes of the file arrive   *)
(* and stay, success comes when all of them are there, takes the breakpoint *)
(* file away for good and is the last word.                                 *)
(***************************************************************************)
CONSTANT Bytes

VARIABLES
  written,   \* the bytes that are on disk
  outcome,   \* what Execute returned, "running" before that
  resumable  \* there is a breakpoint file that can be read

Init == written = {} /\ outcome = "running" /\ resumable = FALSE

\* Some bytes arrive, of whatever connections; also bytes that were in hand when
\* Execute returned.
Arrive ==
  /\ written' \in SUBSET Bytes /\ written \subseteq written'
  /\ UNCHANGED <<outcome, resumable>>

\* The breakpoint file is written, or found torn.
Save == outcome = "running" /\ resumable' \in BOOLEAN /\ UNCHANGED <<written, outcome>>

Succeed ==
  /\ outcome = "running" /\ written = Bytes
  /\ outcome' = "success" /\ resumable' = FALSE
  /\ UNCHANGED written

Fail == outcome = "running" /\ outcome' = "error" /\ UNCHANGED <<written, resumable>>

\* The download is run again, on what is there.
Again == outcome = "error" /\ outcome' = "running" /\ UNCHANGED <<written, resumable>>

Next == Arrive \/ Save \/ Succeed \/ Fail \/ Again

Spec == Init /\ [][Next]_<<written, outcome, resumable>>
=================================================================================
