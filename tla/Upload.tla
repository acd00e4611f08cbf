--------------------------------- MODULE Upload ---------------------------------
(***************************************************************************)
(* What the queue of uploads relies on when it calls MultiUploader.Execute, *)
(* and calls it again after an error or a crash: the upload succeeds when   *)
(* the server has acknowledged every part and still holds it; what is       *)
(* remembered of it, in memory and in the database file, is never more than *)
(* the server has acknowledged, and grows until there is a result.  With a  *)
(* result no request is made and none acknowledged; one that was on its way *)
(* before may arrive at any time, in a later upload as well.                *)
(***************************************************************************)
CONSTANT Parts

VARIABLES
  sent,    \* the parts of which a request is on its way
  held,    \* the parts the server holds
  given,   \* the parts it ever acknowledged
  memory,  \* the parts a stored state says are done: in memory
  file,    \* and in the database file
  result,  \* what Execute ends with, "none" before that
  over     \* Execute has returned, and nothing of it is left running

Init ==
  /\ sent = {} /\ held = {} /\ given = {} /\ memory = {} /\ file = {}
  /\ result = "none" /\ over = FALSE

\* A part is sent.
Send ==
  /\ result = "none" /\ \E p \in Parts : sent' = sent \cup {p}
  /\ UNCHANGED <<held, given, memory, file, result, over>>

\* A request of part p ends; there may be another on its way.
Ends(p) == p \in sent /\ sent' \in {sent, sent \ {p}}

\* A part reaches the server, which acknowledges it.
Receive ==
  /\ result = "none"
  /\ \E p \in Parts : Ends(p) /\ held' = held \cup {p} /\ given' = given \cup {p}
  /\ UNCHANGED <<memory, file, result, over>>

\* A part reaches the server, or does not, and nobody hears of it.
Arrive ==
  /\ \E p \in Parts : Ends(p) /\ held' \in {held, held \cup {p}}
  /\ UNCHANGED <<given, memory, file, result, over>>

\* The server drops the parts of an upload that was never finished.
Expire == held' = {} /\ UNCHANGED <<sent, given, memory, file, result, over>>

\* Without a result, only more is remembered; with one, the state may be deleted,
\* and a report that comes late may put it back.
Remember ==
  /\ ~over
  /\ memory' \subseteq given
  /\ result = "none" => memory \subseteq memory'
  /\ UNCHANGED <<sent, held, given, file, result, over>>

\* Without a result, the file is written as the memory is.  After that it may be
\* the last thing to be done.
Write ==
  /\ ~over /\ over' \in {FALSE, result # "none"}
  /\ file' \subseteq given
  /\ result = "none" => file' = memory
  /\ UNCHANGED <<sent, held, given, memory, result>>

\* The last request: all parts are there, or some have been dropped since.
Complete ==
  /\ result = "none" /\ given = Parts
  /\ result' = IF held = Parts THEN "success" ELSE "expired"
  /\ UNCHANGED <<sent, held, given, memory, file, over>>

Fail ==
  /\ result = "none" /\ result' \in {"error", "canceled"}
  /\ UNCHANGED <<sent, held, given, memory, file, over>>

Return ==
  /\ result # "none" /\ over' = TRUE
  /\ UNCHANGED <<sent, held, given, memory, file, result>>

\* The upload runs again: after an error on what the memory says, after a crash
\* or in another run of the command on what the file says.
Again ==
  /\ memory' = file \/ (over /\ result = "error" /\ memory' = memory)
  /\ result' = "none" /\ over' = FALSE
  /\ UNCHANGED <<sent, held, given, file>>

Next ==
  \/ Send \/ Receive \/ Arrive \/ Expire \/ Remember \/ Write
  \/ Complete \/ Fail \/ Return \/ Again

Spec == Init /\ [][Next]_<<sent, held, given, memory, file, result, over>>
=================================================================================
