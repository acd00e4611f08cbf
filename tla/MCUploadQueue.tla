---------------------------- MODULE MCUploadQueue ----------------------------
(* Two files of one part; two contents of one length. *)
EXTENDS UploadQueue

MCContents == {"c1", "c2"}
MCLength == [c \in MCContents |-> 1]

MCFiles == <<"f", "g">>
\* Up to the names of c1 and c2: two copies of one file, two files of one length.
MCBefore == {[p \in {"f", "g"} |-> IF p = "f" THEN "c1" ELSE c] : c \in {"c1", "c2"}}
==============================================================================
