---------------------------- MODULE MCDownloadQueue ----------------------------
(* A directory that contains one file, next to another file, for which the
   server sends its notice and which the disk does not always give back. *)
EXTENDS DownloadQueue

MCDirs == {"dir"}
MCFiles == {"a", "b"}
MCRoots == <<"dir", "b">>
MCChildren == [d \in MCDirs |-> <<"a">>]
MCUnsummed == {}
MCBanned == {"b"}
MCUnreadable == {"b"}
MCBefore == {"a"}
MCOptions == {[overwrite |-> x, noCheck |-> x] : x \in BOOLEAN}
================================================================================
