------------------------------ MODULE MCDownloader ------------------------------
(* Two workers, a file of a few bytes.                                         *)
EXTENDS Downloader
=================================================================================
