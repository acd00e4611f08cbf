------------------------------- MODULE MCUploader -------------------------------
(* Instances of Uploader: the .cfg files give the sizes and the events. *)
EXTENDS Uploader
=================================================================================
