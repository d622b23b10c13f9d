------------------------------- MODULE MCLogTail -------------------------------
(***************************************************************************)
(* Instance of LogTail for TLC; the constants are given in the .cfg file.  *)
(***************************************************************************)
EXTENDS LogTail, TLC

=============================================================================
