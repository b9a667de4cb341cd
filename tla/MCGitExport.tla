---------------------------- MODULE MCGitExport ----------------------------
(* The instances of GitExport that TLC checks. *)
EXTENDS GitExport
=============================================================================
