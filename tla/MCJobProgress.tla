---------------------------- MODULE MCJobProgress ----------------------------
(***************************************************************************)
(* Instances of JobProgress for TLC.                                       *)
(***************************************************************************)
EXTENDS JobProgress

MCPlain == {NoBackoffOptions}
=============================================================================
