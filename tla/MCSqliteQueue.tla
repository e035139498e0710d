--------------------------- MODULE MCSqliteQueue ---------------------------
(***************************************************************************)
(* Instances of SqliteQueue for TLC.                                       *)
(***************************************************************************)
EXTENDS SqliteQueue

\* The default backoff, half a second here, and one beyond the calendar.
MCBackoffs == [type : {"fixed"}, delay : {1, 7}, jitter : {FALSE}]
=============================================================================
