----------------------------- MODULE MCJobQueue -----------------------------
(***************************************************************************)
(* Instances of JobQueue for TLC.                                          *)
(***************************************************************************)
EXTENDS JobQueue, TLC

MCPlain == {NoBackoffOptions}

\* An exponential backoff, with and without jitter: 1 and 2 before the second
\* attempt differ from the default, and jitter draws.
MCBackoffs == MCPlain \cup {[type |-> "exponential", delay |-> 2, jitter |-> TRUE]}

\* An exponential backoff whose third delay is beyond an int4.
MCExponential == {[type |-> "exponential", delay |-> 1, jitter |-> FALSE]}

\* Workers are interchangeable; job ids are ordered and are not.
MCSymmetry == Permutations(Caller)
=============================================================================
