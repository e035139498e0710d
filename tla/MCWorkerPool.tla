---------------------------- MODULE MCWorkerPool ----------------------------
(***************************************************************************)
(* Instances of WorkerPool for TLC.                                        *)
(***************************************************************************)
EXTENDS WorkerPool, TLC

MCPlain == {NoBackoffOptions}

\* The workers are interchangeable.
MCSymmetry == Permutations(Worker)
=============================================================================
