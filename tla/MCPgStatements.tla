--------------------------- MODULE MCPgStatements ---------------------------
(***************************************************************************)
(* Instances of PgStatements for TLC.                                      *)
(***************************************************************************)
EXTENDS PgStatements, TLC

\* Sessions are interchangeable.
MCSymmetry == Permutations(Caller)

\* Bounds: the row 1 alone meets every statement in all its attempts; two rows meet
\* the statements that choose among rows, and a call by id, in one attempt.
Choosing == {"none", "claim", "fail", "promote_due", "fail_expired"}

Within == \/ DOMAIN rows' \subseteq {1}
          \/ /\ \A id \in DOMAIN rows' : rows'[id].max_attempts = 1
             /\ \A c \in Caller : stmt'[c].op \in Choosing

MCSpec == PgInit /\ [][PgNext /\ Within]_pgVars
=============================================================================
