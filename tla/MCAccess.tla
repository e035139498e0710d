------------------------------ MODULE MCAccess ------------------------------
(***************************************************************************)
(* Instances of Registry and Login for TLC: who may use the API, and who   *)
(* the dashboard.  The two have no state in common but the ids of users,   *)
(* so one at a time shows all that can happen to either.                   *)
(***************************************************************************)
EXTENDS Registry, Login, TLC

VARIABLE part  \* which of the two, chosen once

accessVars == <<registryVars, loginVars, part>>

MCPlain == {NoBackoffOptions}

\* Requests are interchangeable, and browsers.
MCSymmetry == Permutations(Request) \cup Permutations(Browser)

MCInit == RegistryInit /\ LoginInit /\ part \in {"registry", "login"}

MCNext == /\ \/ part = "registry" /\ RegistryNext /\ UNCHANGED loginVars
             \/ part = "login" /\ LoginNext /\ UNCHANGED registryVars
          /\ UNCHANGED part

MCSpec == MCInit /\ [][MCNext]_accessVars
=============================================================================
