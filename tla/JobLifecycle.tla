---------------------------- MODULE JobLifecycle ----------------------------
(***************************************************************************)
(* What the service promises the owner of a job, whatever happens to       *)
(* queues, locks, clocks and workers: a job is attempted at most limit     *)
(* times, one attempt at a time; a failed attempt leads to another one     *)
(* exactly while attempts are left; nothing leaves a final phase.          *)
(*                                                                         *)
(* The four statuses of the README's table that differ only in why a job   *)
(* waits are one phase here.                                               *)
(***************************************************************************)
EXTENDS Integers

CONSTANTS JobId, Limits

VARIABLE life  \* per job id, its phase, its attempts so far and its limit

Phase == {"absent", "waiting", "running", "completed", "discarded", "cancelled"}

Absent == [phase |-> "absent", attempt |-> 0, limit |-> 0]

Init == life = [j \in JobId |-> Absent]

Submit(j, n) ==
  /\ life[j].phase = "absent"
  /\ life' = [life EXCEPT ![j] = [phase |-> "waiting", attempt |-> 0, limit |-> n]]

Start(j) ==
  /\ life[j].phase = "waiting"
  /\ life[j].attempt < life[j].limit
  /\ life' = [life EXCEPT ![j] = [phase   |-> "running",
                                  attempt |-> life[j].attempt + 1,
                                  limit   |-> life[j].limit]]

Succeed(j) ==
  /\ life[j].phase = "running"
  /\ life' = [life EXCEPT ![j].phase = "completed"]

Cancel(j) ==
  /\ life[j].phase \in {"waiting", "running"}
  /\ life' = [life EXCEPT ![j].phase = "cancelled"]

\* The attempts of several jobs may fail at once, by one statement.
Fail(S) ==
  /\ \A j \in S : life[j].phase = "running"
  /\ life' = [j \in JobId |->
                IF j \notin S THEN life[j]
                ELSE [life[j] EXCEPT !.phase = IF life[j].attempt < life[j].limit
                                               THEN "waiting" ELSE "discarded"]]

Next == \/ \E j \in JobId : \/ \E n \in Limits : Submit(j, n)
                            \/ Start(j) \/ Succeed(j) \/ Cancel(j)
        \/ \E S \in SUBSET JobId : Fail(S)

Spec == Init /\ [][Next]_life
=============================================================================
