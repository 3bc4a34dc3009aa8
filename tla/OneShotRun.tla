------------------------------ MODULE OneShotRun ------------------------------
(***************************************************************************)
(* What runAgy promises its callers, without saying how.  A call is either *)
(* refused or goes live; a live run may be stopped, and only the first     *)
(* cause counts; it then settles exactly once, and its verdict is the      *)
(* cause, "resolved" when nothing stopped it, or "spawn-failed" when the   *)
(* child reported an error of its own.                                     *)
(***************************************************************************)

CONSTANTS Causes,        \* why a live run may be stopped
          Refusals       \* the verdicts of a call that never went live

VARIABLES stage,         \* "idle", "live" or "settled"
          cause,         \* the first cause that stopped the run, or "none"
          verdict        \* how the run settled, or "pending"

vars == <<stage, cause, verdict>>

Init == stage = "idle" /\ cause = "none" /\ verdict = "pending"

Refuse == /\ stage = "idle"
          /\ stage' = "settled"
          /\ verdict' \in Refusals
          /\ UNCHANGED cause

Start == stage = "idle" /\ stage' = "live" /\ UNCHANGED <<cause, verdict>>

Stop == /\ stage = "live"
        /\ cause = "none"
        /\ cause' \in Causes
        /\ UNCHANGED <<stage, verdict>>

Finish == /\ stage = "live"
          /\ stage' = "settled"
          /\ verdict' = IF cause = "none" THEN "resolved" ELSE cause
          /\ UNCHANGED cause

(* An error of the child settles the run at once; when it is the attempt to stop
   the run that failed, the cause is recorded in the same step. *)
Break == /\ stage = "live"
         /\ stage' = "settled"
         /\ verdict' = "spawn-failed"
         /\ \/ UNCHANGED cause
            \/ cause = "none" /\ cause' \in Causes

Next == Refuse \/ Start \/ Stop \/ Finish \/ Break

Spec == Init /\ [][Next]_vars
===============================================================================
