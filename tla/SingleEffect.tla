---------------------------- MODULE SingleEffect ----------------------------
(***************************************************************************)
(* What an idempotency key promises: the command behind it is opened once, *)
(* takes effect at GitHub at most once, and is closed once, as completed   *)
(* only after the effect.  MutationCommand implements this with duplicate  *)
(* requests, crashes and lost answers.                                     *)
(***************************************************************************)
EXTENDS Naturals

VARIABLES
    state,   \* of the command
    effects  \* how often the mutation was applied

vars == <<state, effects>>

States == {"none", "queued", "completed", "failed"}

TypeOK == state \in States /\ effects \in 0..1

Init == state = "none" /\ effects = 0

Open ==
    /\ state = "none"
    /\ state' = "queued"
    /\ UNCHANGED effects

Apply ==
    /\ state = "queued"
    /\ effects = 0
    /\ effects' = 1
    /\ UNCHANGED state

Complete ==
    /\ state = "queued"
    /\ effects = 1
    /\ state' = "completed"
    /\ UNCHANGED effects

\* The effect may be there all the same: the answer was lost.
Fail ==
    /\ state = "queued"
    /\ state' = "failed"
    /\ UNCHANGED effects

Next == Open \/ Apply \/ Complete \/ Fail

Spec == Init /\ [][Next]_vars

=============================================================================
