---------------------------- MODULE RunLifecycle ----------------------------
(***************************************************************************)
(* What the control plane promises about one run, whoever executes it: the *)
(* run row moves queued -> running -> (cancelling) -> one terminal status, *)
(* a cancellation is never forgotten, and the step that ends the run is    *)
(* also the one that announces the end, once.  RunWorkflow implements this *)
(* specification with crashing, retried and overlapping executions.        *)
(***************************************************************************)
EXTENDS Naturals, RunStatus

VARIABLES
    status,           \* runs.status
    cancelRequested,  \* runs.cancel_requested_at IS NOT NULL
    announced         \* announced[t]: how many terminal events run.t exist

vars == <<status, cancelRequested, announced>>

TypeOK ==
    /\ status \in RunStatuses
    /\ cancelRequested \in BOOLEAN
    /\ announced \in [TerminalStatuses -> Nat]

Init ==
    /\ status = "queued"
    /\ cancelRequested = FALSE
    /\ announced = [t \in TerminalStatuses |-> 0]

Begin ==
    /\ status = "queued"
    /\ status' = "running"
    /\ UNCHANGED <<cancelRequested, announced>>

Finish(t) ==
    /\ ~IsTerminal(status)
    /\ status' = t
    /\ announced' = [announced EXCEPT ![t] = @ + 1]

\* The user cancels: a queued run ends at once, any other is asked to stop.
Cancel ==
    /\ cancelRequested' = TRUE
    /\ \/ status = "queued" /\ Finish("cancelled")
       \/ /\ status # "queued"
          /\ ~IsTerminal(status)
          /\ status' = "cancelling"
          /\ UNCHANGED announced

\* The workflow ends the run; it ends as cancelled only on request.
End ==
    \E t \in TerminalStatuses :
        /\ t = "cancelled" => cancelRequested
        /\ Finish(t)
        /\ UNCHANGED cancelRequested

Next == Begin \/ Cancel \/ End

Spec == Init /\ [][Next]_vars

=============================================================================
