------------------------------ MODULE RunStatus ------------------------------
(***************************************************************************)
(* The values of the column runs.status, shared by every module that reads *)
(* or writes a run row.                                                    *)
(***************************************************************************)

\* The four statuses a run never leaves (TERMINAL_STATUSES).
TerminalStatuses == {"completed", "partial", "failed", "cancelled"}

\* What launch, beginRun and the cancel route write before the run ends.
ActiveStatuses == {"queued", "running", "cancelling"}

RunStatuses == ActiveStatuses \cup TerminalStatuses

IsTerminal(s) == s \in TerminalStatuses

=============================================================================
