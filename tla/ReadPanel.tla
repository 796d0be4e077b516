------------------------------ MODULE ReadPanel ------------------------------
(***************************************************************************)
(* The read part of the GitHub workspace screen: an effect chooses the     *)
(* first repository of the installation it is given and loads its issues   *)
(* and pull requests, page by page and side by side; it is cancelled when  *)
(* it is given another installation.  Requests of a cancelled load go on   *)
(* and come back later.                                                    *)
(***************************************************************************)
EXTENDS Naturals

CONSTANTS
    Targets,   \* installations, each with its first repository
    Unlinked,  \* no installation
    Size,      \* [Targets -> pages of each list; 0: no repository]
    MaxPages,  \* MAX_PAGES
    Loads      \* runs of the effect

Lists == {"issues", "pulls"}

VARIABLES
    target,
    \* per load: position, what it loads, pages so far by list, lists done
    pc, aim, pages, done,
    current,   \* the load that was not cancelled, if any
    \* readState, selectedRepository, pages shown by list
    readState, selected, shown

screen == <<readState, selected, shown>>
load == <<aim, pages, done>>
vars == <<target, pc, load, current, screen>>

Init ==
    /\ target = Unlinked
    /\ pc = [l \in Loads |-> "new"]
    /\ aim = [l \in Loads |-> Unlinked]
    /\ pages = [l \in Loads |-> [k \in Lists |-> 0]]
    /\ done = [l \in Loads |-> {}]
    /\ current = {}
    /\ readState = "unlinked" /\ selected = Unlinked
    /\ shown = [k \in Lists |-> 0]

-----------------------------------------------------------------------------
\* The props change: the effect is cleaned up and runs again.
Retarget(l, t) ==
    /\ pc[l] = "new"
    /\ t # target
    /\ target' = t
    /\ current' = {l}
    /\ aim' = [aim EXCEPT ![l] = t]
    /\ pc' = [pc EXCEPT ![l] = IF t = Unlinked THEN "end" ELSE "choose"]
    /\ readState' = IF t = Unlinked THEN "unlinked" ELSE "loading"
    /\ UNCHANGED <<pages, done, selected, shown>>

NeverCancelled(l) == TRUE  \* wrong: a late load is taken for the current one

NotCancelled(l) == l \in current

Finish(l, outcome) ==
    /\ pc' = [pc EXCEPT ![l] = "end"]
    /\ readState' = IF NotCancelled(l) THEN outcome ELSE readState

\* The first repository of the list is taken; there may be none.
Choose(l) ==
    /\ pc[l] = "choose"
    /\ \/ Finish(l, "error") /\ UNCHANGED <<selected, shown>>
       \/ /\ Size[aim[l]] # 0
          /\ pc' = [pc EXCEPT ![l] = "load"]
          /\ UNCHANGED screen
       \/ /\ Size[aim[l]] = 0
          /\ Finish(l, "ready")
          /\ selected' = IF NotCancelled(l) THEN Unlinked ELSE selected
          /\ shown' = IF NotCancelled(l) THEN pages[l] ELSE shown
    /\ UNCHANGED <<target, load, current>>

\* fetchAllPages: a page, and another one while the cursor says so.
NextPage(l, k) ==
    /\ pc[l] = "load" /\ k \notin done[l]
    /\ pages' = [pages EXCEPT ![l][k] = @ + 1]
    /\ done' = IF pages'[l][k] \in {Size[aim[l]], MaxPages}
               THEN [done EXCEPT ![l] = @ \cup {k}] ELSE done
    /\ UNCHANGED <<target, pc, aim, current, screen>>

\* A page fails: the first one fails the load, a later one ends its list.
PageFails(l, k) ==
    /\ pc[l] = "load" /\ k \notin done[l]
    /\ \/ /\ pages[l][k] = 0
          /\ Finish(l, "error")
          /\ UNCHANGED done
       \/ /\ pages[l][k] # 0
          /\ done' = [done EXCEPT ![l] = @ \cup {k}]
          /\ UNCHANGED <<pc, readState>>
    /\ UNCHANGED <<target, aim, pages, current, selected, shown>>

Show(l) ==
    /\ pc[l] = "load" /\ done[l] = Lists
    /\ Finish(l, "ready")
    /\ selected' = IF NotCancelled(l) THEN aim[l] ELSE selected
    /\ shown' = IF NotCancelled(l) THEN pages[l] ELSE shown
    /\ UNCHANGED <<target, load, current>>

Next ==
    \E l \in Loads :
        \/ \E t \in Targets \cup {Unlinked} : Retarget(l, t)
        \/ Choose(l)
        \/ \E k \in Lists : NextPage(l, k) \/ PageFails(l, k)
        \/ Show(l)

Spec == Init /\ [][Next]_vars

-----------------------------------------------------------------------------
\* What is shown as ready is what the screen was last given, with at least the
\* first page of both lists, whichever load came back last.
ShowsItsTarget ==
    readState = "ready" =>
        \/ selected = target /\ \A k \in Lists : shown[k] # 0
        \/ selected = Unlinked /\ Size[target] = 0

=============================================================================
