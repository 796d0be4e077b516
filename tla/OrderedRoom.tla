----------------------------- MODULE OrderedRoom -----------------------------
(***************************************************************************)
(* What the outbox promises the Matrix room of a run: messages are sent in *)
(* the order of the run's events, a later one only after every earlier one *)
(* has been settled for good, and one that counts as delivered is in the   *)
(* room.  A message may be transmitted again until it is settled.          *)
(* MatrixOutbox implements this with workers that overlap and crash.       *)
(***************************************************************************)
EXTENDS Naturals, Sequences

CONSTANT Tenants

VARIABLES
    published,  \* published[t]: how many messages have been enqueued
    outcomes,   \* outcomes[t]: how the first of them were settled
    room        \* room[t]: the messages the homeserver accepted, in order

vars == <<published, outcomes, room>>

Settlements == {"delivered", "failed", "dead"}

TypeOK ==
    /\ published \in [Tenants -> Nat]
    /\ outcomes \in [Tenants -> Seq(Settlements)]
    /\ room \in [Tenants -> Seq(Nat)]

Init ==
    /\ published = [t \in Tenants |-> 0]
    /\ outcomes = [t \in Tenants |-> <<>>]
    /\ room = [t \in Tenants |-> <<>>]

Publish(t) ==
    /\ published' = [published EXCEPT ![t] = @ + 1]
    /\ UNCHANGED <<outcomes, room>>

\* The oldest message that is not settled.
Current(t) == Len(outcomes[t]) + 1

Transmit(t) ==
    /\ Current(t) <= published[t]
    /\ room' = [room EXCEPT ![t] = Append(@, Current(t))]
    /\ UNCHANGED <<published, outcomes>>

Settle(t, outcome) ==
    /\ Current(t) <= published[t]
    /\ outcome = "delivered" =>
         \E i \in DOMAIN room[t] : room[t][i] = Current(t)
    /\ outcomes' = [outcomes EXCEPT ![t] = Append(@, outcome)]
    /\ UNCHANGED <<published, room>>

Next ==
    \E t \in Tenants :
        \/ Publish(t)
        \/ Transmit(t)
        \/ \E outcome \in Settlements : Settle(t, outcome)

Spec == Init /\ [][Next]_vars

=============================================================================
