------------------------------- MODULE RunFeed -------------------------------
(***************************************************************************)
(* What a reader of a run's event stream is promised: it is shown the      *)
(* published events of the run, in order, none missing and none twice, up  *)
(* to the terminal event and nothing behind it.  EventStream implements    *)
(* this over row locks, pages, dropped connections and reconnects.         *)
(***************************************************************************)
EXTENDS Naturals, Sequences

VARIABLES
    published,  \* the kinds of the committed events, in sequence order
    shown       \* the kinds of the events the reader has been shown

vars == <<published, shown>>

Kinds == {"progress", "terminal"}

Contains(seq, kind) == \E i \in DOMAIN seq : seq[i] = kind

TypeOK ==
    /\ published \in Seq(Kinds)
    /\ shown \in Seq(Kinds)

Init ==
    /\ published = <<>>
    /\ shown = <<>>

\* A run has one terminal event; events of a late execution may follow it.
Publish(kind) ==
    /\ kind = "terminal" => ~Contains(published, "terminal")
    /\ published' = Append(published, kind)
    /\ UNCHANGED shown

Show ==
    /\ Len(shown) < Len(published)
    /\ ~Contains(shown, "terminal")
    /\ shown' = Append(shown, published[Len(shown) + 1])
    /\ UNCHANGED published

Next == Show \/ \E kind \in Kinds : Publish(kind)

Spec == Init /\ [][Next]_vars

=============================================================================
