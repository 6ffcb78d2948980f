---------------------------- MODULE EventLedger ----------------------------
(***************************************************************************)
(* What the event delivery promises about each printer event, without      *)
(* sequences, batches, receipts or retries.  An event queued by an adapter *)
(* is owed to Core.  It is recorded once and stays recorded, or it is      *)
(* refused because Core's validation does not take it, or it is lost with  *)
(* the connector's state volume.  A lost event may still be recorded: its  *)
(* request may be running in Core when the volume is reset.                *)
(***************************************************************************)
EXTENDS Naturals

CONSTANTS Event, Refused

VARIABLE fate

Init == fate = [e \in Event |-> "new"]

Become(S, before, after) ==
    /\ S # {} /\ \A e \in S : fate[e] \in before
    /\ fate' = [e \in Event |-> IF e \in S THEN after ELSE fate[e]]

Produce(S) == Become(S, {"new"}, "owed")

Record(e) == e \notin Refused /\ Become({e}, {"owed", "lost"}, "recorded")

Refuse(S) == S \subseteq Refused /\ Become(S, {"owed"}, "refused")

Lose(S) == Become(S, {"owed", "refused"}, "lost")

Next == \/ \E S \in SUBSET Event : Produce(S) \/ Refuse(S) \/ Lose(S)
        \/ \E e \in Event : Record(e)

Spec == Init /\ [][Next]_fate
=============================================================================
