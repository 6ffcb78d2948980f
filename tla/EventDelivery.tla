--------------------------- MODULE EventDelivery ---------------------------
(***************************************************************************)
(* Delivery of printer events from the connector's SQLite outbox           *)
(* (backend/internal/printerconnector/store.go, runtime.go) to Core's      *)
(* event ledger (backend/internal/printerconnectors/runtime.go,            *)
(* backend/internal/printing/service.go).                                  *)
(*                                                                         *)
(* The connector numbers events per assignment, sends them in batches and  *)
(* keeps each one until Core has answered for it.  Core ingests each event *)
(* of a request in a transaction of its own.  Requests and answers get     *)
(* lost, a request the connector has given up on may still be running in   *)
(* Core, a Core commit may succeed although Core reports a failure, the    *)
(* connector may restart, and its state volume may be reset, after which   *)
(* it numbers from 1 again and Core rejects the reused numbers.            *)
(***************************************************************************)
EXTENDS Naturals, Sequences, FiniteSets

CONSTANTS
    Event,        \* event ids (UUIDs); everything Core compares except the
                  \* sequence is fixed by the id
    Assignment,   \* printer assignments of this connector
    Refused,      \* events Core's validation rejects whenever they arrive
    MaxOutbox,    \* maxOutboxEvents
    BatchLimit,   \* events per request
    MaxFaults,    \* bound on lost requests, lost answers, Core failures, restarts
    MaxResets     \* bound on resets of the connector's state volume

ASSUME EventFinite == IsFiniteSet(Event)
ASSUME RefusedAreEvents == Refused \subseteq Event
ASSUME BoundsAreNaturals ==
    /\ MaxOutbox \in Nat /\ BatchLimit \in Nat \ {0}
    /\ MaxFaults \in Nat /\ MaxResets \in Nat

VARIABLES
    store,    \* the connector's SQLite database
    request,  \* the one request the connector waits for
    strays,   \* unprocessed rests of requests the connector gave up on
    core,     \* Core's ledger: rows of printing's connector events
    clock,    \* created_at stamps handed out
    faults,
    resets

vars == <<store, request, strays, core, clock, faults, resets>>

-----------------------------------------------------------------------------
(* The outbox row of an event is its entry in the functions below while    *)
(* its status is pending or quarantined; new, deleted and lost tell apart  *)
(* why there is no row.                                                    *)

Status == {"new", "pending", "quarantined", "deleted", "lost"}

Message == [event : Event, asg : Assignment, seq : Nat]

Receipt == [event  : Event,
            status : {"accepted", "duplicate", "conflict", "rejected", "retry"},
            next   : Nat]

Store == [status  : [Event -> Status],
          asg     : [Event -> Assignment],
          seq     : [Event -> Nat],
          created : [Event -> Nat],
          due     : [Event -> BOOLEAN],    \* next_attempt_at <= now
          next    : [Assignment -> Nat]]   \* assignment_sequences, 1 without a row

Rows(st) == {e \in Event : st.status[e] \in {"pending", "quarantined"}}

Idle == [todo |-> <<>>, receipts |-> <<>>]

RequestEvents == {request.todo[i].event : i \in DOMAIN request.todo}
                   \cup {request.receipts[i].event : i \in DOMAIN request.receipts}

Init ==
    /\ \E a \in [Event -> Assignment] :
          store = [status  |-> [e \in Event |-> "new"],
                   asg     |-> a,
                   seq     |-> [e \in Event |-> 0],
                   created |-> [e \in Event |-> 0],
                   due     |-> [e \in Event |-> FALSE],
                   next    |-> [x \in Assignment |-> 1]]
    /\ request = Idle
    /\ strays = {}
    /\ core = {}
    /\ clock = 0
    /\ faults = 0
    /\ resets = 0

-----------------------------------------------------------------------------
(* The adapters' side: one observation (Enqueue) or the observations of    *)
(* one reducer step (EnqueueBambuStateFor) become rows in one transaction, *)
(* numbered consecutively and stamped with one created_at.  A full outbox  *)
(* refuses them all; quarantined rows count.                               *)

Enqueue(a, S, number) ==
    /\ \A e \in S : store.status[e] = "new" /\ store.asg[e] = a
    /\ Cardinality(Rows(store)) + Cardinality(S) <= MaxOutbox
    /\ store' = [status  |-> [e \in Event |-> IF e \in S THEN "pending" ELSE store.status[e]],
                 asg     |-> store.asg,
                 seq     |-> [e \in Event |-> IF e \in S THEN number[e] ELSE store.seq[e]],
                 created |-> [e \in Event |-> IF e \in S THEN clock ELSE store.created[e]],
                 due     |-> [e \in Event |-> IF e \in S THEN TRUE ELSE store.due[e]],
                 next    |-> [store.next EXCEPT ![a] = @ + Cardinality(S)]]
    /\ clock' = clock + 1
    /\ UNCHANGED <<request, strays, core, faults, resets>>

\* The ways to give the members of S the n numbers from first on.
Numberings(S, first) ==
    {f \in [S -> first .. (first + Cardinality(S) - 1)] :
        \A x, y \in S : f[x] = f[y] => x = y}

-----------------------------------------------------------------------------
(* The connector's delivery loop.                                          *)

Due == {e \in Event : store.status[e] = "pending" /\ store.due[e]}

\* Store.Pending: the due events in created_at order, at most BatchLimit.
Pending(q) ==
    /\ \A i, j \in DOMAIN q : i < j => /\ q[i] # q[j]
                                       /\ store.created[q[i]] <= store.created[q[j]]
    /\ \A i \in DOMAIN q : q[i] \in Due
    /\ \A e \in Due : \/ \E i \in DOMAIN q : q[i] = e
                      \/ /\ Len(q) = BatchLimit
                         /\ \A i \in DOMAIN q : store.created[q[i]] <= store.created[e]

\* deliver up to client.Send; the loop has one request at a time.
Send(q) ==
    /\ request = Idle
    /\ Pending(q)
    /\ request' = [todo     |-> [i \in 1 .. Len(q) |->
                                   [event |-> q[i], asg |-> store.asg[q[i]], seq |-> store.seq[q[i]]]],
                   receipts |-> <<>>]
    /\ UNCHANGED <<store, strays, core, clock, faults, resets>>

\* The request stops being waited for; Core never got it, or goes on with it.
Abandon ==
    /\ request # Idle
    /\ request' = Idle
    /\ strays' \in {strays} \cup {strays \cup {t} : t \in {request.todo} \ {<<>>}}

\* client.Send fails: MarkDeliveryFailure backs the batch's events off.
DeliveryFails ==
    /\ faults < MaxFaults
    /\ Abandon
    /\ store' = [store EXCEPT !.due =
                    [e \in Event |-> store.due[e] /\ ~(e \in RequestEvents /\ store.status[e] = "pending")]]
    /\ faults' = faults + 1
    /\ UNCHANGED <<core, clock, resets>>

\* The process restarts, or its database fails, before the answer is applied.
Restart ==
    /\ faults < MaxFaults
    /\ Abandon
    /\ faults' = faults + 1
    /\ UNCHANGED <<store, core, clock, resets>>

\* A delayed event becomes due again.
BackoffElapses(e) ==
    /\ store.status[e] = "pending" /\ ~store.due[e]
    /\ store' = [store EXCEPT !.due[e] = TRUE]
    /\ UNCHANGED <<request, strays, core, clock, faults, resets>>

\* The state volume is reset; the outbox and the sequence counters are gone.
ResetState ==
    /\ resets < MaxResets
    /\ store' = [store EXCEPT
                    !.status = [e \in Event |-> IF e \in Rows(store) THEN "lost" ELSE store.status[e]],
                    !.next   = [a \in Assignment |-> 1]]
    /\ \/ Abandon
       \/ request = Idle /\ UNCHANGED <<request, strays>>
    /\ resets' = resets + 1
    /\ UNCHANGED <<core, clock, faults>>

-----------------------------------------------------------------------------
(* Core.  ingestOne handles one event in one transaction: an invalid event *)
(* is rejected; a known id is a duplicate if its facts (here its sequence) *)
(* are the stored ones and is rejected otherwise; a known sequence of the  *)
(* assignment is a conflict that carries the number after the largest one  *)
(* held; anything else is stored.                                          *)

Held(m) == \E r \in core : r.event = m.event

SequenceTaken(m) == \E r \in core : r.asg = m.asg /\ r.seq = m.seq

\* GetConnectorAssignmentNextSequence
CoreNext(a) ==
    LET used == {r.seq : r \in {x \in core : x.asg = a}}
        Largest(n) == \A k \in used : k <= n
    IN  IF \E n \in used : Largest(n) THEN 1 + CHOOSE n \in used : Largest(n) ELSE 1

\* Mutant of Verdict: the sequence of a new event is not looked up.
VerdictIgnoringSequence(m) ==
    IF m.event \in Refused THEN "rejected"
    ELSE IF Held(m) THEN IF m \in core THEN "duplicate" ELSE "rejected"
    ELSE "accepted"

\* Mutant of Verdict: an id that is known already is always a mismatch.
VerdictWithoutDuplicates(m) ==
    IF m.event \in Refused \/ Held(m) THEN "rejected"
    ELSE IF SequenceTaken(m) THEN "conflict"
    ELSE "accepted"

Verdict(m) ==
    IF m.event \in Refused THEN "rejected"
    ELSE IF Held(m) THEN IF m \in core THEN "duplicate" ELSE "rejected"
    ELSE IF SequenceTaken(m) THEN "conflict"
    ELSE "accepted"

Answer(m, status) == [event |-> m.event, status |-> status, next |-> CoreNext(m.asg)]

\* core' and the receipt of one event; a transient failure is answered with
\* retry, after a rollback or, when only the commit's outcome is unknown,
\* with the event stored.
IngestOne(m, receipt) ==
    \/ /\ receipt = Answer(m, Verdict(m))
       /\ core' = IF Verdict(m) = "accepted" THEN core \cup {m} ELSE core
       /\ faults' = faults
    \/ /\ faults < MaxFaults
       /\ receipt = Answer(m, "retry")
       /\ core' \in {core, IF Verdict(m) = "accepted" THEN core \cup {m} ELSE core}
       /\ faults' = faults + 1

\* IngestEvents goes on with the request the connector waits for ...
Ingest(receipt) ==
    /\ request.todo # <<>>
    /\ IngestOne(Head(request.todo), receipt)
    /\ request' = [todo     |-> Tail(request.todo),
                   receipts |-> Append(request.receipts, receipt)]
    /\ UNCHANGED <<store, strays, clock, resets>>

\* Mutant of IngestStray: the finished request is kept.
IngestStrayKept(t, receipt) ==
    /\ IngestOne(Head(t), receipt)
    /\ strays' = (strays \ {t}) \cup {Tail(t)}
    /\ UNCHANGED <<store, request, clock, resets>>

\* ... or with one the connector gave up on, whose answer nobody reads.
IngestStray(t, receipt) ==
    /\ IngestOne(Head(t), receipt)
    /\ strays' = (strays \ {t}) \cup ({Tail(t)} \ {<<>>})
    /\ UNCHANGED <<store, request, clock, resets>>

Receipts(m) == {Answer(m, Verdict(m)), Answer(m, "retry")}

-----------------------------------------------------------------------------
(* The connector applies the receipts of a request in one transaction.     *)

Larger(m, n) == IF m < n THEN n ELSE m

\* ORDER BY created_at, sequence
Before(st, f, g) == \/ st.created[f] < st.created[g]
                    \/ st.created[f] = st.created[g] /\ st.seq[f] < st.seq[g]

Behind(st, a, coreNext) ==
    {f \in Event : st.status[f] = "pending" /\ st.asg[f] = a /\ st.seq[f] < coreNext}

\* Mutant of Renumbered: numbers from coreNext, whatever the local counter.
RenumberedFromCore(st, a, coreNext) ==
    LET behind == Behind(st, a, coreNext)
    IN  [st EXCEPT
           !.seq  = [f \in Event |-> IF f \in behind
                       THEN coreNext + Cardinality({g \in behind : Before(st, g, f)})
                       ELSE st.seq[f]],
           !.due  = [f \in Event |-> f \in behind \/ st.due[f]],
           !.next = [st.next EXCEPT ![a] = coreNext + Cardinality(behind)]]

Renumbered(st, a, coreNext) ==
    LET first  == Larger(st.next[a], coreNext)
        behind == Behind(st, a, coreNext)
    IN  [st EXCEPT
           !.seq  = [f \in Event |-> IF f \in behind
                       THEN first + Cardinality({g \in behind : Before(st, g, f)})
                       ELSE st.seq[f]],
           !.due  = [f \in Event |-> f \in behind \/ st.due[f]],
           !.next = [st.next EXCEPT ![a] = first + Cardinality(behind)]]

\* Mutant of RenumberBehindCore: only the counter moves past Core's numbers.
RenumberCounterOnly(st, e, coreNext) ==
    IF st.status[e] = "pending"
    THEN [st EXCEPT !.next[st.asg[e]] = Larger(@, coreNext)] ELSE st

RenumberBehindCore(st, e, coreNext) ==
    IF st.status[e] = "pending" THEN Renumbered(st, st.asg[e], coreNext) ELSE st

SetStatus(st, e, s) == [st EXCEPT !.status = [f \in Event |->
                                                IF f = e /\ e \in Rows(st) THEN s ELSE st.status[f]]]

\* Mutant of ApplyReceipt: whatever is not rejected is done with.
ApplyReceiptDropsRetries(st, r) ==
    CASE r.status \in {"accepted", "duplicate", "retry"} -> SetStatus(st, r.event, "deleted")
      [] r.status = "conflict" -> RenumberBehindCore(st, r.event, r.next)
      [] r.status = "rejected" -> SetStatus(st, r.event, "quarantined")

\* Mutant of ApplyReceipt: a sequence conflict is a rejection like any other.
ApplyReceiptQuarantinesConflicts(st, r) ==
    CASE r.status \in {"accepted", "duplicate"} -> SetStatus(st, r.event, "deleted")
      [] r.status \in {"conflict", "rejected"} -> SetStatus(st, r.event, "quarantined")
      [] r.status = "retry" -> [st EXCEPT !.due[r.event] = FALSE]

ApplyReceipt(st, r) ==
    CASE r.status \in {"accepted", "duplicate"} -> SetStatus(st, r.event, "deleted")
      [] r.status = "conflict" -> RenumberBehindCore(st, r.event, r.next)
      [] r.status = "rejected" -> SetStatus(st, r.event, "quarantined")
      [] r.status = "retry" ->
            [st EXCEPT !.due = [f \in Event |->
                st.due[f] /\ ~(f = r.event /\ st.status[f] = "pending")]]

\* The store after each prefix of the receipts.
Applied(st, rs) ==
    LET after[i \in 0 .. Len(rs)] ==
            IF i = 0 THEN st ELSE ApplyReceipt(after[i - 1], rs[i])
    IN  after[Len(rs)]

ApplyReceipts ==
    /\ request # Idle /\ request.todo = <<>>
    /\ store' = Applied(store, request.receipts)
    /\ request' = Idle
    /\ UNCHANGED <<strays, core, clock, faults, resets>>

-----------------------------------------------------------------------------
EnqueueSome == \E a \in Assignment, S \in (SUBSET Event) \ {{}} :
                  \E number \in Numberings(S, store.next[a]) : Enqueue(a, S, number)

SendSome == \E n \in 1 .. BatchLimit : \E q \in [1 .. n -> Due] : Send(q)

IngestSome == /\ request.todo # <<>>
              /\ \E receipt \in Receipts(Head(request.todo)) : Ingest(receipt)

IngestStraySome == \E t \in strays : \E receipt \in Receipts(Head(t)) : IngestStray(t, receipt)

Next ==
    \/ EnqueueSome
    \/ SendSome
    \/ DeliveryFails
    \/ Restart
    \/ \E e \in Event : BackoffElapses(e)
    \/ ResetState
    \/ IngestSome
    \/ IngestStraySome
    \/ ApplyReceipts

Spec == Init /\ [][Next]_vars

\* The poll loop runs for ever and Core answers; faults are bounded.
Fairness ==
    /\ WF_vars(SendSome)
    /\ WF_vars(IngestSome)
    /\ WF_vars(ApplyReceipts)
    /\ \A e \in Event : WF_vars(BackoffElapses(e))

FairSpec == Spec /\ Fairness

-----------------------------------------------------------------------------
(* Properties.                                                             *)

\* One type invariant: the outbox, the request and the ledger have the
\* shapes of the connector's tables, the wire batch and Core's rows.
TypeOK ==
    /\ store \in Store
    /\ request \in [todo : Seq(Message), receipts : Seq(Receipt)]
    /\ strays \subseteq Seq(Message) \ {<<>>}
    /\ core \subseteq Message
    /\ clock \in Nat /\ faults \in Nat /\ resets \in Nat

SequencesUnique(st) ==
    \A e \in Rows(st) :
        /\ st.seq[e] < st.next[st.asg[e]]
        /\ \A f \in Rows(st) : st.asg[e] = st.asg[f] /\ st.seq[e] = st.seq[f] => e = f

\* The outbox's UNIQUE(assignment_id, sequence) is never violated and every
\* stored sequence is below its assignment's counter, so that Enqueue and
\* renumberBehindCore never hand out a number twice (store.go, the comment
\* above next = max(next, coreNext)).
LocalSequencesUnique == SequencesUnique(store)

HeldByCore(e) == \E r \in core : r.event = e

\* An event is deleted locally only after Core holds it (docs: "An event is
\* deleted locally only after Core returns accepted or duplicate"), whatever
\* was lost, retried, restarted or renumbered in between.
DeletedOnlyWhenHeld ==
    \A e \in Event : store.status[e] = "deleted" => HeldByCore(e)

\* ApplyReceipts never gives up an event Core could still accept: it is
\* quarantined only if Core's validation refuses it or Core holds it already,
\* even when a renumbering has changed its facts in between.
QuarantinedOnlyWhenSettled ==
    \A e \in Event : store.status[e] = "quarantined" => e \in Refused \/ HeldByCore(e)

\* What a receipt the connector is about to apply says of Core's ledger is
\* still true when it is applied: the strengthening that makes the two
\* invariants above inductive.
Truthful(r) ==
    /\ r.status \in {"accepted", "duplicate"} => HeldByCore(r.event)
    /\ r.status = "rejected" => r.event \in Refused \/ HeldByCore(r.event)

ReceiptsTruthful == \A i \in DOMAIN request.receipts : Truthful(request.receipts[i])

\* Core stores an event once, and one event per sequence of an assignment,
\* although requests are repeated, left running and renumbered.
LedgerUnique ==
    \A r, s \in core : r.event = s.event \/ (r.asg = s.asg /\ r.seq = s.seq) => r = s

\* The conjunction that every step preserves; EventDeliveryProofs proves it.
IndInv ==
    /\ TypeOK
    /\ LocalSequencesUnique
    /\ DeletedOnlyWhenHeld
    /\ QuarantinedOnlyWhenSettled
    /\ ReceiptsTruthful
    /\ LedgerUnique

\* "Permanent rejections move it to the quarantine": while the connector keeps
\* its state volume, lost answers, late requests and ambiguous commits never
\* turn an event Core could take into a rejected one.  After a reset it may
\* happen: an event Core holds is renumbered and then rejected as a mismatch.
OnlyRefusedQuarantined ==
    resets = 0 => \A e \in Event : store.status[e] = "quarantined" => e \in Refused

\* Whatever is on its way to Core or held there was queued by an adapter:
\* what ImplementsLedger needs besides IndInv.
OnlyQueuedSent ==
    /\ \A m \in core : store.status[m.event] # "new"
    /\ \A i \in DOMAIN request.todo : store.status[request.todo[i].event] # "new"
    /\ \A t \in strays : \A i \in DOMAIN t : store.status[t[i].event] # "new"

\* What becomes of an event, seen from outside: the state of the abstract
\* ledger.  A row that is gone although Core does not hold it has vanished.
FateOf(status) == CASE status = "new"         -> "new"
                    [] status = "pending"     -> "owed"
                    [] status = "quarantined" -> "refused"
                    [] status = "lost"        -> "lost"
                    [] status = "deleted"     -> "vanished"

Fate == [e \in Event |-> IF HeldByCore(e) THEN "recorded" ELSE FateOf(store.status[e])]

Ledger == INSTANCE EventLedger WITH fate <- Fate

\* The outbox and the ingestion together keep the promise of the abstract
\* ledger: a queued event is recorded exactly once or refused for good, and
\* is given up only with the state volume.
ImplementsLedger == Ledger!Spec

\* Every queued event eventually leaves the pending state once faults stop:
\* backoff, renumbering and repeated conflicts never keep it there for ever.
EveryEventSettles ==
    \A e \in Event : store.status[e] = "pending" ~> store.status[e] # "pending"

\* "connector event queue is full; printer polling is paused until delivery
\* resumes": a full outbox has room again at some later time.
FullQueueDrains ==
    (Cardinality(Rows(store)) = MaxOutbox) ~> (Cardinality(Rows(store)) < MaxOutbox)
=============================================================================
