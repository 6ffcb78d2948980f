------------------------- MODULE RecordedRunProofs -------------------------
(***************************************************************************)
(* Proofs about RecordedRun for every number of events, of events held     *)
(* back, of corrections by staff and of refused bookings.                  *)
(***************************************************************************)
EXTENDS RecordedRun, NumberFacts, FiniteSetTheorems, SequenceTheorems

-----------------------------------------------------------------------------
(* The inductive invariant, clause by clause. *)

\* The consumption reports the connector has queued.
Reports == {i \in DOMAIN log : log[i].kind = "report"}

\* The event carries the machine's final state.
HasResult(i) == log[i].kind = "terminal" /\ log[i].outcome \in Final

\* What the connector queues: times never fall, a terminal event has an
\* outcome, report revisions grow, and the reducer's final or given-up states
\* have left an event of that outcome behind.
LogOrdered ==
    /\ printer = "idle" <=> log = <<>>
    /\ printer \in Final => \E i \in DOMAIN log : HasResult(i)
    /\ printer \in {"lost", "closed"} => \E i \in DOMAIN log : log[i].outcome = "unknown"
    /\ \A i, j \in DOMAIN log : i <= j => log[i].at <= log[j].at
    /\ \A i \in DOMAIN log : log[i].at # None /\ (log[i].kind = "terminal" => log[i].outcome # "none")
    /\ \A i \in Reports : log[i].revision <= Cardinality(Reports)
    /\ \A i, j \in Reports : i < j => log[i].revision < log[j].revision

\* What is booked: stored reports, each after older ones; only the last row is
\* active; no booking stands active beside usage of staff, and while staff did
\* nothing the last row is active.
UsagesOrdered ==
    /\ \A k \in DOMAIN usages : usages[k].source # Staff => usages[k].source \in Stored \cap Reports
    /\ \A k, l \in DOMAIN usages :
          usages[k].source # Staff /\ usages[l].source # Staff /\ k < l => usages[k].source < usages[l].source
    /\ \A k \in DOMAIN usages : usages[k].active => k = Len(usages)
    /\ \A k \in DOMAIN usages : usages[k].active /\ usages[k].source # Staff => Rows(Staff) = {}
    /\ staff = 0 => Rows(Staff) = {} /\ (usages # <<>> => usages[Len(usages)].active)

\* If no event was ingested before an earlier one, the stored events are a
\* prefix of the log.
StoredPrefix == inOrder => \A i \in Stored, j \in DOMAIN log \ Stored : i < j

\* The run row follows the stored events. A stored result has made the run
\* final unless a later event was observed before it; if the order was kept it
\* has made it final. This is where UpdateObservedRun compares the times.
RunFollows ==
    ~run.deleted =>
      /\ run.state = "none" => run.last = None
      /\ run.last = None \/ \E j \in Stored : run.last = log[j].at
      /\ \A i \in Stored : HasResult(i) => run.state \in Final \/ log[i].at < run.last
      /\ inOrder => \A i \in Stored : HasResult(i) => run.state \in Final

\* The report ListLatestReportedUsageItemsForRuns finds.
Newest == LatestReport(Stored)

\* In a final run the active booking is the newest stored report, and it is
\* there if neither staff nor inventory interfered. Without "final" this is
\* not inductive: a report that is stored while the row says running again is
\* not booked.
FinalBooked ==
    ~run.deleted /\ run.state \in Final /\ refusals = 0 =>
      /\ \A k \in DOMAIN usages : usages[k].active /\ usages[k].source # Staff => usages[k].source = Newest
      /\ staff = 0 /\ Newest # None =>
             \E k \in DOMAIN usages : usages[k].active /\ usages[k].source = Newest

-----------------------------------------------------------------------------
(* The connector's steps. *)

\* Types of the log and the ledger.
LEMMA LogShape ==
    ASSUME TypeOK
    PROVE  /\ Len(log) \in Nat /\ DOMAIN log = 1 .. Len(log)
           /\ Len(ledger) = Len(log) /\ DOMAIN ledger = DOMAIN log
           /\ Stored \subseteq DOMAIN log
           /\ \A i \in DOMAIN log : log[i] \in Events /\ log[i].at \in Nat /\ log[i].revision \in Nat
           /\ \A i \in DOMAIN ledger : ledger[i] \in {"new", "applied", "review", "recorded"}
           /\ Reports \subseteq DOMAIN log /\ IsFiniteSet(Reports) /\ Cardinality(Reports) \in Nat
<1>1. /\ Len(log) \in Nat /\ DOMAIN log = 1 .. Len(log)
      /\ Len(ledger) = Len(log) /\ DOMAIN ledger = DOMAIN log
      /\ \A i \in DOMAIN log : log[i] \in Events
      /\ \A i \in DOMAIN ledger : ledger[i] \in {"new", "applied", "review", "recorded"}
  BY DEF TypeOK
<1>2. \A e \in Events : e.at \in Nat /\ e.revision \in Nat
  BY DEF Events
<1>3. IsFiniteSet(1 .. Len(log))
  BY <1>1, FS_Interval
<1>4. Reports \subseteq 1 .. Len(log)
  BY <1>1 DEF Reports
<1>5. IsFiniteSet(Reports) /\ Cardinality(Reports) \in Nat
  BY <1>3, <1>4, FS_Subset, FS_CardinalityType
<1>6. Stored \subseteq DOMAIN log
  BY <1>1 DEF Stored
<1> QED BY <1>1, <1>2, <1>4, <1>5, <1>6

\* An event built from values of its fields' types is an event.
LEMMA EventType ==
    ASSUME NEW kind \in {"progress", "error", "terminal", "report"}, NEW at \in Nat,
           NEW outcome \in Final \cup {"unknown", "none"}, NEW complete \in BOOLEAN, NEW revision \in Nat
    PROVE  [kind |-> kind, at |-> at, outcome |-> outcome, complete |-> complete, revision |-> revision]
           \in Events
BY DEF Events

\* The effect of a connector step: one event is queued at the end of the log.
Queued(e) ==
    /\ log' = Append(log, e) /\ ledger' = Append(ledger, "new")
    /\ UNCHANGED <<assignment, run, usages, staff, refusals, inOrder>>
    /\ e.at # None
    /\ e.kind = "terminal" => e.outcome # "none"
    /\ log # <<>> => log[Len(log)].at <= e.at
    /\ e.kind = "report" => e.revision = 1 + Cardinality(Reports)
    /\ printer' \in {"active", "lost", "closed"} \cup Final
    /\ printer' \in Final => printer' = printer \/ (e.kind = "terminal" /\ e.outcome \in Final)
    /\ printer' \in {"lost", "closed"} => printer' = printer \/ e.outcome = "unknown"

\* Every step of the reducer queues one event in this way.
LEMMA ConnectorEffect ==
    ASSUME TypeOK, LogOrdered, ConnectorStep
    PROVE  \E e \in Events : Queued(e)
<1>1. /\ Len(log) \in Nat /\ DOMAIN log = 1 .. Len(log)
      /\ \A i \in DOMAIN log : log[i] \in Events /\ log[i].at \in Nat /\ log[i].revision \in Nat
      /\ Cardinality(Reports) \in Nat
  BY LogShape
<1>2. log # <<>> => Len(log) \in DOMAIN log
  BY <1>1 DEF TypeOK
<1>3. Now \in Nat /\ Now # None /\ (log # <<>> => log[Len(log)].at <= Now)
  BY <1>1, <1>2 DEF Now, None
<1>4. SnapshotComplete \subseteq BOOLEAN /\ FactsComplete \subseteq BOOLEAN
  <2>1. \A i \in DOMAIN log : log[i].complete \in BOOLEAN
    BY <1>1 DEF Events
  <2> QED BY <2>1 DEF SnapshotComplete, FactsComplete
<1>5. CASE Progress
  <2>1. PICK complete \in BOOLEAN : Emit("progress", Now, "none", complete, None)
    BY <1>4, <1>5 DEF Progress
  <2> DEFINE e == [kind |-> "progress", at |-> Now, outcome |-> "none", complete |-> complete, revision |-> None]
  <2>2. e \in Events
    BY <1>3, EventType DEF None
  <2> QED BY <1>3, <1>5, <2>1, <2>2 DEF Progress, Emit, Final, Queued
<1>6. ASSUME NEW outcome \in Final, Terminal(outcome) PROVE \E e \in Events : Queued(e)
  <2>1. PICK complete \in BOOLEAN : Emit("terminal", Now, outcome, complete, None)
    BY <1>4, <1>6 DEF Terminal
  <2> DEFINE e == [kind |-> "terminal", at |-> Now, outcome |-> outcome, complete |-> complete, revision |-> None]
  <2>2. e \in Events
    BY <1>3, EventType DEF None
  <2> QED BY <1>3, <1>6, <2>1, <2>2 DEF Terminal, Emit, Final, Queued
<1>7. ASSUME NEW how \in Unknowns, GiveUp(how) PROVE \E e \in Events : Queued(e)
  <2>1. PICK complete \in BOOLEAN : Emit("terminal", Now, "unknown", complete, None)
    BY <1>4, <1>7 DEF GiveUp
  <2> DEFINE e == [kind |-> "terminal", at |-> Now, outcome |-> "unknown", complete |-> complete, revision |-> None]
  <2>2. e \in Events
    BY <1>3, EventType DEF None
  <2> QED BY <1>3, <1>7, <2>1, <2>2, RunBounds DEF GiveUp, Emit, Final, Queued
<1>8. CASE PrinterError
  <2>1. log # <<>> /\ log[Len(log)] \in Events /\ log[Len(log)].complete \in BOOLEAN
    BY <1>1, <1>2, <1>8 DEF PrinterError, Events, LogOrdered
  <2>2. PICK at \in Nat, complete \in BOOLEAN :
           /\ Emit("error", at, "none", complete, None)
           /\ at \in {Now, log[Len(log)].at}
    BY <1>1, <1>2, <1>3, <1>4, <1>8, <2>1 DEF PrinterError
  <2>3. at # None /\ log[Len(log)].at <= at
    BY <1>1, <1>2, <1>3, <2>1, <2>2 DEF LogOrdered
  <2> DEFINE e == [kind |-> "error", at |-> at, outcome |-> "none", complete |-> complete, revision |-> None]
  <2>4. e \in Events
    BY EventType DEF None
  <2> QED BY <1>8, <2>2, <2>3, <2>4 DEF PrinterError, Emit, Queued, TypeOK
<1>9. CASE ConsumptionReport
  <2>1. PICK complete \in BOOLEAN : Emit("report", Now, "none", complete, 1 + Cardinality(Reports))
    BY <1>4, <1>9 DEF ConsumptionReport, Reports
  <2> DEFINE e == [kind |-> "report", at |-> Now, outcome |-> "none", complete |-> complete,
                   revision |-> 1 + Cardinality(Reports)]
  <2>2. e \in Events
    BY <1>1, <1>3, EventType
  <2>3. printer' = printer /\ printer # "idle"
    BY <1>1, <1>9 DEF ConsumptionReport, LogOrdered
  <2> QED BY <1>3, <2>1, <2>2, <2>3 DEF Emit, Queued, TypeOK
<1> QED BY <1>5, <1>6, <1>7, <1>8, <1>9 DEF ConnectorStep

\* Queueing an event keeps the events before it and stores none.
LEMMA LogGrows ==
    ASSUME TypeOK, NEW e \in Events, Queued(e)
    PROVE  /\ log' \in Seq(Events) /\ Len(log') = Len(log) + 1 /\ DOMAIN log' = 1 .. (Len(log) + 1)
           /\ \A i \in DOMAIN log : log'[i] = log[i]
           /\ log'[Len(log) + 1] = e
           /\ ledger' \in Seq({"new", "applied", "review", "recorded"}) /\ Len(ledger') = Len(log')
           /\ Stored' = Stored
           /\ Reports' = Reports \cup (IF e.kind = "report" THEN {Len(log) + 1} ELSE {})
<1>1. /\ Len(log) \in Nat /\ DOMAIN log = 1 .. Len(log)
      /\ Len(ledger) = Len(log) /\ DOMAIN ledger = DOMAIN log
      /\ log \in Seq(Events) /\ ledger \in Seq({"new", "applied", "review", "recorded"})
  BY LogShape DEF TypeOK
<1>2. log' = Append(log, e) /\ ledger' = Append(ledger, "new")
  BY DEF Queued
<1>3. /\ log' \in Seq(Events) /\ Len(log') = Len(log) + 1 /\ DOMAIN log' = 1 .. (Len(log) + 1)
      /\ \A i \in DOMAIN log : log'[i] = log[i]
      /\ log'[Len(log) + 1] = e
  BY <1>1, <1>2
<1>4. /\ ledger' \in Seq({"new", "applied", "review", "recorded"}) /\ Len(ledger') = Len(log) + 1
      /\ DOMAIN ledger' = 1 .. (Len(log) + 1)
      /\ \A i \in DOMAIN log : ledger'[i] = ledger[i]
      /\ ledger'[Len(log) + 1] = "new"
  BY <1>1, <1>2
<1>5. Stored' = Stored
  BY <1>1, <1>4 DEF Stored
<1>6. Reports' = Reports \cup (IF e.kind = "report" THEN {Len(log) + 1} ELSE {})
  BY <1>1, <1>3 DEF Reports
<1> QED BY <1>1, <1>3, <1>4, <1>5, <1>6

\* ListLatestReportedUsageItemsForRuns finds the last report of a set of
\* stored events, because report revisions grow along the log.
LEMMA LatestIs ==
    ASSUME TypeOK, LogOrdered, NEW S, S \subseteq DOMAIN log
    PROVE  /\ S \cap Reports = {} => LatestReport(S) = None
           /\ S \cap Reports # {} => /\ LatestReport(S) \in S \cap Reports
                                     /\ \A j \in S \cap Reports : j <= LatestReport(S)
<1> DEFINE R == {k \in S : log[k].kind = "report"}
<1>1. R = S \cap Reports
  BY DEF Reports
<1>2. CASE R = {}
  BY <1>1, <1>2 DEF LatestReport
<1>3. CASE R # {}
  <2>1. R \subseteq Nat /\ \A k \in R : k <= Len(log)
    BY LogShape
  <2>2. PICK m \in R : \A k \in R : k <= m
    <3> HIDE DEF R
    <3> QED BY <1>3, <2>1, LogShape, GreatestNatural
  <2>3. \A k \in R : log[k].revision \in Nat
    BY LogShape
  <2>4. \A j \in R : j # m => log[j].revision < log[m].revision
    <3> HIDE DEF R
    <3> QED BY <1>1, <2>1, <2>2 DEF LogOrdered
  <2>5. \A j \in R : log[j].revision <= log[m].revision
    BY <2>2, <2>3, <2>4
  <2>6. LatestReport(S) = CHOOSE k \in R : \A j \in R : log[j].revision <= log[k].revision
    BY <1>3 DEF LatestReport
  <2> DEFINE c == CHOOSE k \in R : \A j \in R : log[j].revision <= log[k].revision
  <2>7. c \in R /\ \A j \in R : log[j].revision <= log[c].revision
    <3> HIDE DEF R
    <3> QED BY <2>2, <2>5
  <2>8. c = m
    <3> HIDE DEF R, c
    <3> QED BY <2>2, <2>3, <2>4, <2>7
  <2>9. LatestReport(S) = m
    BY <2>6, <2>8
  <2> HIDE DEF c, R
  <2> QED BY <1>1, <1>3, <2>2, <2>9
<1> QED BY <1>2, <1>3

-----------------------------------------------------------------------------
(* The operators of Core's ingestion. *)

\* Types of the usage rows.
LEMMA UsageShape ==
    ASSUME TypeOK
    PROVE  /\ Len(usages) \in Nat /\ DOMAIN usages = 1 .. Len(usages)
           /\ \A k \in DOMAIN usages : usages[k] \in [source : Nat, active : BOOLEAN] /\ usages[k].source \in Nat
           /\ usages = <<>> <=> Len(usages) = 0
<1>1. usages \in Seq([source : Nat, active : BOOLEAN])
  BY DEF TypeOK
<1>2. \A k \in DOMAIN usages : usages[k] \in [source : Nat, active : BOOLEAN]
  BY <1>1, ElementOfSeq, LenProperties
<1>3. Len(usages) \in Nat /\ DOMAIN usages = 1 .. Len(usages)
  BY <1>1, LenProperties
<1>4. usages = <<>> <=> Len(usages) = 0
  BY <1>1, EmptySeq
<1> QED BY <1>2, <1>3, <1>4

\* The usage rows after all of them were compensated.
Deactivated == [k \in DOMAIN usages |-> [usages[k] EXCEPT !.active = FALSE]]

\* Compensating the rows changes nothing else of them.
LEMMA DeactivatedShape ==
    ASSUME TypeOK
    PROVE  /\ Deactivated \in Seq([source : Nat, active : BOOLEAN])
           /\ Len(Deactivated) = Len(usages) /\ DOMAIN Deactivated = DOMAIN usages
           /\ \A k \in DOMAIN usages : Deactivated[k].source = usages[k].source /\ ~Deactivated[k].active
<1>1. \A k \in DOMAIN usages : usages[k] \in [source : Nat, active : BOOLEAN]
  BY UsageShape
<1>2. \A k \in DOMAIN usages : /\ [usages[k] EXCEPT !.active = FALSE] \in [source : Nat, active : BOOLEAN]
                               /\ [usages[k] EXCEPT !.active = FALSE].source = usages[k].source
                               /\ [usages[k] EXCEPT !.active = FALSE].active = FALSE
  BY <1>1
<1>3. /\ Deactivated \in [1 .. Len(usages) -> [source : Nat, active : BOOLEAN]]
      /\ Len(usages) \in Nat
  BY <1>2, UsageShape DEF Deactivated
<1>4. Deactivated \in Seq([source : Nat, active : BOOLEAN]) /\ Len(Deactivated) = Len(usages)
  <2>1. Deactivated \in Seq([source : Nat, active : BOOLEAN])
    BY <1>3, SeqDef
  <2>2. DOMAIN Deactivated = 1 .. Len(usages)
    BY <1>3
  <2> QED BY <1>3, <2>1, <2>2, LenProperties
<1>5. DOMAIN Deactivated = DOMAIN usages
  BY DEF Deactivated
<1>6. \A k \in DOMAIN usages : Deactivated[k] = [usages[k] EXCEPT !.active = FALSE]
  BY DEF Deactivated
<1> QED BY <1>2, <1>4, <1>5, <1>6

\* replaceRunUsages compensates all rows and adds one active row.
LEMMA ReplacedShape ==
    ASSUME TypeOK, NEW source \in Nat
    PROVE  /\ Replaced(source) \in Seq([source : Nat, active : BOOLEAN])
           /\ Len(Replaced(source)) = Len(usages) + 1
           /\ DOMAIN Replaced(source) = 1 .. (Len(usages) + 1)
           /\ \A k \in DOMAIN usages : /\ Replaced(source)[k].source = usages[k].source
                                       /\ ~Replaced(source)[k].active
           /\ Replaced(source)[Len(usages) + 1].source = source
           /\ Replaced(source)[Len(usages) + 1].active
<1> DEFINE new == [source |-> source, active |-> TRUE]
<1>1. Replaced(source) = Append(Deactivated, new)
  BY DEF Replaced, Deactivated
<1>2. new \in [source : Nat, active : BOOLEAN] /\ new.source = source /\ new.active
  OBVIOUS
<1>3. /\ Len(usages) \in Nat /\ DOMAIN usages = 1 .. Len(usages)
      /\ Deactivated \in Seq([source : Nat, active : BOOLEAN])
      /\ Len(Deactivated) = Len(usages)
      /\ \A k \in DOMAIN usages : Deactivated[k].source = usages[k].source /\ ~Deactivated[k].active
  BY UsageShape, DeactivatedShape
<1> HIDE DEF new
<1> QED BY <1>1, <1>2, <1>3, AppendProperties

\* What recordObservedRun does to the fields of the run.
LEMMA ObservedFields ==
    ASSUME NEW r \in Runs, NEW e \in Events
    PROVE  /\ Observed(r, e) \in Runs
           /\ Observed(r, e).state = IF r.state = "none" THEN RecordedRunState(e) ELSE UpdatedState(r, e)
           /\ Observed(r, e).last = IF r.state = "none" THEN e.at ELSE Later(r.last, e.at)
           /\ Observed(r, e).started = r.started /\ Observed(r, e).ended = r.ended
           /\ Observed(r, e).outcome = r.outcome
           /\ Observed(r, e).deleted <=> r.deleted
<1>1. /\ e.at \in Nat /\ r.last \in Nat
      /\ RecordedRunState(e) \in {"none", "running", "unknown"} \cup Final
      /\ UpdatedState(r, e) \in {"none", "running", "unknown"} \cup Final
  BY DEF Events, Runs, RecordedRunState, UpdatedState, Final
<1>2. e.complete \in BOOLEAN /\ r.complete \in BOOLEAN
  BY DEF Events, Runs
<1>3. (r.complete /\ e.complete) \in BOOLEAN
  OBVIOUS
<1>4. CASE r.state = "none"
  <2>1. Observed(r, e) = [r EXCEPT !.state = RecordedRunState(e), !.complete = e.complete, !.last = e.at]
    BY <1>4 DEF Observed
  <2> QED BY <1>1, <1>2, <1>4, <2>1 DEF Runs
<1>5. CASE r.state # "none"
  <2>1. Observed(r, e) = [r EXCEPT !.state = UpdatedState(r, e), !.complete = r.complete /\ e.complete,
                                   !.last = Later(r.last, e.at)]
    BY <1>5 DEF Observed
  <2>2. Later(r.last, e.at) \in Nat
    BY <1>1 DEF Later
  <2> QED BY <1>1, <1>3, <1>5, <2>1, <2>2 DEF Runs
<1> QED BY <1>4, <1>5

\* The run after applyPrintFacts and SetRecordedRunOutcomeFromMachine.
Settled(r, e) == MachineOutcome(PrintFacts(r, e), e)

\* What applyPrintFacts and SetRecordedRunOutcomeFromMachine do to the fields
\* of the run: neither touches the state, a set outcome stays, the end is
\* clamped to the start.
LEMMA SettledFields ==
    ASSUME NEW r \in Runs, NEW e \in Events
    PROVE  /\ Settled(r, e) \in Runs
           /\ Settled(r, e).state = r.state /\ Settled(r, e).last = r.last
           /\ Settled(r, e).deleted <=> r.deleted
           /\ r.outcome # "none" => Settled(r, e).outcome = r.outcome
           /\ LET started == IF e.kind = "progress" /\ r.started = None THEN e.at ELSE r.started
                  ended   == IF e.kind = "terminal" /\ r.ended = None THEN e.at ELSE r.ended
              IN  /\ Settled(r, e).started = started
                  /\ Settled(r, e).ended = IF ended # None THEN Later(started, ended) ELSE ended
<1> DEFINE started == IF e.kind = "progress" /\ r.started = None THEN e.at ELSE r.started
           ended == IF e.kind = "terminal" /\ r.ended = None THEN e.at ELSE r.ended
           end == IF ended # None THEN Later(started, ended) ELSE ended
           p == PrintFacts(r, e)
<1>1. started \in Nat /\ end \in Nat
  BY DEF Runs, Events, Later
<1>2. p = [r EXCEPT !.started = started, !.ended = end]
  BY DEF PrintFacts
<1>3. /\ p \in Runs /\ p.state = r.state /\ p.last = r.last /\ (p.deleted <=> r.deleted)
      /\ p.outcome = r.outcome /\ p.started = started /\ p.ended = end
  <2> HIDE DEF started, ended, end, p
  <2> QED BY <1>1, <1>2 DEF Runs
<1>4. CASE e.kind = "terminal" /\ p.outcome = "none" /\ p.state \in Final
  <2>1. Settled(r, e) = [p EXCEPT !.outcome = p.state]
    BY <1>4 DEF Settled, MachineOutcome
  <2> HIDE DEF started, ended, end, p
  <2>2. /\ Settled(r, e) \in Runs /\ Settled(r, e).state = p.state /\ Settled(r, e).last = p.last
        /\ (Settled(r, e).deleted <=> p.deleted)
        /\ Settled(r, e).started = p.started /\ Settled(r, e).ended = p.ended
    BY <1>3, <1>4, <2>1 DEF Runs
  <2> QED BY <1>3, <1>4, <2>2 DEF started, ended, end
<1>5. CASE ~ (e.kind = "terminal" /\ p.outcome = "none" /\ p.state \in Final)
  <2>1. Settled(r, e) = p
    BY <1>5 DEF Settled, MachineOutcome
  <2> HIDE DEF p
  <2> QED BY <1>3, <2>1
<1> QED BY <1>4, <1>5

\* The three results of consumeReportedUsage: booked, refused by inventory,
\* nothing to book.
Books(r, S) ==
    \/ /\ Bookable(r, LatestReport(S))
       /\ usages' = Replaced(LatestReport(S))
       /\ refusals' = refusals
    \/ /\ Bookable(r, LatestReport(S))
       /\ usages' = usages
       /\ refusals < MaxRefusals /\ refusals' = refusals + 1
    \/ /\ ~Bookable(r, LatestReport(S))
       /\ usages' = usages /\ refusals' = refusals

\* ingestOne stores the event and does one of three things: nothing for a
\* deleted run, only the observation for an event it holds already, and
\* otherwise the whole update.
LEMMA IngestEffect ==
    ASSUME TypeOK, NEW i \in DOMAIN log, Ingest(i)
    PROVE  /\ UNCHANGED <<printer, log, assignment, staff>>
           /\ inOrder' \in BOOLEAN
           /\ inOrder' => inOrder /\ \A j \in DOMAIN log : j < i => j \in Stored
           /\ ledger' \in Seq({"new", "applied", "review", "recorded"}) /\ Len(ledger') = Len(ledger)
           /\ Stored' = Stored \cup {i}
           /\ \/ run.deleted /\ UNCHANGED <<run, usages, refusals>>
              \/ /\ ~run.deleted /\ i \in Stored
                 /\ run' = Observed(run, log[i]) /\ UNCHANGED <<usages, refusals>>
              \/ /\ ~run.deleted /\ i \notin Stored
                 /\ run' = Settled(Observed(run, log[i]), log[i])
                 /\ Books(run', Stored \cup {i})
<1> DEFINE States == {"new", "applied", "review", "recorded"}
<1>0. /\ Len(log) \in Nat /\ DOMAIN log = 1 .. Len(log)
      /\ Len(ledger) = Len(log) /\ DOMAIN ledger = DOMAIN log
      /\ ledger \in Seq(States) /\ \A j \in DOMAIN ledger : ledger[j] \in States
      /\ i \in Nat
  BY LogShape DEF TypeOK
<1>1. /\ UNCHANGED <<printer, log, assignment, staff>>
      /\ inOrder' = (inOrder /\ {j \in 1 .. (i - 1) : j \notin Stored} = {})
  BY DEF Ingest
<1>2. inOrder' \in BOOLEAN /\ (inOrder' => inOrder /\ \A j \in DOMAIN log : j < i => j \in Stored)
  <2>1. inOrder' \in BOOLEAN
    BY <1>1
  <2>2. ASSUME inOrder' PROVE inOrder /\ \A j \in DOMAIN log : j < i => j \in Stored
    <3>1. inOrder /\ {j \in 1 .. (i - 1) : j \notin Stored} = {}
      BY <1>1, <2>2
    <3> QED BY <1>0, <3>1
  <2> QED BY <2>1, <2>2
<1>3. ASSUME NEW v \in States, v # "new", ledger' = [ledger EXCEPT ![i] = v]
      PROVE  ledger' \in Seq(States) /\ Len(ledger') = Len(ledger) /\ Stored' = Stored \cup {i}
  <2>1. /\ ledger' \in Seq(States) /\ Len(ledger') = Len(ledger)
        /\ \A j \in 1 .. Len(ledger) : ledger'[j] = IF j = i THEN v ELSE ledger[j]
    BY <1>0, <1>3, ExceptSeq
  <2>2. DOMAIN ledger' = DOMAIN ledger
    BY <1>0, <2>1
  <2> QED BY <1>0, <1>3, <2>1, <2>2 DEF Stored
<1>4. CASE IngestIntoDeleted(i)
  <2>1. PICK v \in States : v # "new" /\ ledger' = [ledger EXCEPT ![i] = v]
    BY <1>0, <1>4 DEF IngestIntoDeleted
  <2> HIDE DEF States
  <2> QED BY <1>1, <1>2, <1>3, <1>4, <2>1 DEF IngestIntoDeleted, States
<1>5. CASE IngestDuplicate(i)
  <2>1. ledger' = ledger /\ i \in Stored
    BY <1>5 DEF IngestDuplicate
  <2>2. Stored' = Stored \cup {i}
    BY <2>1 DEF Stored
  <2> QED BY <1>0, <1>1, <1>2, <1>5, <2>1, <2>2 DEF IngestDuplicate
<1>6. CASE IngestNew(i)
  <2>1. PICK v \in States : v # "new" /\ ledger' = [ledger EXCEPT ![i] = v]
    BY <1>0, <1>6 DEF IngestNew
  <2>2. /\ ~run.deleted /\ i \notin Stored
        /\ run' = Settled(Observed(run, log[i]), log[i])
        /\ Book(run', Stored \cup {i})
    BY <1>6 DEF IngestNew, Settled
  <2>3. Books(run', Stored \cup {i})
    BY <2>2 DEF Book, Books
  <2> HIDE DEF States
  <2> QED BY <1>1, <1>2, <1>3, <2>1, <2>2, <2>3 DEF States
<1> QED BY <1>4, <1>5, <1>6 DEF Ingest

\* The report found, if any, is an index.
LEMMA ReplacedType ==
    ASSUME TypeOK, LogOrdered, NEW S, S \subseteq DOMAIN log
    PROVE  LatestReport(S) \in Nat
BY LatestIs, LogShape DEF None

-----------------------------------------------------------------------------
(* Types and the log. *)

\* Every step keeps TypeOK.
LEMMA TypeStep ==
    ASSUME TypeOK, LogOrdered, [Next]_vars
    PROVE  TypeOK'
<1> USE RunBounds
<1>1. CASE UNCHANGED vars
  BY <1>1 DEF TypeOK, vars
<1>2. CASE ConnectorStep
  <2>1. PICK e \in Events : Queued(e)
    BY <1>2, ConnectorEffect
  <2>2. log' \in Seq(Events) /\ ledger' \in Seq({"new", "applied", "review", "recorded"}) /\ Len(ledger') = Len(log')
    BY <2>1, LogGrows
  <2> QED BY <2>1, <2>2 DEF Queued, TypeOK
<1>3. ASSUME NEW i \in DOMAIN log, Ingest(i) PROVE TypeOK'
  <2>0. log[i] \in Events /\ Stored \cup {i} \subseteq DOMAIN log
    BY LogShape
  <2>1. run' \in Runs
    <3>1. run \in Runs
      BY DEF TypeOK
    <3>2. Observed(run, log[i]) \in Runs
      BY <2>0, <3>1, ObservedFields
    <3>3. Settled(Observed(run, log[i]), log[i]) \in Runs
      BY <2>0, <3>2, SettledFields
    <3> QED BY <1>3, <3>1, <3>2, <3>3, IngestEffect
  <2>2. usages' \in Seq([source : Nat, active : BOOLEAN]) /\ refusals' \in 0 .. MaxRefusals
    <3>1. CASE UNCHANGED <<usages, refusals>>
      BY <3>1 DEF TypeOK
    <3>2. CASE Books(run', Stored \cup {i})
      <4>1. LatestReport(Stored \cup {i}) \in Nat
        BY <2>0, ReplacedType
      <4>2. Replaced(LatestReport(Stored \cup {i})) \in Seq([source : Nat, active : BOOLEAN])
        BY <4>1, ReplacedShape
      <4>3. refusals \in 0 .. MaxRefusals /\ usages \in Seq([source : Nat, active : BOOLEAN])
        BY DEF TypeOK
      <4> QED BY <3>2, <4>2, <4>3 DEF Books
    <3> QED BY <1>3, <3>1, <3>2, IngestEffect
  <2> QED BY <1>3, <2>1, <2>2, IngestEffect DEF TypeOK
<1>4. CASE UpdateAssignment
  BY <1>4 DEF UpdateAssignment, TypeOK
<1>5. CASE DeleteConnector
  BY <1>5 DEF DeleteConnector, TypeOK, Runs
<1>6. ASSUME NEW outcome \in Final \cup {"none"}, UpdateRun(outcome) PROVE TypeOK'
  <2>1. run' = [run EXCEPT !.outcome = outcome] /\ run \in Runs
    BY <1>6 DEF UpdateRun, TypeOK
  <2>2. run' \in Runs
    BY <2>1 DEF Runs
  <2>3. staff' \in 0 .. MaxStaff
    BY <1>6 DEF UpdateRun, StaffStep, TypeOK
  <2> QED BY <1>6, <2>2, <2>3 DEF UpdateRun, StaffStep, TypeOK
<1>7. CASE ReplaceRunUsages
  <2>1. usages' \in {Replaced(Staff), Deactivated}
    BY <1>7 DEF ReplaceRunUsages, Deactivated
  <2>2. usages' \in Seq([source : Nat, active : BOOLEAN])
    BY <2>1, ReplacedShape, DeactivatedShape DEF Staff, None
  <2> QED BY <1>7, <2>2 DEF ReplaceRunUsages, StaffStep, TypeOK
<1>8. CASE DeleteRun
  <2>1. usages' \in {usages, Deactivated} /\ run' = [run EXCEPT !.deleted = TRUE]
    BY <1>8 DEF DeleteRun, Deactivated
  <2>2. usages' \in Seq([source : Nat, active : BOOLEAN])
    BY <2>1, DeactivatedShape DEF TypeOK
  <2>3. run' \in Runs
    BY <2>1 DEF TypeOK, Runs
  <2> QED BY <1>8, <2>2, <2>3 DEF DeleteRun, StaffStep, TypeOK
<1> QED BY <1>1, <1>2, <1>3, <1>4, <1>5, <1>6, <1>7, <1>8 DEF Next

\* Every step keeps LogOrdered; only the connector's steps touch it.
LEMMA LogOrderedStep ==
    ASSUME TypeOK, LogOrdered, [Next]_vars
    PROVE  LogOrdered'
<1>1. CASE UNCHANGED <<printer, log>>
  <2>1. Reports' = Reports
    BY <1>1 DEF Reports
  <2> QED BY <1>1, <2>1 DEF LogOrdered, HasResult
<1>2. CASE ConnectorStep
  <2>1. PICK e \in Events : Queued(e)
    BY <1>2, ConnectorEffect
  <2> DEFINE n == Len(log) + 1
  <2>2. /\ Len(log) \in Nat /\ DOMAIN log = 1 .. Len(log)
        /\ \A i \in DOMAIN log : log[i].at \in Nat /\ log[i].revision \in Nat
        /\ Reports \subseteq DOMAIN log /\ IsFiniteSet(Reports) /\ Cardinality(Reports) \in Nat
    BY LogShape
  <2>3. /\ log' \in Seq(Events) /\ DOMAIN log' = 1 .. n /\ Len(log') = n
        /\ \A i \in DOMAIN log : log'[i] = log[i]
        /\ log'[n] = e
        /\ Reports' = Reports \cup (IF e.kind = "report" THEN {n} ELSE {})
    BY <2>1, LogGrows
  <2>4. e.at \in Nat /\ e.revision \in Nat
    BY DEF Events
  <2>5. \A i \in DOMAIN log : log[i].at <= e.at
    <3>1. CASE log = <<>>
      BY <2>2, <3>1
    <3>2. CASE log # <<>>
      <4>1. Len(log) \in DOMAIN log /\ log[Len(log)].at <= e.at
        BY <2>1, <2>2, <3>2 DEF Queued, TypeOK
      <4> QED BY <2>2, <2>4, <4>1 DEF LogOrdered
    <3> QED BY <3>1, <3>2
  <2>6. \A i, j \in DOMAIN log' : i <= j => log'[i].at <= log'[j].at
    <3> SUFFICES ASSUME NEW i \in 1 .. n, NEW j \in 1 .. n, i <= j
                 PROVE  log'[i].at <= log'[j].at
      BY <2>3
    <3>1. CASE j \in DOMAIN log
      BY <2>2, <2>3, <3>1 DEF LogOrdered
    <3>2. CASE j = n /\ i \in DOMAIN log
      BY <2>3, <2>5, <3>2
    <3>3. CASE i = n /\ j = n
      BY <2>3, <2>4, <3>3
    <3> QED BY <2>2, <3>1, <3>2, <3>3
  <2>7. \A i \in DOMAIN log' : log'[i].at # None /\ (log'[i].kind = "terminal" => log'[i].outcome # "none")
    BY <2>1, <2>2, <2>3 DEF LogOrdered, Queued
  <2>8. Cardinality(Reports') = Cardinality(Reports) + (IF e.kind = "report" THEN 1 ELSE 0)
    <3>1. n \notin Reports
      BY <2>2
    <3>2. Cardinality(Reports \cup {n}) = Cardinality(Reports) + 1
      BY <2>2, <3>1, FS_AddElement
    <3>3. CASE e.kind = "report"
      BY <2>3, <3>2, <3>3
    <3>4. CASE e.kind # "report"
      <4>1. Reports' = Reports
        BY <2>3, <3>4
      <4> QED BY <2>2, <3>4, <4>1
    <3> QED BY <3>3, <3>4
  <2>9. /\ \A i \in Reports' : log'[i].revision <= Cardinality(Reports')
        /\ \A i, j \in Reports' : i < j => log'[i].revision < log'[j].revision
    <3>1. \A i \in Reports : log'[i] = log[i] /\ log[i].revision <= Cardinality(Reports) /\ i < n
      BY <2>2, <2>3 DEF LogOrdered
    <3>2. CASE e.kind # "report"
      BY <2>2, <2>3, <2>8, <3>1, <3>2 DEF LogOrdered
    <3>3. CASE e.kind = "report"
      <4>1. e.revision = Cardinality(Reports) + 1 /\ Reports' = Reports \cup {n}
            /\ Cardinality(Reports') = Cardinality(Reports) + 1
        BY <2>1, <2>2, <2>3, <2>8, <3>3 DEF Queued
      <4>2. \A i \in Reports' : log'[i].revision <= Cardinality(Reports')
        BY <2>2, <2>3, <3>1, <4>1
      <4>3. ASSUME NEW i \in Reports', NEW j \in Reports', i < j PROVE log'[i].revision < log'[j].revision
        <5>1. i \in Reports
          BY <2>2, <3>1, <4>1, <4>3
        <5>2. CASE j \in Reports
          BY <3>1, <4>3, <5>1, <5>2 DEF LogOrdered
        <5>3. CASE j = n
          BY <2>2, <2>3, <3>1, <4>1, <5>1, <5>3
        <5> QED BY <4>1, <5>2, <5>3
      <4> QED BY <4>2, <4>3
    <3> QED BY <3>2, <3>3
  <2>10. printer' # "idle" /\ log' # <<>>
    BY <2>1, <2>2, <2>3 DEF Queued, Final
  <2>11. printer' \in Final => \E i \in DOMAIN log' : (log'[i].kind = "terminal" /\ log'[i].outcome \in Final)
    BY <2>1, <2>2, <2>3 DEF Queued, LogOrdered, HasResult
  <2>12. printer' \in {"lost", "closed"} => \E i \in DOMAIN log' : log'[i].outcome = "unknown"
    BY <2>1, <2>2, <2>3 DEF Queued, LogOrdered
  <2> QED BY <2>6, <2>7, <2>9, <2>10, <2>11, <2>12 DEF LogOrdered, HasResult
<1>3. ASSUME NEW i \in DOMAIN log, Ingest(i) PROVE LogOrdered'
  BY <1>1, <1>3 DEF Ingest
<1> QED
  BY <1>1, <1>2, <1>3 DEF Next, vars, UpdateAssignment, DeleteConnector, UpdateRun, ReplaceRunUsages,
     DeleteRun, StaffStep

-----------------------------------------------------------------------------
(* The newest report. *)

\* Newest is the last stored report.
NewestCorrect ==
    /\ Stored \cap Reports = {} => Newest = None
    /\ Stored \cap Reports # {} => /\ Newest \in Stored \cap Reports
                                   /\ \A j \in Stored \cap Reports : j <= Newest

\* Newest is the last stored report in this state ...
LEMMA NewestNow == TypeOK /\ LogOrdered => NewestCorrect
BY LatestIs, LogShape DEF NewestCorrect, Newest

\* ... and in the next one.
LEMMA NewestNext == TypeOK' /\ LogOrdered' => NewestCorrect'
BY NewestNow, PTL

\* Newest changes only with the stored reports.
LEMMA NewestKept ==
    ASSUME TypeOK, LogOrdered, TypeOK', LogOrdered', Stored' \cap Reports' = Stored \cap Reports
    PROVE  Newest' = Newest
<1>1. NewestCorrect /\ NewestCorrect'
  BY NewestNow, NewestNext
<1>2. Stored \cap Reports \subseteq Nat
  BY LogShape
<1>3. CASE Stored \cap Reports = {}
  BY <1>1, <1>3 DEF NewestCorrect
<1>4. CASE Stored \cap Reports # {}
  <2>1. /\ Newest \in Stored \cap Reports /\ Newest' \in Stored \cap Reports
        /\ Newest <= Newest' /\ Newest' <= Newest
    BY <1>1, <1>4 DEF NewestCorrect
  <2> QED BY <1>2, <2>1
<1> QED BY <1>3, <1>4

\* The clauses about usages and the run row.
-----------------------------------------------------------------------------
(* Usages and the run row. *)

\* The clauses about usages and the run row.
Follows ==
    /\ UsagesOrdered
    /\ StoredPrefix
    /\ RunFollows
    /\ FinalBooked

\* A queued event changes nothing in Core.
LEMMA ConnectorKeepsFollows ==
    ASSUME TypeOK, LogOrdered, Follows, TypeOK', LogOrdered', ConnectorStep
    PROVE  Follows'
<1>1. PICK e \in Events : Queued(e)
  BY ConnectorEffect
<1>2. /\ Len(log) \in Nat /\ DOMAIN log = 1 .. Len(log) /\ Stored \subseteq DOMAIN log
      /\ Reports \subseteq DOMAIN log
  BY LogShape
<1>3. /\ DOMAIN log' = 1 .. (Len(log) + 1)
      /\ \A i \in DOMAIN log : log'[i] = log[i]
      /\ Stored' = Stored
      /\ Reports' = Reports \cup (IF e.kind = "report" THEN {Len(log) + 1} ELSE {})
  BY <1>1, LogGrows
<1>4. UNCHANGED <<run, usages, staff, refusals, inOrder>>
  BY <1>1 DEF Queued
<1>5. Stored' \cap Reports' = Stored \cap Reports
  BY <1>2, <1>3
<1>6. Newest' = Newest
  BY <1>5, NewestKept
<1>7. UsagesOrdered'
  <2>1. Rows(Staff)' = Rows(Staff)
    BY <1>4 DEF Rows, Staff
  <2> QED BY <1>4, <1>5, <2>1 DEF Follows, UsagesOrdered, Staff
<1>8. StoredPrefix'
  BY <1>2, <1>3, <1>4 DEF Follows, StoredPrefix
<1>9. RunFollows'
  <2>1. \A i \in Stored : log'[i] = log[i]
    BY <1>2, <1>3
  <2> QED BY <1>3, <1>4, <2>1 DEF Follows, RunFollows, HasResult
<1>10. FinalBooked'
  BY <1>4, <1>6 DEF Follows, FinalBooked
<1> QED BY <1>7, <1>8, <1>9, <1>10 DEF Follows

\* Ingesting an event, for the first time or again, keeps the clauses.
LEMMA IngestKeepsFollows ==
    ASSUME TypeOK, LogOrdered, Follows, TypeOK', LogOrdered', NEW i \in DOMAIN log, Ingest(i)
    PROVE  Follows'
<1> DEFINE e == log[i]
           seen == Observed(run, e)
<1>0. /\ Len(log) \in Nat /\ DOMAIN log = 1 .. Len(log) /\ Stored \subseteq DOMAIN log
      /\ Reports \subseteq DOMAIN log
      /\ \A j \in DOMAIN log : log[j] \in Events /\ log[j].at \in Nat
      /\ run \in Runs /\ run.last \in Nat /\ None \in Nat
      /\ run.state \in {"none", "running", "unknown"} \cup Final
      /\ e \in Events /\ e.at \in Nat
  BY LogShape DEF TypeOK, Runs, None
<1>1. /\ UNCHANGED <<printer, log, assignment, staff>>
      /\ inOrder' => inOrder /\ \A j \in DOMAIN log : j < i => j \in Stored
      /\ Stored' = Stored \cup {i}
      /\ \/ run.deleted /\ UNCHANGED <<run, usages, refusals>>
         \/ /\ ~run.deleted /\ i \in Stored
            /\ run' = seen /\ UNCHANGED <<usages, refusals>>
         \/ /\ ~run.deleted /\ i \notin Stored
            /\ run' = Settled(seen, e)
            /\ Books(run', Stored \cup {i})
  BY IngestEffect
<1>2. Reports' = Reports
  BY <1>1 DEF Reports
<1>3. NewestCorrect /\ NewestCorrect'
  BY NewestNow, NewestNext
<1>4. ~run.deleted =>
         /\ run'.state = IF run.state = "none" THEN RecordedRunState(e) ELSE UpdatedState(run, e)
         /\ run'.last = IF run.state = "none" THEN e.at ELSE Later(run.last, e.at)
         /\ ~run'.deleted
  <2>1. /\ seen \in Runs
        /\ seen.state = IF run.state = "none" THEN RecordedRunState(e) ELSE UpdatedState(run, e)
        /\ seen.last = IF run.state = "none" THEN e.at ELSE Later(run.last, e.at)
        /\ seen.deleted <=> run.deleted
    BY <1>0, ObservedFields
  <2>2. /\ Settled(seen, e).state = seen.state /\ Settled(seen, e).last = seen.last
        /\ Settled(seen, e).deleted <=> seen.deleted
    BY <1>0, <2>1, SettledFields
  <2> HIDE DEF seen, e
  <2> QED BY <1>1, <2>1, <2>2
<1>6. Newest' = LatestReport(Stored \cup {i})
  <2>1. /\ (Stored \cup {i}) \cap Reports = {} => LatestReport(Stored \cup {i}) = None
        /\ (Stored \cup {i}) \cap Reports # {} =>
              /\ LatestReport(Stored \cup {i}) \in (Stored \cup {i}) \cap Reports
              /\ \A j \in (Stored \cup {i}) \cap Reports : j <= LatestReport(Stored \cup {i})
    BY <1>0, LatestIs
  <2>2. /\ (Stored \cup {i}) \cap Reports = {} => Newest' = None
        /\ (Stored \cup {i}) \cap Reports # {} =>
              /\ Newest' \in (Stored \cup {i}) \cap Reports
              /\ \A j \in (Stored \cup {i}) \cap Reports : j <= Newest'
    BY <1>1, <1>2, <1>3 DEF NewestCorrect
  <2>3. (Stored \cup {i}) \cap Reports \subseteq Nat
    BY <1>0
  <2> DEFINE a == LatestReport(Stored \cup {i})
             R == (Stored \cup {i}) \cap Reports
  <2>4. /\ R = {} => a = None /\ Newest' = None
        /\ R # {} => a \in R /\ Newest' \in R /\ a <= Newest' /\ Newest' <= a
    BY <2>1, <2>2
  <2>5. R \subseteq Nat
    BY <2>3
  <2> HIDE DEF a, R
  <2>6. CASE R = {}
    BY <2>4, <2>6 DEF a
  <2>7. CASE R # {}
    <3>1. a \in Nat /\ Newest' \in Nat /\ a <= Newest' /\ Newest' <= a
      BY <2>4, <2>5, <2>7
    <3> DEFINE b == Newest'
    <3>2. a \in Nat /\ b \in Nat /\ a <= b /\ b <= a
      BY <3>1
    <3> HIDE DEF b
    <3>3. a = b
      BY <3>2
    <3> QED BY <3>3 DEF a, b
  <2> QED BY <2>6, <2>7
<1>7. \/ usages' = usages
      \/ /\ Bookable(run', Newest') /\ usages' = Replaced(Newest')
  BY <1>1, <1>6 DEF Books
<1>8. Bookable(run', Newest') => /\ Newest' \in Stored' \cap Reports' /\ Newest' # Staff
                                 /\ \A j \in Stored' \cap Reports' : j <= Newest'
                                 /\ Rows(Staff) = {} /\ Rows(Newest') = {}
                                 /\ run'.state # "running"
  BY <1>3 DEF Bookable, NewestCorrect, Staff
<1>9. /\ Len(usages) \in Nat /\ DOMAIN usages = 1 .. Len(usages)
      /\ \A k \in DOMAIN usages : usages[k].source \in Nat
      /\ usages = <<>> <=> Len(usages) = 0
  <2>1. \A u \in [source : Nat, active : BOOLEAN] : u.source \in Nat
    OBVIOUS
  <2> QED BY <2>1, UsageShape
<1>10. Bookable(run', Newest') /\ usages' = Replaced(Newest') =>
          /\ Len(usages') = Len(usages) + 1 /\ DOMAIN usages' = 1 .. (Len(usages) + 1)
          /\ \A k \in DOMAIN usages : usages'[k].source = usages[k].source /\ ~usages'[k].active
          /\ usages'[Len(usages) + 1].source = Newest' /\ usages'[Len(usages) + 1].active
  <2>1. Bookable(run', Newest') => Newest' \in Nat
    BY <1>0, <1>1, <1>8
  <2> QED BY <2>1, ReplacedShape
<1>11. UsagesOrdered'
  <2>1. CASE usages' = usages
    <3>1. Rows(Staff)' = Rows(Staff)
      BY <2>1 DEF Rows, Staff
    <3> QED BY <1>1, <1>2, <2>1, <3>1 DEF Follows, UsagesOrdered, Staff
  <2>2. CASE Bookable(run', Newest') /\ usages' = Replaced(Newest')
    <3> DEFINE n == Len(usages) + 1
    <3>1. \A k \in DOMAIN usages : usages'[k].source # Staff /\ usages'[k].source \in Stored' \cap Reports'
                                   /\ usages'[k].source < Newest'
      <4> TAKE k \in DOMAIN usages
      <4>1. usages'[k].source = usages[k].source
        BY <1>10, <2>2
      <4>2. usages[k].source # Staff /\ usages[k].source # Newest'
        BY <1>8, <2>2 DEF Rows
      <4>3. usages[k].source \in Stored \cap Reports
        BY <4>2 DEF Follows, UsagesOrdered
      <4>4. usages[k].source <= Newest' /\ Newest' \in Nat
        BY <1>0, <1>1, <1>2, <1>8, <2>2, <4>3
      <4> QED BY <1>1, <1>2, <1>9, <4>1, <4>2, <4>3, <4>4
    <3>2. \A k \in DOMAIN usages' : usages'[k].source # Staff /\ usages'[k].source \in Stored' \cap Reports'
      BY <1>8, <1>9, <1>10, <2>2, <3>1
    <3>3. Rows(Staff)' = {}
      BY <3>2 DEF Rows, Staff
    <3>4. \A k, l \in DOMAIN usages' : k < l => usages'[k].source < usages'[l].source
      <4> SUFFICES ASSUME NEW k \in 1 .. n, NEW l \in 1 .. n, k < l
                   PROVE  usages'[k].source < usages'[l].source
        BY <1>10, <2>2
      <4>1. k \in DOMAIN usages
        BY <1>9
      <4>2. CASE l = n
        BY <1>10, <2>2, <3>1, <4>1, <4>2
      <4>3. CASE l \in DOMAIN usages
        <5>1. usages[k].source # Staff /\ usages[l].source # Staff
          BY <1>10, <2>2, <3>1, <4>1, <4>3
        <5>2. usages[k].source < usages[l].source
          BY <4>1, <4>3, <5>1 DEF Follows, UsagesOrdered
        <5> QED BY <1>10, <2>2, <4>1, <4>3, <5>2
      <4> QED BY <1>9, <4>2, <4>3
    <3>5. \A k \in DOMAIN usages' : usages'[k].active => k = Len(usages')
      BY <1>9, <1>10, <2>2
    <3>6. usages'[Len(usages')].active
      BY <1>10, <2>2
    <3> QED BY <3>2, <3>3, <3>4, <3>5, <3>6 DEF UsagesOrdered, Staff
  <2> QED BY <1>7, <2>1, <2>2
<1>12. StoredPrefix'
  <2> SUFFICES ASSUME inOrder', NEW j \in Stored', NEW k \in DOMAIN log \ Stored' PROVE j < k
    BY <1>1 DEF StoredPrefix
  <2>1. CASE j \in Stored
    BY <1>1, <2>1 DEF Follows, StoredPrefix
  <2>2. CASE j = i
    BY <1>0, <1>1, <2>2
  <2> QED BY <1>1, <2>1, <2>2
<1>13. RunFollows'
  <2>1. CASE run.deleted
    <3>1. run' = run /\ run'.deleted
      BY <1>1, <2>1
    <3> QED BY <3>1 DEF RunFollows
  <2>2. CASE ~run.deleted
    <3>1. /\ run.state = "none" => run.last = None
          /\ run.last = None \/ \E j \in Stored : run.last = log[j].at
          /\ \A j \in Stored : HasResult(j) => run.state \in Final \/ log[j].at < run.last
          /\ inOrder => \A j \in Stored : HasResult(j) => run.state \in Final
      BY <2>2 DEF Follows, RunFollows
    <3>2. /\ run'.state = IF run.state = "none" THEN RecordedRunState(e) ELSE UpdatedState(run, e)
          /\ run'.last = Later(run.last, e.at)
      BY <1>0, <1>4, <2>2, <3>1 DEF Later, None
    <3>3. run'.last = None \/ \E j \in Stored' : run'.last = log[j].at
      BY <1>0, <1>1, <3>1, <3>2 DEF Later
    <3>4. RecordedRunState(e) # "none"
      BY <1>0 DEF RecordedRunState, LogOrdered
    <3>5. run'.state # "none"
      BY <3>2, <3>4 DEF UpdatedState
    <3>6. run.state \in Final => run'.state = run.state
      BY <3>2 DEF UpdatedState, Final
    <3>7. HasResult(i) => run'.state \in Final \/ e.at < run.last
      BY <1>0, <3>2 DEF HasResult, RecordedRunState, UpdatedState
    <3>8. run.last <= run'.last /\ run'.last \in Nat
      BY <1>0, <3>2 DEF Later
    <3>9. \A j \in Stored' : HasResult(j) => run'.state \in Final \/ log[j].at < run'.last
      BY <1>0, <1>1, <3>1, <3>6, <3>7, <3>8
    <3>10. ASSUME inOrder', HasResult(i) PROVE run'.state \in Final
      <4>1. CASE i \in Stored
        BY <1>1, <3>1, <3>6, <3>10, <4>1
      <4>2. CASE i \notin Stored
        <5>1. \A j \in Stored : j < i
          BY <1>0, <1>1, <3>10, <4>2 DEF Follows, StoredPrefix
        <5>2. \A j \in Stored : log[j].at <= e.at
          BY <1>0, <5>1 DEF LogOrdered
        <5>3. run.last <= e.at
          BY <1>0, <3>1, <5>2 DEF None
        <5> QED BY <1>0, <3>7, <3>10, <5>3
      <4> QED BY <4>1, <4>2
    <3>11. inOrder' => \A j \in Stored' : HasResult(j) => run'.state \in Final
      BY <1>1, <3>1, <3>6, <3>10
    <3>12. \A j : HasResult(j)' <=> HasResult(j)
      BY <1>1 DEF HasResult
    <3> QED BY <1>1, <3>3, <3>5, <3>9, <3>11, <3>12 DEF RunFollows
  <2> QED BY <2>1, <2>2
<1>14. FinalBooked'
  <2> SUFFICES ASSUME ~run'.deleted, run'.state \in Final, refusals' = 0
               PROVE  /\ \A k \in DOMAIN usages' : usages'[k].active /\ usages'[k].source # Staff
                             => usages'[k].source = Newest'
                      /\ staff = 0 /\ Newest' # None =>
                             \E k \in DOMAIN usages' : usages'[k].active /\ usages'[k].source = Newest'
    BY <1>1 DEF FinalBooked, Staff
  <2>0. ~run.deleted
    BY <1>1
  <2>1. CASE i \in Stored
    <3>1. Stored' = Stored /\ usages' = usages /\ refusals' = refusals
      BY <1>1, <2>0, <2>1
    <3>2. Newest' = Newest
      BY <1>2, <3>1, NewestKept
    <3>3. run.state \in Final
      <4>1. CASE HasResult(i)
        <5>1. run.state \in Final \/ e.at < run.last
          BY <2>0, <2>1, <4>1 DEF Follows, RunFollows
        <5>2. run.state = "none" => run.last = None
          BY <2>0 DEF Follows, RunFollows
        <5> QED BY <1>0, <1>4, <2>0, <5>1, <5>2 DEF UpdatedState, None
      <4>2. CASE ~HasResult(i)
        <5>1. RecordedRunState(e) \notin Final
          BY <4>2 DEF HasResult, RecordedRunState, Final
        <5> QED BY <1>4, <2>0, <5>1 DEF UpdatedState
      <4> QED BY <4>1, <4>2
    <3> QED BY <2>0, <3>1, <3>2, <3>3 DEF Follows, FinalBooked
  <2>2. CASE i \notin Stored
    <3>1. Books(run', Stored \cup {i})
      BY <1>1, <2>0, <2>2
    <3>2. CASE Bookable(run', Newest') /\ usages' = Replaced(Newest')
      BY <1>9, <1>10, <3>2
    <3>3. CASE ~Bookable(run', Newest') /\ usages' = usages
      <4>1. Newest' # None => Rows(Staff) # {} \/ Rows(Newest') # {} \/ (usages # <<>> /\ ~ActiveMachineUsage)
        BY <3>3 DEF Bookable, Final
      <4>2. ASSUME NEW k \in Rows(Newest'), Newest' # None
            PROVE  usages[k].source = Newest' /\ k \in DOMAIN usages /\ Newest' # Staff
        BY <4>2 DEF Rows, Staff
      <4>3. Newest' \in Nat /\ \A j \in Stored \cap Reports : j <= Newest'
        BY <1>0, <1>1, <1>2, <1>3 DEF NewestCorrect
      <4>4. ASSUME NEW k \in DOMAIN usages, usages[k].active, usages[k].source # Staff
            PROVE  usages[k].source = Newest'
        <5>1. usages[k].source \in Stored \cap Reports /\ k = Len(usages) /\ Rows(Staff) = {}
          BY <4>4 DEF Follows, UsagesOrdered
        <5>2. ActiveMachineUsage
          BY <4>4 DEF ActiveMachineUsage
        <5>3. Newest' # None
          BY <1>0, <1>1, <1>2, <1>3, <5>1 DEF NewestCorrect, None
        <5>4. PICK l \in Rows(Newest') : TRUE
          BY <4>1, <5>1, <5>2, <5>3
        <5>5. usages[l].source = Newest' /\ l \in DOMAIN usages /\ Newest' # Staff
          BY <4>2, <5>3
        <5>6. usages[k].source <= Newest'
          BY <4>3, <5>1
        <5>7. CASE l = k
          BY <5>5, <5>7
        <5>8. CASE l # k
          <6>1. l < k
            BY <1>9, <5>1, <5>5, <5>8
          <6>2. usages[l].source < usages[k].source
            BY <4>4, <5>5, <6>1 DEF Follows, UsagesOrdered
          <6> QED BY <1>9, <4>3, <5>5, <5>6, <6>2
        <5> QED BY <5>7, <5>8
      <4>5. ASSUME staff = 0, Newest' # None
            PROVE  \E k \in DOMAIN usages : usages[k].active /\ usages[k].source = Newest'
        <5>1. Rows(Staff) = {} /\ (usages # <<>> => usages[Len(usages)].active)
          BY <4>5 DEF Follows, UsagesOrdered
        <5>2. usages # <<>>
          BY <4>1, <4>5, <5>1 DEF Rows
        <5>3. Len(usages) \in DOMAIN usages
          BY <1>9, <5>2
        <5>4. usages[Len(usages)].source # Staff
          BY <5>1, <5>3 DEF Rows
        <5> QED BY <4>4, <5>1, <5>2, <5>3, <5>4
      <4> QED BY <3>3, <4>4, <4>5
    <3>4. CASE refusals' = refusals + 1
      BY <3>4 DEF TypeOK
    <3> QED BY <1>6, <3>1, <3>2, <3>3, <3>4 DEF Books
  <2> QED BY <2>1, <2>2
<1> QED BY <1>11, <1>12, <1>13, <1>14 DEF Follows

\* The effect of a step of staff: the state and the time of the run stay, and
\* the usages stay, are compensated or are replaced by one of staff.
StaffEdits ==
    /\ staff' = staff + 1 /\ staff' # 0
    /\ usages' \in {usages, Deactivated, Replaced(Staff)}
    /\ run'.state = run.state /\ run'.last = run.last /\ (run.deleted => run'.deleted)
    /\ UNCHANGED <<printer, log, assignment, ledger, refusals, inOrder>>

\* UpdateRun, ReplaceRunUsages and DeleteRun have this effect.
LEMMA StaffEffect ==
    ASSUME TypeOK,
           \/ \E outcome \in Final \cup {"none"} : UpdateRun(outcome)
           \/ ReplaceRunUsages
           \/ DeleteRun
    PROVE  StaffEdits
<1>1. StaffStep
  BY DEF UpdateRun, ReplaceRunUsages, DeleteRun
<1>2. staff' = staff + 1 /\ staff' # 0
      /\ UNCHANGED <<printer, log, assignment, ledger, refusals, inOrder>>
  BY <1>1, RunBounds DEF StaffStep, TypeOK
<1>3. usages' \in {usages, Deactivated, Replaced(Staff)}
  BY DEF UpdateRun, ReplaceRunUsages, DeleteRun, Deactivated
<1>4. run'.state = run.state /\ run'.last = run.last /\ (run.deleted => run'.deleted)
  <2>1. run \in Runs
    BY DEF TypeOK
  <2>2. ASSUME NEW outcome \in Final \cup {"none"}, UpdateRun(outcome)
        PROVE  run'.state = run.state /\ run'.last = run.last /\ (run.deleted => run'.deleted)
    BY <2>1, <2>2 DEF UpdateRun, Runs
  <2>3. CASE ReplaceRunUsages
    BY <2>3 DEF ReplaceRunUsages
  <2>4. CASE DeleteRun
    BY <2>1, <2>4 DEF DeleteRun, Runs
  <2> QED BY <2>2, <2>3, <2>4
<1> QED BY <1>2, <1>3, <1>4 DEF StaffEdits

\* A step of staff keeps the clauses.
LEMMA StaffKeepsFollows ==
    ASSUME TypeOK, LogOrdered, Follows, TypeOK', LogOrdered', StaffEdits
    PROVE  Follows'
<1>1. /\ UNCHANGED <<log, ledger, refusals, inOrder>> /\ staff' # 0
      /\ run'.state = run.state /\ run'.last = run.last /\ (run.deleted => run'.deleted)
  BY DEF StaffEdits
<1>2. Stored' = Stored /\ Reports' = Reports
  BY <1>1 DEF Stored, Reports
<1>3. Newest' = Newest
  BY <1>2, NewestKept
<1>4. Len(usages) \in Nat /\ DOMAIN usages = 1 .. Len(usages)
  BY UsageShape
<1>5. CASE usages' = usages
  <2>1. Rows(Staff)' = Rows(Staff)
    BY <1>5 DEF Rows, Staff
  <2>2. UsagesOrdered'
    BY <1>1, <1>2, <1>5, <2>1 DEF Follows, UsagesOrdered, Staff
  <2>3. FinalBooked'
    BY <1>1, <1>3, <1>5 DEF Follows, FinalBooked, Staff
  <2> QED BY <1>1, <1>2, <2>2, <2>3 DEF Follows, StoredPrefix, RunFollows, HasResult
<1>6. CASE usages' \in {Deactivated, Replaced(Staff)}
  <2>1. /\ \A k \in DOMAIN usages : usages'[k].source = usages[k].source /\ ~usages'[k].active
        /\ \A k \in DOMAIN usages' : \/ k \in DOMAIN usages
                                     \/ /\ k = Len(usages) + 1 /\ Len(usages') = Len(usages) + 1
                                        /\ usages'[k].source = Staff
    <3>1. CASE usages' = Deactivated
      BY <1>4, <3>1, DeactivatedShape
    <3>2. CASE usages' = Replaced(Staff)
      <4>1. Staff \in Nat
        BY DEF Staff, None
      <4>2. /\ Len(usages') = Len(usages) + 1 /\ DOMAIN usages' = 1 .. (Len(usages) + 1)
            /\ \A k \in DOMAIN usages : usages'[k].source = usages[k].source /\ ~usages'[k].active
            /\ usages'[Len(usages) + 1].source = Staff
        BY <3>2, <4>1, ReplacedShape
      <4> QED BY <1>4, <4>2
    <3> QED BY <1>6, <3>1, <3>2
  <2>2. \A k \in DOMAIN usages' : usages'[k].source # Staff => k \in DOMAIN usages /\ ~usages'[k].active
    BY <2>1
  <2>3. UsagesOrdered'
    BY <1>1, <1>2, <2>1, <2>2 DEF Follows, UsagesOrdered, Staff
  <2>4. FinalBooked'
    BY <1>1, <1>3, <2>2 DEF FinalBooked, Staff
  <2> QED BY <1>1, <1>2, <2>3, <2>4 DEF Follows, StoredPrefix, RunFollows, HasResult
<1> QED BY <1>5, <1>6 DEF StaffEdits

\* Ending the assignment and deleting the connector keep the clauses: the
\* latter moves a running run to unknown, never a final one.
LEMMA AssignmentKeepsFollows ==
    ASSUME TypeOK, LogOrdered, Follows, TypeOK', LogOrdered',
           UpdateAssignment \/ DeleteConnector \/ UNCHANGED vars
    PROVE  Follows'
<1>1. UNCHANGED <<log, ledger, usages, staff, refusals, inOrder>>
  BY DEF UpdateAssignment, DeleteConnector, vars
<1>2. \/ run' = run
      \/ /\ run.state = "running" /\ run'.state = "unknown"
         /\ run'.last = run.last /\ run'.deleted = run.deleted
  BY DEF UpdateAssignment, DeleteConnector, vars, TypeOK, Runs
<1>3. Stored' = Stored /\ Reports' = Reports
  BY <1>1 DEF Stored, Reports
<1>4. Newest' = Newest
  BY <1>3, NewestKept
<1>5. UsagesOrdered'
  <2>1. Rows(Staff)' = Rows(Staff)
    BY <1>1 DEF Rows, Staff
  <2> QED BY <1>1, <1>3, <2>1 DEF Follows, UsagesOrdered, Staff
<1>6. StoredPrefix'
  BY <1>1, <1>3 DEF Follows, StoredPrefix
<1>7. RunFollows'
  BY <1>1, <1>2, <1>3 DEF Follows, RunFollows, HasResult, Final
<1>8. FinalBooked'
  BY <1>1, <1>2, <1>4 DEF Follows, FinalBooked, Final, Staff
<1> QED BY <1>5, <1>6, <1>7, <1>8 DEF Follows

-----------------------------------------------------------------------------
(* The invariant holds, and what it implies. *)

\* The inductive invariant.
IndInv == TypeOK /\ LogOrdered /\ Follows

\* The initial states satisfy the inductive invariant.
LEMMA InitHolds == Init => IndInv
<1> SUFFICES ASSUME Init PROVE IndInv
  OBVIOUS
<1>1. log = <<>> /\ usages = <<>> /\ ledger = <<>>
  BY DEF Init
<1>2. DOMAIN log = {} /\ DOMAIN usages = {} /\ DOMAIN ledger = {} /\ Len(log) = 0 /\ Len(ledger) = 0
  BY <1>1
<1>3. /\ log \in Seq(Events) /\ ledger \in Seq({"new", "applied", "review", "recorded"})
      /\ usages \in Seq([source : Nat, active : BOOLEAN])
  BY <1>1
<1>4. run \in Runs
  BY DEF Init, Runs, None
<1>5. TypeOK
  BY <1>2, <1>3, <1>4, RunBounds DEF Init, TypeOK
<1>6. Reports = {} /\ Stored = {} /\ Rows(Staff) = {}
  BY <1>2 DEF Reports, Stored, Rows
<1>7. LogOrdered
  BY <1>1, <1>2, <1>6 DEF Init, LogOrdered, Final
<1>8. run.state = "none" /\ run.last = None
  BY DEF Init
<1>9. Follows
  BY <1>1, <1>2, <1>6, <1>8 DEF Follows, UsagesOrdered, StoredPrefix, RunFollows, FinalBooked, Final
<1> QED BY <1>5, <1>7, <1>9 DEF IndInv

\* Every step keeps the inductive invariant.
LEMMA StepHolds == IndInv /\ [Next]_vars => IndInv'
<1> SUFFICES ASSUME IndInv, [Next]_vars PROVE IndInv'
  OBVIOUS
<1>1. TypeOK /\ LogOrdered /\ Follows
  BY DEF IndInv
<1>2. TypeOK' /\ LogOrdered'
  BY <1>1, TypeStep, LogOrderedStep
<1>3. CASE ConnectorStep
  BY <1>1, <1>2, <1>3, ConnectorKeepsFollows DEF IndInv
<1>4. ASSUME NEW i \in DOMAIN log, Ingest(i) PROVE IndInv'
  BY <1>1, <1>2, <1>4, IngestKeepsFollows DEF IndInv
<1>5. CASE UpdateAssignment \/ DeleteConnector \/ UNCHANGED vars
  BY <1>1, <1>2, <1>5, AssignmentKeepsFollows DEF IndInv
<1>6. CASE \/ \E outcome \in Final \cup {"none"} : UpdateRun(outcome)
           \/ ReplaceRunUsages
           \/ DeleteRun
  BY <1>1, <1>2, <1>6, StaffEffect, StaffKeepsFollows DEF IndInv
<1> QED BY <1>3, <1>4, <1>5, <1>6 DEF Next

\* The inductive invariant always holds.
THEOREM IndInvCorrect == Spec => []IndInv
<1>1. Init => IndInv
  BY InitHolds
<1>2. IndInv /\ [Next]_vars => IndInv'
  BY StepHolds
<1> QED BY <1>1, <1>2, PTL DEF Spec

\* The run row, the stored events and the usages always have the shapes of
\* their tables (TypeOK).
THEOREM TypeCorrect == Spec => []TypeOK
<1>1. IndInv => TypeOK
  BY DEF IndInv
<1> QED BY <1>1, IndInvCorrect, PTL

\* However often and in whatever order reports arrive, each is booked at most
\* once and never after a newer one, one usage is active at a time, and the
\* booking of a final run is its newest report (BookedOnce,
\* consumeReportedUsage and replaceRunUsages).
THEOREM BookingCorrect == Spec => []BookedOnce
<1>1. IndInv => BookedOnce
  <2> SUFFICES ASSUME IndInv PROVE BookedOnce
    OBVIOUS
  <2>1. TypeOK /\ LogOrdered /\ UsagesOrdered /\ FinalBooked
    BY DEF IndInv, Follows
  <2>2. DOMAIN usages \subseteq Nat
    BY <2>1, UsageShape
  <2>3. ASSUME NEW k \in DOMAIN usages, NEW l \in DOMAIN usages,
               usages[k].source # Staff, usages[l].source # Staff, k < l
        PROVE  log[usages[k].source].revision < log[usages[l].source].revision
    <3>1. usages[k].source \in Reports /\ usages[l].source \in Reports
      BY <2>1, <2>3 DEF UsagesOrdered
    <3>2. usages[k].source < usages[l].source
      BY <2>1, <2>3 DEF UsagesOrdered
    <3> QED BY <2>1, <3>1, <3>2 DEF LogOrdered
  <2>4. \A k, l \in DOMAIN usages : usages[k].active /\ usages[l].active => k = l
    BY <2>1 DEF UsagesOrdered
  <2>5. \A k \in DOMAIN usages :
           /\ usages[k].active /\ usages[k].source # Staff
           /\ run.state \in Final /\ refusals = 0 /\ ~run.deleted
           => usages[k].source = LatestReport(Stored)
    BY <2>1 DEF FinalBooked, Newest
  <2> QED BY <2>3, <2>4, <2>5 DEF BookedOnce
<1> QED BY <1>1, IndInvCorrect, PTL

\* Once all events are stored in their order, a result among them has made the
\* run final.
LEMMA ResultMakesFinal ==
    ASSUME IndInv, inOrder, AllStored, NEW i \in DOMAIN log, HasResult(i)
    PROVE  run.state \in Final
BY DEF IndInv, Follows, RunFollows, AllStored

\* A run that ended with a result is not shown as running once its events are
\* stored in their order, whatever is replayed afterwards (ResultClosesRun,
\* UpdateObservedRun).
THEOREM ClosureCorrect == Spec => []ResultClosesRun
<1>1. IndInv => ResultClosesRun
  <2> SUFFICES ASSUME IndInv, inOrder, \A i \in DOMAIN log : log[i].outcome # "unknown",
                      AllStored, printer \notin {"idle", "active"}
               PROVE  run.state # "running"
    BY DEF ResultClosesRun, ClosedRunNotRunning
  <2>1. TypeOK /\ LogOrdered
    BY DEF IndInv
  <2>2. printer \in Final
    BY <2>1 DEF TypeOK, LogOrdered
  <2>3. PICK i \in DOMAIN log : HasResult(i)
    BY <2>1, <2>2 DEF LogOrdered
  <2> QED BY <2>3, ResultMakesFinal DEF Final
<1> QED BY <1>1, IndInvCorrect, PTL

\* The newest report of an ended run is booked once its events are stored in
\* their order, unless staff or inventory stood in the way (ReportBooked,
\* consumeReportedUsage at the terminal event and at the report).
THEOREM ReportCorrect == Spec => []ReportBooked
<1>1. IndInv => ReportBooked
  <2> SUFFICES ASSUME IndInv, inOrder, AllStored, printer \in Final,
                      LatestReport(Stored) # None, staff = 0, refusals = 0
               PROVE  \E k \in DOMAIN usages : usages[k].active /\ usages[k].source = LatestReport(Stored)
    BY DEF ReportBooked
  <2>1. PICK i \in DOMAIN log : HasResult(i)
    BY DEF IndInv, LogOrdered
  <2>2. run.state \in Final
    BY <2>1, ResultMakesFinal
  <2> QED BY <2>2 DEF IndInv, Follows, FinalBooked, Newest, AllStored
<1> QED BY <1>1, IndInvCorrect, PTL

-----------------------------------------------------------------------------
(* Start and end. *)

\* Every step keeps the end behind the start.
LEMMA EndStep ==
    ASSUME IndInv, EndNotBeforeStart, [Next]_vars
    PROVE  EndNotBeforeStart'
<1>1. CASE run'.started = run.started /\ run'.ended = run.ended
  BY <1>1 DEF EndNotBeforeStart
<1>2. ASSUME NEW i \in DOMAIN log, Ingest(i) PROVE EndNotBeforeStart'
  <2>1. TypeOK /\ run \in Runs /\ log[i] \in Events /\ log[i].at \in Nat
        /\ run.started \in Nat /\ run.ended \in Nat
    BY LogShape DEF IndInv, TypeOK, Runs
  <2> DEFINE e == log[i]
             r == Observed(run, e)
  <2>2. r \in Runs /\ r.started = run.started /\ r.ended = run.ended
    BY <2>1, ObservedFields
  <2>3. CASE run' = run
    BY <1>1, <2>3
  <2>4. CASE run' = r
    BY <1>1, <2>2, <2>4
  <2>5. CASE run' = Settled(r, e)
    <3> DEFINE started == IF e.kind = "progress" /\ r.started = None THEN e.at ELSE r.started
               ended == IF e.kind = "terminal" /\ r.ended = None THEN e.at ELSE r.ended
    <3>1. run'.started = started /\ run'.ended = IF ended # None THEN Later(started, ended) ELSE ended
      <4> HIDE DEF r, e
      <4>1. e \in Events
        BY <2>1 DEF e
      <4> QED BY <2>2, <2>5, <4>1, SettledFields
    <3>2. started \in Nat /\ ended \in Nat
      BY <2>1, <2>2
    <3> HIDE DEF started, ended
    <3> QED BY <3>1, <3>2 DEF EndNotBeforeStart, Later, None
  <2> QED BY <1>2, <2>1, <2>3, <2>4, <2>5, IngestEffect
<1>3. CASE ConnectorStep
  <2>1. run' = run
    BY <1>3, ConnectorEffect DEF IndInv, Queued
  <2> QED BY <1>1, <2>1
<1>4. CASE DeleteConnector \/ UpdateAssignment \/ UNCHANGED vars
  BY <1>1, <1>4 DEF DeleteConnector, UpdateAssignment, vars, IndInv, TypeOK, Runs
<1>5. ASSUME NEW outcome \in Final \cup {"none"}, UpdateRun(outcome) PROVE EndNotBeforeStart'
  BY <1>1, <1>5 DEF UpdateRun, IndInv, TypeOK, Runs
<1>6. CASE ReplaceRunUsages \/ DeleteRun
  BY <1>1, <1>6 DEF ReplaceRunUsages, DeleteRun, IndInv, TypeOK, Runs
<1> QED BY <1>2, <1>3, <1>4, <1>5, <1>6 DEF Next

\* The recorded end is never before the recorded start, in whatever order
\* start and end arrive (EndNotBeforeStart, applyPrintFacts).
THEOREM EndCorrect == Spec => []EndNotBeforeStart
<1>1. Init => EndNotBeforeStart
  BY DEF Init, EndNotBeforeStart
<1>2. IndInv /\ EndNotBeforeStart /\ [Next]_vars => EndNotBeforeStart'
  BY EndStep
<1> QED BY <1>1, <1>2, IndInvCorrect, PTL DEF Spec

-----------------------------------------------------------------------------
(* What a step may never do. *)

\* Every step that changes the run or its usages is a step of staff on a run
\* that is not deleted, the deletion of the connector, or an ingestion into a
\* run that is not deleted.
LEMMA RunChanges ==
    ASSUME IndInv, [Next]_vars
    PROVE  \/ UNCHANGED <<run, usages>>
           \/ StaffEdits /\ (run.deleted => UNCHANGED <<run, usages>>)
           \/ DeleteConnector /\ usages' = usages /\ assignment' # assignment
           \/ /\ ~run.deleted /\ UNCHANGED <<assignment, staff>>
              /\ \E i \in DOMAIN log :
                    \/ run' = Observed(run, log[i]) /\ usages' = usages
                    \/ /\ run' = Settled(Observed(run, log[i]), log[i])
                       /\ Books(run', Stored \cup {i})
<1>1. CASE ConnectorStep
  BY <1>1, ConnectorEffect DEF IndInv, Queued
<1>2. ASSUME NEW i \in DOMAIN log, Ingest(i)
      PROVE  \/ UNCHANGED <<run, usages>>
             \/ /\ ~run.deleted /\ UNCHANGED <<assignment, staff>>
                /\ \/ run' = Observed(run, log[i]) /\ usages' = usages
                   \/ /\ run' = Settled(Observed(run, log[i]), log[i])
                      /\ Books(run', Stored \cup {i})
  BY <1>2, IngestEffect DEF IndInv
<1>3. CASE UpdateAssignment \/ UNCHANGED vars
  BY <1>3 DEF UpdateAssignment, vars
<1>4. CASE DeleteConnector
  BY <1>4 DEF DeleteConnector
<1>5. CASE \/ \E outcome \in Final \cup {"none"} : UpdateRun(outcome)
           \/ ReplaceRunUsages
           \/ DeleteRun
  <2>1. ~run.deleted
    BY <1>5 DEF UpdateRun, ReplaceRunUsages, DeleteRun, StaffStep
  <2> QED BY <1>5, <2>1, StaffEffect DEF IndInv
<1> QED BY <1>1, <1>2, <1>3, <1>4, <1>5 DEF Next

\* No step changes a final state.
LEMMA FinalSticksStep ==
    ASSUME IndInv, [Next]_vars, run.state \in Final
    PROVE  run'.state = run.state
<1>0. TypeOK /\ run \in Runs
  BY DEF IndInv, TypeOK
<1>1. CASE StaffEdits
  BY <1>1 DEF StaffEdits
<1>2. CASE DeleteConnector
  BY <1>2 DEF DeleteConnector, Final
<1>3. ASSUME NEW i \in DOMAIN log,
             \/ run' = Observed(run, log[i])
             \/ run' = Settled(Observed(run, log[i]), log[i])
      PROVE  run'.state = run.state
  <2>1. log[i] \in Events
    BY <1>0, LogShape
  <2>2. Observed(run, log[i]) \in Runs /\ Observed(run, log[i]).state = run.state
    BY <1>0, <2>1, ObservedFields DEF UpdatedState, Final
  <2> QED BY <1>3, <2>1, <2>2, SettledFields
<1> QED BY <1>1, <1>2, <1>3, RunChanges

\* A final state reported by the machine is final, whatever arrives later or
\* again (FinalStateSticks, UpdateObservedRun and SettleRunsOfConnector).
THEOREM FinalStateCorrect == Spec => FinalStateSticks
<1>1. IndInv /\ [Next]_vars => [run.state \in Final => run'.state = run.state]_vars
  BY FinalSticksStep
<1> QED BY <1>1, IndInvCorrect, PTL DEF Spec, FinalStateSticks

\* A step that is not one of staff changes usages only if staff set none.
LEMMA StaffStandsStep ==
    ASSUME IndInv, [Next]_vars, staff' = staff, usages' # usages
    PROVE  Rows(Staff) = {}
<1>1. ~StaffEdits
  BY DEF StaffEdits, IndInv, TypeOK
<1>2. PICK i \in DOMAIN log : Books(run', Stored \cup {i})
  BY <1>1, RunChanges
<1> QED BY <1>2 DEF Books, Bookable

\* No event replaces usage that staff entered (StaffUsageStands,
\* GetRunUsageProvenance).
THEOREM StaffUsageCorrect == Spec => StaffUsageStands
<1>1. IndInv /\ [Next]_vars => [staff' = staff /\ usages' # usages => Rows(Staff) = {}]_vars
  BY StaffStandsStep
<1> QED BY <1>1, IndInvCorrect, PTL DEF Spec, StaffUsageStands

\* A step that is not one of staff leaves a set outcome alone.
LEMMA OutcomeStandsStep ==
    ASSUME IndInv, [Next]_vars, staff' = staff, run.outcome # "none"
    PROVE  run'.outcome = run.outcome
<1>0. TypeOK /\ run \in Runs
  BY DEF IndInv, TypeOK
<1>1. ~StaffEdits
  BY <1>0 DEF StaffEdits, TypeOK
<1>2. CASE DeleteConnector
  BY <1>0, <1>2 DEF DeleteConnector, Runs
<1>3. ASSUME NEW i \in DOMAIN log,
             \/ run' = Observed(run, log[i])
             \/ run' = Settled(Observed(run, log[i]), log[i])
      PROVE  run'.outcome = run.outcome
  <2>1. log[i] \in Events
    BY <1>0, LogShape
  <2>2. Observed(run, log[i]) \in Runs /\ Observed(run, log[i]).outcome = run.outcome
    BY <1>0, <2>1, ObservedFields
  <2> QED BY <1>3, <2>1, <2>2, SettledFields
<1> QED BY <1>1, <1>2, <1>3, RunChanges

\* No event and no deletion of the connector changes an outcome that is set
\* (OutcomeStands, SetRecordedRunOutcomeFromMachine).
THEOREM OutcomeCorrect == Spec => OutcomeStands
<1>1. IndInv /\ [Next]_vars => [staff' = staff /\ run.outcome # "none" => run'.outcome = run.outcome]_vars
  BY OutcomeStandsStep
<1> QED BY <1>1, IndInvCorrect, PTL DEF Spec, OutcomeStands

\* Only the deletion of the connector changes a deleted run.
LEMMA DeletedStaysStep ==
    ASSUME IndInv, [Next]_vars, run.deleted, assignment' = assignment
    PROVE  run' = run /\ usages' = usages
BY RunChanges

\* An event never changes or resurrects a run that staff deleted
\* (DeletedRunStays, the early return of ingestOne).
THEOREM DeletedRunCorrect == Spec => DeletedRunStays
<1>1. IndInv /\ [Next]_vars => [run.deleted /\ assignment' = assignment => run' = run /\ usages' = usages]_vars
  BY DeletedStaysStep
<1> QED BY <1>1, IndInvCorrect, PTL DEF Spec, DeletedRunStays
=============================================================================
