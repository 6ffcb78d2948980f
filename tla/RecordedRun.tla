---------------------------- MODULE RecordedRun ----------------------------
(***************************************************************************)
(* One recorded run: the Bambu reducer of the connector emits its events   *)
(* (backend/internal/printerconnector/bambu_reducer.go,                    *)
(* bambu_consumption.go), Core's ingestion turns them into the run row     *)
(* (backend/internal/printerconnectors/runtime.go, runs.go and their SQL)  *)
(* and the machine logbook books the reported material                     *)
(* (backend/internal/machinelogbook/recorded.go) while staff correct or    *)
(* delete the run.                                                         *)
(*                                                                         *)
(* EventDelivery shows that every event arrives, possibly again and        *)
(* possibly after later ones (a retry receipt holds one event back while   *)
(* the rest of its batch is accepted).  Here that is all that is left of   *)
(* delivery: an event may be ingested any number of times, and at most     *)
(* MaxOvertaken events are held back when a later one arrives.             *)
(***************************************************************************)
EXTENDS Naturals, Sequences, FiniteSets

CONSTANTS
    MaxEvents,     \* bound on the events of the run
    MaxOvertaken,  \* bound on the events held back at any time
    MaxStaff,      \* bound on corrections by staff
    MaxRefusals,   \* bound on bookings refused by inventory
    Unknowns       \* ways a run is given up as unknown: lost, closed

ASSUME RunBounds == /\ MaxEvents \in Nat /\ MaxOvertaken \in Nat
                    /\ MaxStaff \in Nat /\ MaxRefusals \in Nat
                    /\ Unknowns \subseteq {"lost", "closed"}

VARIABLES
    printer,     \* the reducer's view of the run
    log,         \* events in the order the connector queued them
    assignment,  \* current, ended (or disabled or reconfigured), deleted
    ledger,      \* application_state of the stored events, by index
    run,         \* the machine_runs row
    usages,      \* machine_run_usages in insertion order
    staff,       \* corrections made so far
    refusals,
    inOrder      \* history: no event was ingested before an earlier one

vars == <<printer, log, assignment, ledger, run, usages, staff, refusals, inOrder>>

Final == {"finished", "failed"}   \* the reducer reports no cancellation

None == 0

Events == [kind     : {"progress", "error", "terminal", "report"},
           at       : Nat,                            \* occurred_at
           outcome  : Final \cup {"unknown", "none"},
           complete : BOOLEAN,                        \* history_complete
           revision : Nat]                            \* report_revision

Runs == [state : {"none", "running", "unknown"} \cup Final, complete : BOOLEAN,
         last : Nat, started : Nat, ended : Nat,
         outcome : {"none"} \cup Final, deleted : BOOLEAN]

\* A usage comes from the report with this index in the log, or from staff.
Staff == None

Init ==
    /\ printer = "idle"
    /\ log = <<>>
    /\ assignment = "current"
    /\ ledger = <<>>
    /\ run = [state |-> "none", complete |-> TRUE, last |-> None, started |-> None, ended |-> None,
              outcome |-> "none", deleted |-> FALSE]
    /\ usages = <<>>
    /\ staff = 0
    /\ refusals = 0
    /\ inOrder = TRUE

-----------------------------------------------------------------------------
(* The connector.  Events of one reducer step share their occurred_at.     *)

Now == IF log = <<>> THEN 1 ELSE log[Len(log)].at + 1

Emit(kind, at, outcome, complete, revision) ==
    /\ Len(log) < MaxEvents
    /\ log' = Append(log, [kind |-> kind, at |-> at, outcome |-> outcome,
                           complete |-> complete, revision |-> revision])
    /\ ledger' = Append(ledger, "new")
    /\ UNCHANGED <<assignment, run, usages, staff, refusals, inOrder>>

\* history_complete of a snapshot's events: it is false when the reducer has
\* just started and did not find the run active in its stored state.
SnapshotComplete == IF printer = "active" THEN {TRUE} ELSE BOOLEAN

\* history_complete of the run's facts: what some earlier snapshot left there.
FactsComplete == {TRUE} \cup {log[i].complete : i \in DOMAIN log}

\* An active snapshot opens or resumes the run, except one lost to a timeout.
Progress ==
    /\ printer # "lost"
    /\ printer' = "active"
    /\ \E complete \in SnapshotComplete : Emit("progress", Now, "none", complete, None)

Terminal(outcome) ==
    /\ printer \notin {"idle", outcome}
    /\ printer' = outcome
    /\ \E complete \in SnapshotComplete : Emit("terminal", Now, outcome, complete, None)

\* expireDisconnectedRun (lost), or the printer left the print without a
\* result or took up another one (closed).
GiveUp(how) ==
    /\ printer = "active"
    /\ printer' = how
    /\ \E complete \in FactsComplete : Emit("terminal", Now, "unknown", complete, None)

\* errorTransitions: the run keeps its id after its end, and an error seen in
\* a snapshot shares the time of the other events of that snapshot.
PrinterError ==
    /\ printer # "idle"
    /\ printer' = printer
    /\ \/ \E complete \in SnapshotComplete : Emit("error", Now, "none", complete, None)
       \/ LET last == log[Len(log)] IN
          /\ printer # "lost" /\ last.kind # "report"
          /\ Emit("error", last.at, "none", last.complete, None)

\* EnqueueArtifactConsumption, once the run has had an outcome.
ConsumptionReport ==
    /\ \E i \in DOMAIN log : log[i].kind = "terminal"
    /\ printer' = printer
    /\ \E complete \in FactsComplete :
          Emit("report", Now, "none", complete,
               1 + Cardinality({i \in DOMAIN log : log[i].kind = "report"}))

-----------------------------------------------------------------------------
(* Core.                                                                   *)

Stored == {i \in DOMAIN ledger : ledger[i] # "new"}

\* recordedRunState
RecordedRunState(e) == IF e.kind = "terminal" THEN e.outcome ELSE "running"

Later(a, b) == IF a < b THEN b ELSE a

\* Mutant of UpdatedState: a final state is overwritten like any other.
UpdatedStateNotSticky(r, e) == IF e.at >= r.last THEN RecordedRunState(e) ELSE r.state

\* UpdateObservedRun
UpdatedState(r, e) == IF r.state \in Final THEN r.state
                      ELSE IF e.at >= r.last THEN RecordedRunState(e) ELSE r.state

\* recordObservedRun: insert on the first observation, else update.
Observed(r, e) ==
    IF r.state = "none"
    THEN [r EXCEPT !.state = RecordedRunState(e), !.complete = e.complete, !.last = e.at]
    ELSE [r EXCEPT !.state = UpdatedState(r, e), !.complete = r.complete /\ e.complete,
                   !.last = Later(r.last, e.at)]

\* Mutant of PrintFacts: the end is not moved behind a later start.
PrintFactsUnclamped(r, e) ==
    CASE e.kind = "progress" /\ r.started = None -> [r EXCEPT !.started = e.at]
      [] e.kind = "terminal" /\ r.ended = None   -> [r EXCEPT !.ended = e.at]
      [] OTHER -> r

\* applyPrintFacts: start and end of the run, the end clamped to the start.
PrintFacts(r, e) ==
    LET started == IF e.kind = "progress" /\ r.started = None THEN e.at ELSE r.started
        ended   == IF e.kind = "terminal" /\ r.ended = None THEN e.at ELSE r.ended
    IN  [r EXCEPT !.started = started,
                  !.ended   = IF ended # None THEN Later(started, ended) ELSE ended]

\* Mutant of MachineOutcome: every terminal event sets the outcome again.
MachineOutcomeAgain(r, e) ==
    IF e.kind = "terminal" /\ r.state \in Final THEN [r EXCEPT !.outcome = r.state] ELSE r

\* Mutant of MachineOutcome: the state is copied although it is not final.
MachineOutcomeUnchecked(r, e) ==
    IF e.kind = "terminal" /\ r.outcome = "none" THEN [r EXCEPT !.outcome = r.state] ELSE r

\* SetRecordedRunOutcomeFromMachine; finished stands for the outcome successful.
MachineOutcome(r, e) ==
    IF e.kind = "terminal" /\ r.outcome = "none" /\ r.state \in Final
    THEN [r EXCEPT !.outcome = r.state] ELSE r

\* ListLatestReportedUsageItemsForRuns: the report of the largest revision.
LatestReport(stored) ==
    LET reports == {k \in stored : log[k].kind = "report"}
    IN  IF reports = {} THEN None
        ELSE CHOOSE k \in reports : \A j \in reports : log[j].revision <= log[k].revision

Rows(source) == {k \in DOMAIN usages : usages[k].source = source}

ActiveMachineUsage == \E k \in DOMAIN usages : usages[k].active /\ usages[k].source # Staff

\* Mutant of Bookable: what staff entered does not count.
BookableOverStaff(r, report) ==
    /\ r.state # "running" /\ report # None
    /\ Rows(report) = {}

\* Mutant of Bookable: a report that was applied before is applied again.
BookableAgain(r, report) ==
    /\ r.state # "running" /\ report # None
    /\ Rows(Staff) = {}
    /\ usages # <<>> => ActiveMachineUsage

\* Mutant of Bookable: a later report revision is not booked.
BookableOnce(r, report) ==
    /\ r.state # "running" /\ report # None
    /\ usages = <<>>

\* consumeReportedUsage: GetRunUsageProvenance decides.
Bookable(r, report) ==
    /\ r.state # "running" /\ report # None
    /\ Rows(Staff) = {} /\ Rows(report) = {}
    /\ usages # <<>> => ActiveMachineUsage

\* replaceRunUsages: the active rows are compensated and the new one added.
Replaced(source) ==
    Append([k \in DOMAIN usages |-> [usages[k] EXCEPT !.active = FALSE]],
           [source |-> source, active |-> TRUE])

Book(r, stored) ==
    LET report == LatestReport(stored) IN
    IF Bookable(r, report)
    THEN \/ usages' = Replaced(report) /\ UNCHANGED refusals
         \/ refusals < MaxRefusals /\ refusals' = refusals + 1 /\ UNCHANGED usages
    ELSE UNCHANGED <<usages, refusals>>

\* Mutant of IngestIntoDeleted: a deleted run is observed like any other.
IngestIntoDeletedObserved(i) ==
    /\ run.deleted
    /\ run' = Observed(run, log[i])
    /\ ledger' = [ledger EXCEPT ![i] = IF @ = "new" THEN "recorded" ELSE @]
    /\ UNCHANGED <<usages, refusals>>

\* ingestOne for a run that staff deleted: only the event is stored.
IngestIntoDeleted(i) ==
    /\ run.deleted
    /\ ledger' = [ledger EXCEPT ![i] = IF @ = "new" THEN "recorded" ELSE @]
    /\ UNCHANGED <<run, usages, refusals>>

\* ingestOne for an event Core holds already: the observation is recorded
\* before the event is looked up, and the transaction commits.
IngestDuplicate(i) ==
    /\ ~run.deleted /\ i \in Stored
    /\ run' = Observed(run, log[i])
    /\ UNCHANGED <<ledger, usages, refusals>>

IngestNew(i) ==
    /\ ~run.deleted /\ i \notin Stored
    /\ LET observed == Observed(run, log[i])
           settled  == MachineOutcome(PrintFacts(observed, log[i]), log[i])
       IN  /\ run' = settled
           /\ ledger' = [ledger EXCEPT ![i] =
                            IF assignment = "current" /\ observed.complete THEN "applied" ELSE "review"]
           /\ Book(settled, Stored \cup {i})

Ingest(i) ==
    /\ assignment # "deleted"          \* assignment_not_found
    /\ LET overtaken == {j \in 1 .. (i - 1) : j \notin Stored}
       IN  /\ Cardinality(overtaken) <= MaxOvertaken
           /\ inOrder' = (inOrder /\ overtaken = {})
    /\ IngestIntoDeleted(i) \/ IngestDuplicate(i) \/ IngestNew(i)
    /\ UNCHANGED <<printer, log, assignment, staff>>

\* UpdateAssignment ends, disables or reconfigures the assignment.
UpdateAssignment ==
    /\ assignment = "current"
    /\ assignment' = "ended"
    /\ UNCHANGED <<printer, log, ledger, run, usages, staff, refusals, inOrder>>

\* Delete of the connector: SettleRunsOfConnector.
DeleteConnector ==
    /\ assignment # "deleted"
    /\ assignment' = "deleted"
    /\ run' = IF run.state = "running" THEN [run EXCEPT !.state = "unknown", !.complete = FALSE] ELSE run
    /\ UNCHANGED <<printer, log, ledger, usages, staff, refusals, inOrder>>

-----------------------------------------------------------------------------
(* Staff.                                                                  *)

StaffStep ==
    /\ run.state # "none" /\ ~run.deleted
    /\ staff < MaxStaff /\ staff' = staff + 1
    /\ UNCHANGED <<printer, log, assignment, ledger, refusals, inOrder>>

\* UpdateRun: no outcome while the run is running; the outcome may be cleared.
UpdateRun(outcome) ==
    /\ StaffStep
    /\ outcome # "none" => run.state # "running"
    /\ run' = [run EXCEPT !.outcome = outcome]
    /\ UNCHANGED usages

\* ReplaceRunUsages, with some usage or with none.
ReplaceRunUsages ==
    /\ StaffStep
    /\ usages' \in {Replaced(Staff), [k \in DOMAIN usages |-> [usages[k] EXCEPT !.active = FALSE]]}
    /\ UNCHANGED run

\* DeleteRun, with or without reversing the consumption.
DeleteRun ==
    /\ StaffStep
    /\ run' = [run EXCEPT !.deleted = TRUE]
    /\ usages' \in {usages, [k \in DOMAIN usages |-> [usages[k] EXCEPT !.active = FALSE]]}

-----------------------------------------------------------------------------
ConnectorStep ==
    \/ Progress
    \/ \E outcome \in Final : Terminal(outcome)
    \/ \E how \in Unknowns : GiveUp(how)
    \/ PrinterError
    \/ ConsumptionReport

Next ==
    \/ ConnectorStep
    \/ \E i \in DOMAIN log : Ingest(i)
    \/ UpdateAssignment
    \/ DeleteConnector
    \/ \E outcome \in Final \cup {"none"} : UpdateRun(outcome)
    \/ ReplaceRunUsages
    \/ DeleteRun

Spec == Init /\ [][Next]_vars

-----------------------------------------------------------------------------
(* Properties.                                                             *)

\* The run row, the stored events and the usages have the shapes of their
\* tables.
TypeOK ==
    /\ printer \in {"idle", "active", "lost", "closed"} \cup Final
    /\ log \in Seq(Events)
    /\ assignment \in {"current", "ended", "deleted"}
    /\ ledger \in Seq({"new", "applied", "review", "recorded"}) /\ Len(ledger) = Len(log)
    /\ run \in Runs
    /\ usages \in Seq([source : Nat, active : BOOLEAN])
    /\ staff \in 0 .. MaxStaff /\ refusals \in 0 .. MaxRefusals /\ inOrder \in BOOLEAN

\* A final state reported by the machine is final: no late, repeated or
\* reordered event and no deletion of the connector changes it again.
FinalStateSticks == [][run.state \in Final => run'.state = run.state]_vars

\* The recorded end is never before the recorded start, in whatever order the
\* events that carry the two arrive.
EndNotBeforeStart == run.started # None /\ run.ended # None => run.started <= run.ended

\* "usage that staff entered is never replaced": an event books material only
\* for a run whose usage staff never set.
StaffUsageStands ==
    [][staff' = staff /\ usages' # usages => Rows(Staff) = {}]_vars

\* "A later report revision replaces it without double counting": a report is
\* booked at most once and never after a newer one, one usage is active at a
\* time, and in a run with a final state the booked report is the newest one
\* Core holds, unless inventory refused it.  (A run given up as unknown is
\* shown as running again by a late report, which is then not booked.)
BookedOnce ==
    /\ \A k, l \in DOMAIN usages :
          /\ usages[k].source # Staff /\ usages[l].source # Staff /\ k < l
             => log[usages[k].source].revision < log[usages[l].source].revision
          /\ usages[k].active /\ usages[l].active => k = l
    /\ \A k \in DOMAIN usages :
          /\ usages[k].active /\ usages[k].source # Staff
          /\ run.state \in Final /\ refusals = 0 /\ ~run.deleted
          => usages[k].source = LatestReport(Stored)

\* The outcome is "set from the machine's final state until staff change it":
\* no event changes an outcome that is set.
OutcomeStands ==
    [][staff' = staff /\ run.outcome # "none" => run'.outcome = run.outcome]_vars

\* "The event is stored for idempotency but never resurrects or changes the
\* run" that staff deleted.
DeletedRunStays ==
    [][run.deleted /\ assignment' = assignment => run' = run /\ usages' = usages]_vars

\* The connector has closed the run and everything it queued is stored.
AllStored == Stored = DOMAIN log /\ assignment # "deleted" /\ ~run.deleted

\* "End that run instead of leaving it running forever"; "a late active
\* snapshot for that same timed-out session does not reopen the run": once
\* the events of a closed run are stored, Core does not show it as running.
ClosedRunNotRunning == AllStored /\ printer \notin {"idle", "active"} => run.state # "running"

\* The same for a run that ended with a result and whose events arrived in
\* their order: nothing that follows the end, replays and late errors and
\* reports included, opens it again.
ResultClosesRun ==
    inOrder /\ (\A i \in DOMAIN log : log[i].outcome # "unknown") => ClosedRunNotRunning

\* "When a recorded run ends, its machine-reported material is consumed
\* automatically": once the events of an ended run are stored in their order,
\* its newest report is booked unless staff or inventory stood in the way.
ReportBooked ==
    /\ inOrder /\ AllStored /\ printer \in Final
    /\ LatestReport(Stored) # None /\ staff = 0 /\ refusals = 0
    => \E k \in DOMAIN usages : usages[k].active /\ usages[k].source = LatestReport(Stored)

\* "Events from an ended assignment [...] are retained for review and do not
\* update a run automatically."
StaleEventsOnlyReviewed ==
    [][\A i \in DOMAIN log \ Stored :
          assignment = "ended" /\ ledger'[i] = "review" => run' = run /\ usages' = usages]_vars
=============================================================================
