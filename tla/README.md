# Makerspace Core in TLA+

Makerspace Core (`backend/`) is a Go server over PostgreSQL that runs a
makerspace: people, machines, jobs, inventory, orders, signage.  A separate
process, the printer connector (`backend/internal/printerconnector`), runs
beside the 3D printers, keeps its state in SQLite, and reports what the printers
do to Core (`backend/internal/printerconnectors`, `printing`, `machinelogbook`).
A sidecar of the connector, the local updater (`backend/internal/localupdater`),
installs new releases of it.

The project models two things.  First the path from the printer to Core, the
distributed protocols of the repository, in which crashes, lost answers, repeated
and reordered messages are part of normal work: delivery of events, credentials,
recorded runs, spool mounts, updates.  Second the money: orders with their
payments, invoices and stock, and the cash register.  Printer events become
recorded runs, recorded runs consume inventory, and jobs are charged on orders.

## Inventory

| Component | State | Operations | Interacts with | What makes it correct |
| --- | --- | --- | --- | --- |
| Connector outbox (`printerconnector/store.go`, `bambu_store.go`) | `outbox` rows, `assignment_sequences` | `Enqueue`, `EnqueueBambuStateFor`, `Pending`, `MarkDeliveryFailure`, `ApplyReceipts`, `renumberBehindCore` | adapters queue; the runtime sends | nothing leaves before Core has it; numbers never collide; everything settles |
| Connector runtime (`printerconnector/runtime.go`) | identity, adapters, tickers | `ensureIdentity`, `rotateCredentialIfNeeded`, `deliver`, `syncConfiguration`, `sendHeartbeat`, `deliverArtifacts` | HTTP calls to Core | the stored identity stays usable; one request at a time |
| Event ledger (`printerconnectors/runtime.go`, `printing/service.go`) | `printer_events` | `IngestEvents`, `ingestOne`, `IngestConnectorEvent` | one transaction per event; calls runs and logbook | each event once, each sequence once; honest receipts |
| Enrollment and credentials (`printerconnectors/enrollment.go`, `connectors.go`) | `printer_connectors`, `_enrollments`, `_credentials` | `IssueEnrollment`, `Enroll`, `Authenticate`, `RotateCredential`, `Revoke`, `Update`, `Delete` | HTTP middleware, daemons | one holder, one rotation at a time, hand-over without lock-out |
| Bambu reducer (`printerconnector/bambu_reducer.go`, `bambu_consumption.go`) | persisted printer state, run facts | `apply`, `expireDisconnectedRun`, `EnqueueArtifactConsumption` | MQTT snapshots in, events out | every run that starts is closed |
| Recorded runs (`printerconnectors/runs.go`, SQL) | `machine_runs` | `recordObservedRun`, `applyPrintFacts`, `SettleRunsOfConnector` | inside the ingestion transaction | final states stand; late and repeated events do no harm |
| Machine-reported usage (`machinelogbook/recorded.go`, `run_changes.go`, `deletion.go`) | `machine_run_usages`, inventory | `ApplyRecordedRunEvent`, `replaceRunUsages`, `UpdateRun`, `ReplaceRunUsages`, `DeleteRun` | ingestion and staff race for the run | booked once; staff's word stands |
| Spool mounts (`printerconnectors/runs.go`, `printing/service.go`, `machinelogbook/spool_lifecycle.go`, `articles_delete.go`) | open mounts, slots, spools, articles | `reconcileBambuSlotObservation`, `Mount`, `Unmount`, `UpdateSlot`, `RetireFilamentSpool`, `RestoreFilamentSpool`, `DeleteMaterial`, `RestoreMaterial` | observations of several connectors and staff, through row locks | a spool is in one slot; staff's mounts stay; mounts follow the trays |
| Local updater (`localupdater`, `printerconnectors/updates.go`) | the latest request in Core, request and result files, `.env`, containers | `RequestUpdate`, `Submit`, `Prepare`, `Poll`, `handle`, `recordUpdaterReport`, `Settle` | configuration polls and heartbeats | a request is installed once, reported truthfully, and settled |
| Orders and invoicing (`orders/service.go`, `items.go`, `lifecycle.go`, `payments.go`, `own_payment.go`, `invoicing.go`) | orders, items, job claims, payments and allocations, invoice requests | create, change items, finalize, checkout, reverse, replace, receipts and reversals, pay own, request commands | row locks; job versions and loose stock of the logbook | a job is charged once; sums agree; a stated figure stays true |
| Cash register (`orders/cash.go`, `cash_counts.go`, `cash_edits.go`) | movements, counts with corrections, cash payments | `CreateCashMovement`, `RecordCashCount`, edits and deletions of both | the register lock; payments do not take it | counts agree with the books; the register owes nothing |
| Configuration, live status | configuration version, cached configuration, snapshots | `Configuration`, `syncConfiguration`, `apply` | polling | old adapters stop before new ones report |
| Artifacts and recordings (`bambu_store.go`, `recordings_store.go`, `runrecordings`, `printartifacts`) | staged files, transfers, commands | stage, upload, expire, requeue | files and HTTP | one report per calculation, nothing kept for ever |
| Camera relay, scheduler, rate limits | sessions, advisory lock, windows | | | |
| Machine jobs, inventory, prices | jobs, stock, price rules | | row locks | sums and states agree |
| Accounts, sessions, roles, OIDC, SCIM | sessions, PIN attempts, tokens | | | |
| Attendance, people, surveys, events, signage, inbox, files, privacy, … | records | single transactions | | |

`PROJECT.json` lists all of them with their status.  What is hard in this code
and rarely tested is listed there under `hazards`, each at its line: lost and
late answers, ambiguous commits, restarts between two steps, a reset of the state
volume, authentication that is stale when it is used, events that overtake each
other, replays, staff who correct or delete a run that is still reported, spools
that are swapped while transactions deadlock over them, an updater that is killed
between two steps, payments that move while they are reversed, and entries booked
before a count that exists already.

## Modules

| Module | What it is |
| --- | --- |
| `EventDelivery` | the outbox, its delivery and Core's ledger |
| `EventLedger` | abstract specification: what delivery promises about an event |
| `ConnectorCredentials` | enrollment, re-enrollment, rotation and revocation |
| `RecordedRun` | one run from the reducer's events to the booked material |
| `SpoolMounts` | open mounts under the row locks of connectors' observations and staff's operations |
| `LocalUpdater` | an update from the request in Core to the result in a heartbeat |
| `Orders` | orders, payments, invoice requests, job claims and stock sold |
| `CashRegister` | entries, counts and corrections of the register |
| `MCEventDelivery`, `MCConnectorCredentials` | model values and symmetry for TLC |
| `EventDeliveryProofs`, `ConnectorCredentialsProofs`, `RecordedRunProofs`, `SpoolMountsProofs`, `LocalUpdaterProofs`, `OrdersProofs`, `CashRegisterProofs` | the TLAPS proofs about the module of that name |
| `NumberFacts` | least and greatest members of sets of numbers, sums over finite sets and how they change, for the proofs |

Operators named `...Unchecked`, `...Dropped...` and the like, each introduced by
the comment "Mutant of X", are plausible mistakes in `X`.  The specification does
not use them; `PROJECT.json` names the property that notices each of them.

### EventDelivery

The connector's database is the record `store`: per event its status, sequence,
creation stamp and whether its back-off is over, and per assignment the next
sequence.  `request` is the batch the connector waits for, split into what Core
still has to ingest and the receipts so far; `strays` are the unprocessed rests
of requests the connector gave up on and Core has not.  `core` is the set of
stored events.

| Action | Code |
| --- | --- |
| `Enqueue` | `Store.Enqueue`, `EnqueueBambuStateFor`, `EnqueueArtifactConsumption`: consecutive numbers, all or nothing, refused when the outbox is full |
| `Send` | `deliver` with `Pending`: due events by `created_at`, at most `BatchLimit` (20) |
| `DeliveryFails`, `Restart` | `client.Send` fails and `MarkDeliveryFailure` backs off; or the process ends, or SQLite fails, before the answer is applied |
| `Ingest`, `IngestStray` | one turn of `IngestEvents`; `IngestOne` is `ingestOne` with its verdicts (rejected, duplicate, sequence conflict, accepted), the failures answered with `retry`, and the commit whose outcome is unknown |
| `ApplyReceipts` | all receipts in one transaction; `Applied` folds `ApplyReceipt`, in which a conflict renumbers every pending row behind Core |
| `BackoffElapses`, `ResetState` | time; loss of the state volume |

Everything Core compares when it recognises an event, except the sequence, is
fixed by the event's id, so a ledger row is (event, assignment, sequence).
`Refused` are the events validation refuses whenever they arrive.  The HTTP
status of the whole request (401, 403, size) is a failed delivery.
Core's ledger only grows here: telemetry retention
(`printerconnectors/retention.go`, 30 days) and the deletion of a connector are
left out, so the promises are about events within that period.  A reset of the
volume is the one lost state the code speaks of (comment of
`renumberBehindCore`).

`EventLedger` says what a reader of the code would want: an event is produced,
then recorded exactly once, or refused because validation does not take it, or
lost with the volume (and even then its request may still be recorded).
`ImplementsLedger` is that specification under the mapping `Fate`, in which an
event deleted locally although Core does not hold it has "vanished", a state the
abstract ledger cannot reach.

### ConnectorCredentials

One connector row, several daemons.  Core's part is `lifecycle`, the state of
each credential, which of them have lapsed, and the enrollment secrets; a
daemon's part is the identity on its volume, the secret in its environment, the
phase of `Run`, and its open call.  A credential stands for the id and its secret, which
daemons generate together.  A rotation is several steps in Core: the middleware
(`Authenticate`), and then the handler's transaction statement by statement
(`RotateCredential`): `RevokeRetiring`, `RetireCurrent`, and `InsertRotated` with the
commit.  It locks no connector row, so two rotations can run at once, or one beside a
re-enrollment or a revocation.  `cred` is what is committed; what an open transaction has
changed is in its call (`revokes`, `retires`).  A statement that meets a row another
transaction has changed waits with the rows it saw (`seen`) and then acts on those still
in their state, as READ COMMITTED does; the insert fails on the partial unique indexes
(`Conflicts`), and `DeadlockVictim` ends a rotation that waits in a circle with another
one, with a re-enrollment (which locks the connector row the insert needs) or with
`Revoke`.  `Revoke` waits likewise (`revoking`) and misses what a rotation inserted
meanwhile.  `BeginCredentialRotation` may already be refused by the index on retiring
credentials; that is part of `InsertRotated`, since nobody sees the difference.
An enrollment is one step: it holds the secret's row and the connector row, and commits
only when no rotation holds a credential.  `CallLost` covers a lost request, a lost
answer and a failed `SaveIdentity`; the call may go on in Core as a stray.
`superseded` is a history variable: the credentials older than the last
re-enrollment, and those rotated from them.  Time appears as three steps:
`EnrollmentExpires` (15 minutes), `FinalWeek` (seven days before expiry) and
`Lapses` (24 hours or 90 days).  The handler's replay branch for a known
credential id is not modelled: the daemon never sends the same rotation twice.
A daemon that has taken its fresh credential to another connector is outside.

### RecordedRun

One run of one printer.  `printer` is what the reducer thinks of the run, `log`
the events in the order they were queued, `ledger` which of them Core stored
and with which application state, `run` the row of `machine_runs`, `usages` the
booked usages.  `Ingest(i)` may take any event again and, with at most
`MaxOvertaken` events held back, out of order: that is what `EventDelivery`
leaves possible.  An ingestion is one action with everything `ingestOne` does for a
run in that transaction: `Observed` (`recordObservedRun` and the `CASE` of
`UpdateObservedRun`), `PrintFacts`, `MachineOutcome`, `Book`.  Bookings that
inventory refuses (409 inside the savepoint, unresolved spool) are the second
disjunct of `Book`.  Times are event counters: equal for the events of one
snapshot, as in the code, which stamps them with one `now`.  Quantities, spools,
prices and jobs are left out: whether and from which report a run is booked does
not depend on them, except through the refusal.  The Bambu reducer never reports a
cancellation, so `cancelled` does not occur.

### SpoolMounts

`mounts` are the open rows of `printer_spool_assignments`; `available`, `active`
and `binned` the status of slots, spools and their article; `tray` what really is
in the printers, which only the environment changes (`TrayChanges`,
`TraysSwapped`).  `txn`, `held` and `waiting` are the database: a transaction is
its list of locking statements (`MountLocks`, `ObserveLocks`, ...), after each of
which the code looks at the rows it got (`MountGoesOn`, `ObserveGoesOn`, ...), and a
commit.  PostgreSQL is external: rows are queued for in the order clients came, and
of transactions that wait for each other one is ended (`DeadlockVictim`); staff see
an error, an observation gets a `retry` receipt (`Retried`).  `queue` holds the
observations of a slot that are not yet applied.  A connector delivers in order, but
`IngestEvents` goes on with the batch after a retry receipt: `BeginObservation` takes the
oldest, or one whose elders have all been given that receipt (`retried`), so newer
observations of a slot can be applied before an older one.  Observations of different
connectors overtake each other anyway.  A deadlock is the only reason for a retry that the
model has; other transient failures have the same effect and are left out.  The unique
indexes on open mounts are left out on purpose, as are the times of mounts, spools
that run empty (`remaining > 0`) and the set-up that creates and retires slots.
Locked rows are looked up again after a wait.  For every statement but
`UnmountSpoolsOfMaterial` the rows it wants can change only under a lock its
transaction holds, so this is what a PostgreSQL statement sees; that one may miss a
mount made while it waits, which leaves a binned spool mounted (see below).

### LocalUpdater

`core` is the connector's row with the latest request, `exchange` the three files
of the shared volume, `bundle` the version in `.env` and the version that runs,
`updater` the process with its memory.  `Poll` and `handle` are cut at every point
where the process may be killed: the result says in progress (`BeginUpdate`), then
`.env` (`RewriteEnv`), `Pull`, `Up`, on failure `Restore` and `UpAgain`, then the
result (`Answer`).  `Fails` and `Works` choose for every command and write; one
budget, `MaxFaults`, bounds them together with kills, lost heartbeats, a damaged
request file and an update by hand.  A heartbeat carries the running version, the
presence and the result at the time it was sent, and may arrive late.
`RequestTimeout` (15 minutes) is a step that may always have passed.  The operator
updates by hand only while the updater has no work.  `past` is history for the
properties.

### Orders

Every command locks its order (for a replacement, both) before it reads, so a
command is one step of `db`; the helpers it calls (`Finalized`, `Reversed`,
`Received`, `ReceiptReversed`, `Allocate`, `Moved`, ...) map a database to a database, each
with the condition under which the code does not refuse, and the command composes
them in the code's order.  `ReversePayment` is two steps, because it reads the
allocation before it locks the order.  A receipt's `net` is the sum of its
allocation entries per order.  Abstracted: prices (every item that is not `Manual`
costs 1), one item per source, cash and card, the fulfilment mode.  Versions and
operation keys only make the code refuse, so they do not appear.  The deferred
constraint triggers of migration 00029 are left out: `FinancialIntegrity` states what
they check and shows that the code does not rely on them.

### CashRegister

`entries` are cash payments, withdrawals and deposits in the order of their ids,
`counts` the counts with the correction each has booked.  `ExpectedUntil` is
`cashFiguresUntil`, `BalancesFrom` the running balances of the view
`cash_register_entries` with its sort ranks.  `work` is the transaction that holds the
register lock.  Payments do not take that lock and each statement of a transaction reads
what is committed by then, so such a transaction is taken apart where it reads the
payments again: `RecordCashCount` reads what was expected, `CommitCashCount` looks at the
balance of now and stores the count; an edit begins with `Edit` (the lowest balance before
it, for a count in the step `ReadLowestBalance`), recalculates the counts that are `Due` one
after another (`ReconcileCount`, with the early stop of `reconcileCounts`) and ends with
`CommitEdit` (`checkBalanceAfter`) or `Rollback`.  `Seen` is what the transaction sees: the
committed payments with its own change.  A movement is booked in one step, since payments
between its statements might as well have come before or after it.  `lateAt` and `tornAt` are
history: the times of entries booked at or before an existing count, which nothing
recalculates, and the times of the first counts in an edit to have a payment that fell
into it; an edit whose stretch of time covers them all takes them away.

## Runs

| Run | Bounds | Result |
| --- | --- | --- |
| `delivery` | 3 events (1 refused) of one assignment, outbox 2, batch 2, 2 faults, 1 reset, fair | type, sequences, deletion, quarantine, ledger, refinement and liveness hold (129 000 states) |
| `delivery_full` | outbox of 2, two refused events, fair | **violated**: finding 1 |
| `credentials` | 2 daemons, 2 secrets, 3 credentials, 1 fault | commits are one enrollment or rotation at a time, one daemon per secret, no first secret wasted, one failure is covered (2.0 million states) |
| `credentials_superseded` | 2 daemons, no fault | **violated**: finding 2 |
| `runs` | 4 events, 1 held back, 2 corrections, 1 refusal | final states, times, bookings, staff decisions, deletion, and for events in order closing and booking hold (2.9 million states) |
| `runs_unknown` | runs may end as unknown | **violated**: finding 3 |
| `runs_stale` | assignment ended on the way | **violated**: finding 4 |
| `register` | 3 moments, amounts up to 1, 2 entries, 2 counts | counts are explained, only paying back overdraws (813 000 states) |
| `register_stop` | the same | **violated**: finding 5 |
| `orders` | 2 orders, a job with 2 versions, an article with 1 unit, a free item, 2 receipts, 2 requests | a job charged once, money, invoice figures and stock add up (1.8 million states) |
| `updater` | 3 releases, 2 requests, 1 heartbeat on the way, 2 faults, fair | installed once, success is true, requests settle (544 000 states) |
| `spools` | 2 slots, 2 spools, 1 member of staff with 1 operation, 3 observations and operations together, fair | mounts unique, manual mounts kept, trays followed, observations applied (178 000 states) |

Why the bounds are enough.  Delivery: two accepted events and a refused one, in
batches of two, are what it takes for a batch with mixed receipts, for two
conflict receipts in one batch, and for a renumbered row next to one that keeps
its number; two faults allow a late request to overtake its repetition.  Two assignments (669 000 states) and an outbox of 3
show nothing new.  Credentials: three credentials allow two rotations at once (one a
stray of a lost call) or a rotation beside a re-enrollment.  `CredentialsSerial` and the
liveness property `FirstEnrollmentCompletes` were also tried under `FairSpec` with one
daemon, one secret, four credentials and two faults, where three rotations run at once,
wait for each other's retiring rows and deadlock; both hold.  Runs: four events hold a progress event,
an end, and two report revisions, or an end with two late events.  Register: an
early stop needs an entry before two counts, one that stands and one behind it; with a
second entry between the statements of an edit these are two entries, two counts and three
moments.  Orders: an original and its
replacement share a job, an article and receipts, and two requests allow one after
a cancelled one; three orders, for a replacement of a replacement, hold as well with
fewer payments (3.2 million states with 1 payment and 1 request, 525 000 with 2
payments and jobs only).  Updater: a request superseded by another while a result or a
heartbeat of the first is still about, with any two faults.  Spools: two swapped
spools are the deadlock, and the third observation is the newer one of a slot whose older
one was ended in it; a fourth one takes longer than a run should.  `CHECK_DEADLOCK FALSE` is set everywhere because a bounded
world comes to rest when its events, credentials, faults and corrections are used up.
For the properties named under Proofs the bounds are only where the proof was tried
out: the theorems hold for every value of the constants.

Fairness.  `EventDelivery!Fairness`: the delivery ticker fires every two seconds
for as long as the process runs, Core handles a request that reached it, receipts
are applied, back-off times pass.  Each is weak fairness; faults are bounded, so
they end.  `ConnectorCredentials!Fairness` (used by no run of the list): the container restarts after a failed
start (`restart: unless-stopped` in `printer-connector/compose.yaml`), Core
answers, and an answer is processed.  `LocalUpdater!Fairness`: updater and connector
run under the same restart policy and loop on tickers, Compose runs under a timeout,
a heartbeat that is not lost arrives.  `SpoolMounts!Fairness`: the database goes on
with a transaction that need not wait, queues one that must and ends a deadlock, and
a connector delivers what is not yet accepted.  `Stop`, `Configure`, staff,
administration, releases and the printers are never assumed to act.

## Findings

Each is a run that TLC finds violated; `PROJECT.json` quotes the line it
contradicts.

1. Quarantined events fill the outbox for good: its limit counts them and nothing
   deletes them, so "until delivery resumes" never comes.
2. A rotation that passed the middleware before a re-enrollment and runs after it
   makes the old daemon the current holder again.
3. A run closed as unknown is shown as running again by its own consumption
   report or by a late printer error, and is not booked.
4. Events marked for review update the run all the same.
5. An edit stops at the first count after it that stands, "the counts after it cannot
   [need a change] either".  A receipt that commits between two counts of an edit is
   missing in the first and present in the second; a later edit from before the receipt
   that takes as much away finds the first one unchanged and leaves the second one wrong.

The conditions in some properties mark where the same models show a promise to
end; lifting the condition, or raising the bound, gives TLC's counterexample:

- `OnlyRefusedQuarantined` has `resets = 0`.  After a reset of the state volume an
  event Core holds without the connector's knowledge is renumbered with the
  others, then rejected as a mismatch and quarantined, although
  `EventReceipt.NextSequence` is there "instead of quarantining them".  Nothing is
  lost: `QuarantinedOnlyWhenSettled`.
- `HandoverCoversOneFailure` has `faults <= 1`.  A second rotation whose answer or
  save fails has sent another fresh credential, for which Core revoked the one
  on the daemon's volume.
- `HandoverCoversOneFailure` has `superseded = {}`.  A re-enrollment that Core
  accepts and the daemon does not store leaves the daemon on a revoked identity,
  with a secret that is used up.
- `FirstSecretNotWasted` speaks of the secret that was used, and `FirstEnrollmentCompletes`
  ends with the secret.  A daemon that never heard of its accepted first enrollment keeps
  its saved candidate, and `CreateCredential` refuses that id for every later secret.
- `CredentialsSerial` speaks of an enrolled connector.  `Revoke` misses the credential that
  a rotation inserts while it waits, and a rotation authenticated before may also commit
  after it: a revoked connector can have a current credential, which `AuthenticateConnector`
  does not accept.
- `ResultClosesRun` and `ReportBooked` have `inOrder`.  A terminal event overtaken by a
  later event of its run is older than `last_observed_at` and never ends the run.
- No property says that a replay leaves the run alone: `ingestOne` records the
  observation before it recognises the duplicate, and where two events share
  their time the state of a run that is not final changes.
- `CountsExplained` has `lateAt = {}`.  A payment or a movement booked at or before a
  count leaves that count as it was, against "A count anchors the register: from it on the
  register holds what was counted" (`docs/orders.md:129`), and a count recorded over such
  an entry is one that `reconcileCounts` may stop at although those behind it need a change.
- `CountsExplained` has `tornAt = {}`.  After a payment fell between two counts of an edit,
  the counts the edit had put right lack the payment, and finding 5 is what a later edit
  makes of that.
- `OneOpenMount` says nothing of the recycle bin.  `Mount` does not look at
  `deleted_at` and `DeleteMaterial` locks no spool, so a spool of a binned article can
  be mounted: `BinnedNotMounted` ("mounted ones are unmounted",
  `docs/machine-logbook.md:165`) fails.
- `MountsFollowTrays` has `~disturbed`.  An observation applied after a newer one moves
  the spool back to where it was; nothing compares the times of observations.  The newer
  one is another printer's, or of the same slot: when the older one was ended in a
  deadlock `IngestEvents` goes on with the batch and the older one comes again later.
  Without the exception for a slot's own observations TLC finds the property violated on
  the run's bounds.
- `InstallsOnce` excepts `past.overwritten`.  The result file is the memory of what was
  handled; the answer to an unreadable request file replaces it, and after a restart
  an earlier request that is still offered is handled again ("Every request is handled
  at most once", `docs/hosting.md:166`).
- `SucceededIsTrue` excepts `past.leftInEnv`.  An update killed after `.env` was
  rewritten leaves the new version there, and the next request for it is answered as
  already installed although it never ran.
- `RequestSettles` excepts `past.unanswered`.  A result that cannot be written is only
  logged and the request is not handled again; staff can ask again, but not while a
  long update keeps the updater from renewing its presence.

## Proofs

Every theorem holds for all values of the constants that satisfy the named
assumptions of the module it is about.  Those say that sets are finite and bounds are
natural numbers, and what else the model needs to make sense (`NoSecretIsNone`: "no
secret" is not a secret; `RefusedAreEvents`; `SpoolAssumption`: there is a spool;
`OrdersAssumption`: a job is not a free item, an order item has one kind in
`billing.order_items`).
Each inductive invariant was first checked by TLC on the bounds of the component's run.

| Module | Theorems | What they establish |
| --- | --- | --- |
| `EventDeliveryProofs` | `Invariant`, `TypeCorrect`, `SequencesNeverCollide`, `NothingDeletedEarly`, `NothingGivenUp`, `LedgerHasNoDuplicates`, `OnlyRefusalsQuarantine`, `DeliveryImplementsLedger` | all safety of delivery and the refinement of `EventLedger` |
| `ConnectorCredentialsProofs` | `TypeCorrect`, `IndInvCorrect`, `CredentialsCorrect`, `SecretCorrect`, `HandoverCorrect`, `FirstSecretCorrect` | whatever statements interleave, commits are one enrollment or rotation at a time; one daemon per secret, no first secret wasted, one failure is covered |
| `RecordedRunProofs` | `IndInvCorrect`, `TypeCorrect`, `BookingCorrect`, `ClosureCorrect`, `ReportCorrect`, `EndCorrect`, `FinalStateCorrect`, `StaffUsageCorrect`, `OutcomeCorrect`, `DeletedRunCorrect` | all safety of a run, the action properties included |
| `SpoolMountsProofs` | `IndInvCorrect`, `TypeCorrect`, `MountsCorrect`, `ManualCorrect`, `FollowCorrect`, `TraysCorrect` | row locks alone keep mounts unique; no tag moves a manual mount; observations applied in order leave the mounts as the trays are |
| `LocalUpdaterProofs` | `IndInvCorrect`, `TypeCorrect`, `InstallCorrect`, `SuccessCorrect` | installed once, success is true |
| `OrdersProofs` | `BooksCorrect`, `JobsCorrect`, `StockCorrect`, `MoneyCorrect`, `TypesCorrect`, `FinancesCorrect`, `InvoicesCorrect` | all safety of orders: a job is charged once, stock adds up, money is where the triggers want it, invoices state the true figure |
| `CashRegisterProofs` | `RegisterCorrect`, `TypeCorrect`, `CountsCorrect`, `OverdrawCorrect` | all safety of the register: counts are explained unless late or torn, only paying back overdraws |
| `NumberFacts` | lemmas | the order of the naturals without induction; sums over finite sets, term by term, and what a changed, filtered or renamed term does to them |

**Delivery.**  `IndInv` is the five invariants and `ReceiptsTruthful`.  None of them is
inductive without it: `DeletedOnlyWhenHeld` is preserved by `ApplyReceipts` only
because an `accepted` or `duplicate` receipt that waits to be applied still says
something true of Core, and that holds because the ledger only grows.
`LocalSequencesUnique` carries the bound `seq < next`, without which fresh numbers
could meet old ones; for a renumbering the argument is that the rank of a row among
those behind Core is injective and below their count, and that all new numbers lie
at or above `max(next, coreNext)`.  `ApplyReceipts` folds over the receipts; what a
fold preserves is proved by the least prefix for which it fails.
`OnlyRefusedQuarantined` needs a second invariant, `Undisturbed`: while the state
volume was never reset every message says of its event what the outbox says, no
number is used twice even after its event is settled, hence Core never answers
"conflict", nothing is renumbered, and no known event is rejected as a mismatch.  The
refinement uses `OnlyQueuedSent`, that what is on the way was queued, and shows that
each action changes `Fate` by one step of the ledger or not at all.

**Credentials.**  A secret enrolls one daemon because `EnrollRefused` compares
candidates, so the invariant says whose they are: no two daemons have the same
credential at hand (`HeldApart`), a used secret names the credential of its one holder
(`SecretHasOwner`), an answer of success is not that of another call
(`AnswerMeansUsed`).  `HandoverCoversOneFailure` needs how far a single failure can
move Core beyond the daemon's identity (`Handover`): a rotation left behind in Core can
still retire the credential in hand, so that one must be current, not retiring.

Rotations interleave, so `CredentialsSerial` needs what their row locks keep: a row that
an open rotation has changed is still committed as that rotation found it, and no other
one has changed it (`RowsHeld`).  A rotation that commits has met no `Conflicts`: the
current credential, if there is one, is the one it retires, and a retiring one is among
those it revokes; with `OneCurrentOneRetiring`, what the indexes ensure of the committed
rows, it therefore changed exactly the rows a rotation alone would have changed
(`SerialRotation`).  `HandoverCorrect` rests on the same lemma.  `FirstSecretCorrect`
adds that the candidates of calls left behind in Core are on a volume too
(`CandidatesKept`).

**Runs.**  `LogOrdered` says what the reducer queues, `Follows` what the row says of
the events Core stored: the comparison of times in `UpdateObservedRun` is `RunFollows`,
the booking of the newest report is `FinalBooked`.  Trying to prove `BookedOnce` showed
that it had been stated too strongly: with more events than the run has, a report that
arrives after a run was closed as unknown reopens it (finding 3) and is stored unbooked.
The property now speaks of the newest report only where the run has a final state.

**Spools.**  The argument is two-phase locking.  What a transaction saw of slots,
spools and mounts under row locks it holds stays true until it commits, because every
commit that could change it needs one of those locks; the invariant states that per
statement the transaction has passed.  `MountsCorrect` therefore does without the
unique indexes on open mounts.  A deadlock's victim leaves every mount as it was.

That mounts follow the trays is a second invariant, `FollowInv`.  What could break it
is an observation that is pending at one printer while the spool is in another by
now: applied late, it would take the spool from there.  `Vacated` says that it can not
be the last word: a spool seen in `t` that is in `s` came to `s` later, and `s` has yet
to report it.  `LastIsTray` says that the newest pending observation of a slot is what
its tray holds.  Both are kept by applying the oldest observation of all and by nothing
else; an observation applied while an older one is pending, of another printer or of its
own slot, is what `disturbed` notes, and after one the theorems claim nothing of trays.
So no commit takes a spool from a slot that has reported everything, and such a slot has
the mount its tray has (`InStep`).  What a transaction read before it waited is still
pending when it commits (`Reads`).

**Updater.**  Requests pass from Core to the connector, the request file, the updater
and the result file in the order of their ids (`Handover`).  A request is installed
once although the result file forgets it as soon as the next one is answered, because
by then it is past: everything still on the way is newer (`Over` in `Attempts`).
Success is true because what `.env` names while the updater rests has run or was left
there by an unfinished update (`EnvExplained`).

**Orders.**  A command is a chain of helpers, and the chain passes through databases
that no state shows (an order reversed whose replacement is not yet finalized).  So the
invariant `Books` is about any database, and each helper is shown to be one of four
changes that keep it: money only, a draft edited, a sale, a sale undone.  No look at
amounts is needed.

The money is a second invariant, `MoneyInv`, inductive where `Books` holds: every
receipt is allocated in full to one order or reversed (`Whole`), what an order has fits
its charge and its request (`Accounted`), anonymous orders are settled, and a reversal
that read its allocation names a receipt and an order that exist (`ReversingKnown`).
`Accounts` holds in every intermediate database
of a command but one: a replacement detaches the receipts from the original
(`Detached`) and allocates them again (`Moved`), and in between neither order has them.
The proof treats the two as one transfer.  `ReversePayment` reads before it
locks, and needs no more of what it read than that it exists: under the lock it checks
again that the receipt is allocated to that order.  `TypeOK` follows from both invariants, since that no
allocation and no figure outgrows its type is a fact about money.

**Register.**  A count is explained when the register lacks nothing of what it found,
and that is not inductive.  `Gaps` says what late entries and torn edits leave: two counts
with no noted moment between them lack the same amount, and counts before every noted moment
lack nothing.  That is why `reconcileCounts` may stop early once an edit covers them all.
`RegisterInv` says it twice: of the committed books (`BooksInv`), and of what the
transaction under way has written (`WorkInv`), where the counts still to be recalculated
lack, besides, what the edit changes between `from` and `until` and one amount from `until`
on.  A payment that falls into the edit shifts the counts at or after it, those put right
and those to come; the noted moments of both kinds are where the amounts part (`BookingKeepsGaps`).
A count that is recalculated takes up in its correction what it lacked, and those after it
lack the rest (`ReconcileKeepsGaps`).  `Shape`, that a correction books its count's
difference at its time and no two counts share a time, makes the oldest count to come
the only one at its moment.  `Mixed` marks books in which a count was recorded over a
noted moment, or an edit recalculated across only some of them; there the counts lack
different amounts, and nothing is claimed of them any more.

`OnlyRefundsOverdraw` relates the figures to the journal: the figure at a moment is
the journal's balance after the last entry or correction by then (`LastBalance`).  A
journal never below zero therefore means figures never below zero; an edit that
passes `checkBalanceAfter` leaves no balance below zero from its first moment on, and
before that moment nothing changed.  The other operations change the figure of now by
what they book.  The only steps excepted are those after which
there is one more reversal (`ReversalPaysBack`).

**Sums.**  What is allocated to an order is a fold over receipts, and the
fold's recursive function is known to the provers only by its defining equation.
`NumberFacts` shows that the equation has a solution on the subsets of a finite set, and
from it that a sum splits at any term (`SumSplits`), by taking the least cardinality for
which this fails.  No induction theorem with an operator parameter is needed.

Every safety property that a run checks is proved.  Only model-checked are the liveness
properties (`EveryEventSettles`, `RequestSettles`, `ObservationsApplied`): fairness and `ENABLED` are outside the proof system.

## Plan

1. `EventDelivery`, `ConnectorCredentials`, `RecordedRun`, `SpoolMounts`, `LocalUpdater`,
   `Orders`, `CashRegister`: modelled, all of their safety proved.
2. Artifact transfers and consumption revisions (staging, expiry, recompute
   commands, upload receipts), composed with `RecordedRun`'s reports.
3. Configuration versions and the replacement of adapters; retention of events in
   the ledger; row locks of jobs and runs (`LockRunChain`).
4. Job lifecycle and inventory transactions; sessions and PIN throttling; scheduler
   lock; camera relay.

## Not modelled

Video, MQTT and HTTP transport, encryption of local state, formatting, audit
entries, notifications and prices have no model: they are I/O, or follow from
the transaction that is modelled.  Artifact transfers, configuration versions,
telemetry retention and the locks of run chains have hazards without a property and
are in the plan.  The remaining packages are listed as components with their reasons in
`PROJECT.json`; most are record keeping in single transactions, and most of the
repository's lines are generated code.

## Running

    tlc -config Delivery.cfg MCEventDelivery
    tlc -config Runs.cfg RecordedRun
    tlc -config Orders.cfg Orders
    tlc -config CashRegister.cfg CashRegister
    tlc -config LocalUpdater.cfg LocalUpdater
    tlc -config SpoolMounts.cfg SpoolMounts
    tlapm EventDeliveryProofs.tla
    tlapm ConnectorCredentialsProofs.tla
    tlapm RecordedRunProofs.tla
    tlapm SpoolMountsProofs.tla
    tlapm LocalUpdaterProofs.tla
    tlapm OrdersProofs.tla
    tlapm CashRegisterProofs.tla
    tlapm NumberFacts.tla
