---------------------------- MODULE SpoolMounts ----------------------------
(***************************************************************************)
(* Which spool is in which printer slot: staff mount and unmount spools    *)
(* (printing/service.go), retire and restore them and move their article   *)
(* into the recycle bin (machinelogbook), while connectors report the RFID *)
(* tags in the trays and Core follows them (printerconnectors/runs.go).    *)
(*                                                                         *)
(* Every operation is a PostgreSQL transaction that locks rows one after   *)
(* the other and looks at each row once it holds it; its writes appear     *)
(* when it commits. A transaction is therefore its list of locking         *)
(* statements, each followed by the check that lets it go on, and a        *)
(* commit. The two unique indexes on open mounts are left out: OneOpenMount *)
(* shows that the locks alone keep mounts unique.                          *)
(*                                                                         *)
(* Every slot belongs to a printer of its own with a connector of its own. *)
(* It sends its observations in order, but a retry receipt does not stop   *)
(* the batch: an observation PostgreSQL ended in a deadlock may be applied *)
(* after newer ones of its slot. All spools are of one article and hold    *)
(* filament. Times of mounts are left out.                                 *)
(***************************************************************************)
EXTENDS Integers, Sequences, FiniteSets

CONSTANTS
  Slot, Spool,
  Staff,            \* sessions of staff, each with one transaction at a time
  NoSpool, Article, \* an empty tray; the row of the spools' article
  MaxObservations,  \* bound: changes of the trays
  MaxStaffOps,      \* bound: operations of staff
  MaxChanges        \* bound: both together

ASSUME SpoolAssumption ==
  /\ MaxObservations \in Nat /\ MaxStaffOps \in Nat /\ MaxChanges \in Nat /\ Spool # {}
  /\ NoSpool \notin Spool /\ Slot \cap Staff = {} /\ Article \notin Slot \cup Spool

VARIABLES
  mounts,    \* printer_spool_assignments that are open
  available, \* slots with status available
  active,    \* spools with lifecycle active
  binned,    \* the article is in the recycle bin
  txn,       \* the transaction of every client
  held,      \* the row locks of every client
  waiting,   \* the clients PostgreSQL has queued for a row, in the order they came
  tray,      \* what really is in the printers' trays
  queue,     \* observations of every slot's connector, not yet applied
  retried,   \* times of those that got a retry receipt
  clock,     \* observations made so far
  staffOps,  \* operations of staff begun so far
  disturbed  \* history: staff changed something, or an observation was applied before an older one

vars == <<mounts, available, active, binned, txn, held, waiting, tray, queue, retried, clock, staffOps, disturbed>>

Client == Slot \cup Staff   \* a slot stands for the ingestion of its connector's events
Mount == [slot : Slot, spool : Spool, source : {"manual", "connector"}]
Row == Slot \cup Spool \cup {Article} \cup Mount
Op == {"mount", "unmount", "slot_status", "retire", "restore", "delete_article", "restore_article",
       "observe", "empty"}

None == [op |-> "none"]
\* `event` is the time of the observation that is applied, 0 for staff.
Txn == [op : Op, slot : Slot, spool : Spool, event : 0..MaxObservations, at : Nat,
        slotMount : SUBSET Mount, spoolMount : SUBSET Mount]
Observation == [spool : Spool \cup {NoSpool}, at : 1..MaxObservations]

TypeOK ==
  /\ mounts \subseteq Mount
  /\ available \subseteq Slot /\ active \subseteq Spool /\ binned \in BOOLEAN
  /\ txn \in [Client -> Txn \cup {None}]
  /\ held \in [Client -> SUBSET Row]
  /\ waiting \in Seq({c \in Client : txn[c] # None})
  /\ \A c, d \in Client : c # d => held[c] \cap held[d] = {}
  /\ tray \in [Slot -> Spool \cup {NoSpool}]
  /\ queue \in [Slot -> SUBSET Observation] /\ retried \subseteq 0..MaxObservations
  /\ clock \in 0..MaxObservations /\ staffOps \in 0..MaxStaffOps
  /\ disturbed \in BOOLEAN

\* Any set of trays that Core has followed, except for a retired spool or an article in the bin.
Init ==
  /\ tray \in {f \in [Slot -> Spool \cup {NoSpool}] : \A s, t \in Slot : f[s] = f[t] /\ s # t => f[s] = NoSpool}
  /\ active \in {Spool} \cup {Spool \ {x} : x \in Spool} /\ binned \in BOOLEAN /\ (binned => active = Spool)
  /\ available = Slot
  /\ mounts = {[slot |-> s, spool |-> tray[s], source |-> "connector"] : s \in {t \in Slot : tray[t] \in active /\ ~binned}}
  /\ txn = [c \in Client |-> None] /\ held = [c \in Client |-> {}] /\ waiting = <<>>
  /\ queue = [s \in Slot |-> {}] /\ retried = {}
  /\ clock = 0 /\ staffOps = 0 /\ disturbed = (binned \/ active # Spool)

-----------------------------------------------------------------------------
(* The printers and their connectors *)

\* A spool is put into a tray, taken out of it (the reducer waits for a second reading without a tag) or
\* exchanged between two readings; the connector keeps the observation for delivery.
TrayChanges(s, x) ==
  /\ clock < MaxObservations /\ clock + staffOps < MaxChanges
  /\ x # tray[s]
  /\ x # NoSpool => \A t \in Slot : tray[t] # x
  /\ tray' = [tray EXCEPT ![s] = x]
  /\ clock' = clock + 1
  /\ queue' = [queue EXCEPT ![s] = @ \cup {[spool |-> x, at |-> clock']}]
  /\ UNCHANGED <<mounts, available, active, binned, txn, held, waiting, retried, staffOps, disturbed>>

\* The spools of two printers are swapped; each connector sees the other's tag.
TraysSwapped(s, t) ==
  /\ clock + 2 <= MaxObservations /\ clock + staffOps + 2 <= MaxChanges
  /\ s # t /\ tray[s] # NoSpool /\ tray[t] # NoSpool
  /\ tray' = [tray EXCEPT ![s] = tray[t], ![t] = tray[s]]
  /\ clock' = clock + 2
  /\ queue' = [queue EXCEPT ![s] = @ \cup {[spool |-> tray[t], at |-> clock + 1]},
                            ![t] = @ \cup {[spool |-> tray[s], at |-> clock + 2]}]
  /\ UNCHANGED <<mounts, available, active, binned, txn, held, waiting, retried, staffOps, disturbed>>

-----------------------------------------------------------------------------
(* The transactions: the rows each one locks, in order *)

\* Mutant of MountLocks: does not lock the spool.
MountLocksWithoutSpool == <<"slot", "slot_mount", "spool_mount">>
MountLocks == <<"slot", "spool", "slot_mount", "spool_mount">>
UnmountLocks == <<"slot", "slot_mount">>
SlotStatusLocks == <<"slot">>
RetireLocks == <<"spool", "article", "spool_mount">>
RestoreLocks == <<"spool", "article">>
DeleteArticleLocks == <<"article", "article_mounts">>
RestoreArticleLocks == <<"article">>
ObserveLocks == <<"slot", "spool", "slot_mount", "spool_mount">>
EmptyLocks == <<"slot", "slot_mount">>

Locks(op) ==
  CASE op = "mount" -> MountLocks         [] op = "unmount" -> UnmountLocks
    [] op = "slot_status" -> SlotStatusLocks
    [] op = "retire" -> RetireLocks       [] op = "restore" -> RestoreLocks
    [] op = "delete_article" -> DeleteArticleLocks
    [] op = "restore_article" -> RestoreArticleLocks
    [] op = "observe" -> ObserveLocks     [] op = "empty" -> EmptyLocks

\* An operation that names no slot, or no spool, carries any.
AnySlot == CHOOSE s \in Slot : TRUE
AnySpool == CHOOSE x \in Spool : TRUE
Begun(op, s, x, event) ==
  [op |-> op, slot |-> s, spool |-> x, event |-> event, at |-> 1, slotMount |-> {}, spoolMount |-> {}]

\* The rows a locking statement finds.
Found(t, step) ==
  CASE step = "slot" -> {t.slot}
    [] step = "spool" -> {t.spool}
    [] step = "article" -> {Article}
    [] step = "slot_mount" -> {m \in mounts : m.slot = t.slot}
    [] step = "spool_mount" -> {m \in mounts : m.spool = t.spool}
    [] step = "article_mounts" -> mounts

\* Whether the transaction goes on after it: one definition per operation.
MountGoesOn(t, step, rows) ==
  /\ step = "slot" => t.slot \in available
  /\ step = "spool" => t.spool \in active
  /\ step \in {"slot_mount", "spool_mount"} => rows = {}
UnmountGoesOn(t, step, rows) == step = "slot_mount" => rows # {}
EmptyGoesOn(t, step, rows) ==
  /\ step = "slot" => t.slot \in available
  /\ step = "slot_mount" => rows # {}
\* Mutant of ObserveGoesOn: does not look at who made the mounts.
ObserveGoesOnOverManual(t, step, rows) ==
  /\ step = "slot" => t.slot \in available
  /\ step = "spool" => t.spool \in active /\ ~binned
  /\ step = "slot_mount" => \A m \in rows : m.spool # t.spool
\* Only an active spool of an article in use; a spool where it is stays; a manual mount of either is left alone.
ObserveGoesOn(t, step, rows) ==
  /\ step = "slot" => t.slot \in available
  /\ step = "spool" => t.spool \in active /\ ~binned
  /\ step = "slot_mount" => \A m \in rows : m.spool # t.spool
  /\ step = "spool_mount" => \A m \in rows \cup t.slotMount : m.source = "connector"
RetireGoesOn(t, step, rows) ==
  /\ step = "spool" => t.spool \in active
  /\ step = "article" => ~binned
RestoreGoesOn(t, step, rows) ==
  /\ step = "spool" => t.spool \notin active
  /\ step = "article" => ~binned
DeleteArticleGoesOn(t, step, rows) == step = "article" => ~binned
RestoreArticleGoesOn(t, step, rows) == step = "article" => binned

GoesOn(t, step, rows) ==
  CASE t.op = "mount" -> MountGoesOn(t, step, rows)
    [] t.op = "unmount" -> UnmountGoesOn(t, step, rows)
    [] t.op = "slot_status" -> TRUE
    [] t.op = "retire" -> RetireGoesOn(t, step, rows)
    [] t.op = "restore" -> RestoreGoesOn(t, step, rows)
    [] t.op = "delete_article" -> DeleteArticleGoesOn(t, step, rows)
    [] t.op = "restore_article" -> RestoreArticleGoesOn(t, step, rows)
    [] t.op = "observe" -> ObserveGoesOn(t, step, rows)
    [] t.op = "empty" -> EmptyGoesOn(t, step, rows)

\* What the commit makes of the open mounts.
MountsAfter(t) ==
  CASE t.op = "mount" -> mounts \cup {[slot |-> t.slot, spool |-> t.spool, source |-> "manual"]}
    [] t.op = "observe" -> (mounts \ (t.slotMount \cup t.spoolMount))
                             \cup {[slot |-> t.slot, spool |-> t.spool, source |-> "connector"]}
    [] t.op \in {"unmount", "empty"} -> mounts \ t.slotMount
    [] t.op \in {"retire", "delete_article"} -> mounts \ t.spoolMount
    [] OTHER -> mounts

-----------------------------------------------------------------------------
(* Steps of a transaction *)

Active(c) == txn[c] # None
AtCommit(c) == Active(c) /\ txn[c].at > Len(Locks(txn[c].op))
NextLock(c) == Locks(txn[c].op)[txn[c].at]
\* Whom c has to wait for: holders of a row it wants, and those queued for it before c came.
Wants(c) == IF Active(c) /\ ~AtCommit(c) THEN Found(txn[c], NextLock(c)) ELSE {}
Queued == {waiting[i] : i \in DOMAIN waiting}
Ahead(c) == {waiting[i] : i \in {j \in DOMAIN waiting : \A k \in 1..j : waiting[k] # c}}
WaitsFor(c) == {d \in Client \ {c} : Wants(c) \cap (held[d] \cup (IF d \in Ahead(c) THEN Wants(d) ELSE {})) # {}}
Without(i) == SubSeq(waiting, 1, i - 1) \o SubSeq(waiting, i + 1, Len(waiting))
Leaves(c) == \/ c \notin Queued /\ UNCHANGED waiting
             \/ \E i \in DOMAIN waiting : waiting[i] = c /\ waiting' = Without(i)

\* The observation that the transaction of slot s applies is done with.
Applied(s) ==
  /\ queue' = [queue EXCEPT ![s] = {o \in @ : o.at # txn[s].event}]
  /\ retried' = retried \ {txn[s].event}
  /\ disturbed' = (disturbed \/ \E u \in Slot : \E o \in queue[u] : o.at < txn[s].event)

\* It is to come again.
Retried(s) ==
  /\ retried' = retried \cup {txn[s].event}
  /\ UNCHANGED <<queue, disturbed>>

\* Mutant of Ends: an observation that changes nothing is to come again.
EndsWhenCommitted(c, done) ==
  /\ txn' = [txn EXCEPT ![c] = None]
  /\ held' = [held EXCEPT ![c] = {}]
  /\ Leaves(c)
  /\ IF c \in Staff THEN UNCHANGED <<queue, retried, disturbed>>
     ELSE IF done /\ AtCommit(c) THEN Applied(c) ELSE Retried(c)

\* The transaction of c is over; unless it has to come again, a connector's observation is done with.
Ends(c, done) ==
  /\ txn' = [txn EXCEPT ![c] = None]
  /\ held' = [held EXCEPT ![c] = {}]
  /\ Leaves(c)
  /\ IF c \in Staff THEN UNCHANGED <<queue, retried, disturbed>> ELSE IF done THEN Applied(c) ELSE Retried(c)

BeginStaff(c, op, s, x) ==
  /\ c \in Staff /\ ~Active(c)
  /\ op \notin {"mount", "unmount", "slot_status"} => s = AnySlot
  /\ op \notin {"mount", "retire", "restore"} => x = AnySpool
  /\ staffOps < MaxStaffOps /\ clock + staffOps < MaxChanges
  /\ staffOps' = staffOps + 1
  /\ txn' = [txn EXCEPT ![c] = Begun(op, s, x, 0)]
  /\ disturbed' = TRUE
  /\ UNCHANGED <<mounts, available, active, binned, held, waiting, tray, queue, retried, clock>>

\* Mutant of BeginObservation: looks for a spool with the tag of an empty tray.
BeginObservationOfAnyTag(s) ==
  /\ ~Active(s)
  /\ \E o \in queue[s] :
       /\ \A p \in queue[s] : p.at < o.at => p.at \in retried
       /\ txn' = [txn EXCEPT ![s] = Begun("observe", s, o.spool, o.at)]
  /\ UNCHANGED <<mounts, available, active, binned, held, waiting, tray, queue, retried, clock, staffOps, disturbed>>

\* reconcileBambuSlotObservation for an event of the slot's connector: the oldest, or one whose elders all got a
\* retry receipt.
BeginObservation(s) ==
  /\ ~Active(s)
  /\ \E o \in queue[s] :
       /\ \A p \in queue[s] : p.at < o.at => p.at \in retried
       /\ txn' = [txn EXCEPT ![s] = IF o.spool = NoSpool THEN Begun("empty", s, AnySpool, o.at)
                                    ELSE Begun("observe", s, o.spool, o.at)]
  /\ UNCHANGED <<mounts, available, active, binned, held, waiting, tray, queue, retried, clock, staffOps, disturbed>>

Wait(c) ==
  /\ c \notin Queued /\ WaitsFor(c) # {}
  /\ waiting' = Append(waiting, c)
  /\ UNCHANGED <<mounts, available, active, binned, txn, held, tray, queue, retried, clock, staffOps, disturbed>>

\* One locking statement: it waits for its rows, then the code looks at them.
Lock(c) ==
  /\ Active(c) /\ ~AtCommit(c) /\ WaitsFor(c) = {}
  /\ LET t == txn[c]
         rows == Found(t, NextLock(c))
     IN  IF GoesOn(t, NextLock(c), rows)
         THEN /\ txn' = [txn EXCEPT ![c].at = @ + 1,
                                    ![c].slotMount = IF NextLock(c) = "slot_mount" THEN rows ELSE @,
                                    ![c].spoolMount = IF NextLock(c) \in {"spool_mount", "article_mounts"}
                                                      THEN rows ELSE @]
              /\ held' = [held EXCEPT ![c] = @ \cup rows]
              /\ Leaves(c)
              /\ UNCHANGED <<queue, retried, disturbed>>
         ELSE Ends(c, TRUE)
  /\ UNCHANGED <<mounts, available, active, binned, tray, clock, staffOps>>

Commit(c) ==
  /\ AtCommit(c)
  /\ LET t == txn[c]
     IN  /\ mounts' = MountsAfter(t)
         /\ available' = IF t.op # "slot_status" THEN available
                         ELSE IF t.slot \in available THEN available \ {t.slot} ELSE available \cup {t.slot}
         /\ active' = IF t.op = "retire" THEN active \ {t.spool}
                      ELSE IF t.op = "restore" THEN active \cup {t.spool} ELSE active
         /\ binned' = IF t.op = "delete_article" THEN TRUE ELSE IF t.op = "restore_article" THEN FALSE ELSE binned
  /\ Ends(c, TRUE)
  /\ UNCHANGED <<tray, clock, staffOps>>

\* Mutant of DeadlockVictim: the observation that was ended does not come again.
DeadlockVictimDropped(c) ==
  /\ c \in Queued
  /\ \E d \in WaitsFor(c) \cap Queued : c \in WaitsFor(d) \cup UNION {WaitsFor(e) : e \in WaitsFor(d) \cap Queued}
  /\ Ends(c, TRUE)
  /\ UNCHANGED <<mounts, available, active, binned, tray, clock, staffOps>>

\* PostgreSQL ends one of the transactions that wait for each other. Staff see an error; the receipt of the
\* observation says retry, so it comes again.
DeadlockVictim(c) ==
  /\ c \in Queued
  /\ \E d \in WaitsFor(c) \cap Queued : c \in WaitsFor(d) \cup UNION {WaitsFor(e) : e \in WaitsFor(d) \cap Queued}
  /\ Ends(c, FALSE)
  /\ UNCHANGED <<mounts, available, active, binned, tray, clock, staffOps>>

Step(c) == Wait(c) \/ Lock(c) \/ Commit(c) \/ DeadlockVictim(c)

Next ==
  \/ \E s \in Slot, x \in Spool \cup {NoSpool} : TrayChanges(s, x)
  \/ \E s, t \in Slot : TraysSwapped(s, t)
  \/ \E c \in Staff, s \in Slot, x \in Spool, op \in Op \ {"observe", "empty"} : BeginStaff(c, op, s, x)
  \/ \E s \in Slot : BeginObservation(s)
  \/ \E c \in Client : Step(c)

\* The database goes on with a transaction that does not wait, queues one that has to and finds deadlocks;
\* connectors deliver again.
Fairness == (\A c \in Client : WF_vars(Step(c))) /\ (\A s \in Slot : WF_vars(BeginObservation(s)))

Spec == Init /\ [][Next]_vars /\ Fairness

-----------------------------------------------------------------------------
(* Properties *)

\* A slot holds at most one spool, a spool is in at most one slot and a retired spool is in none, by the locks of
\* the transactions alone: staff, retirement and two connectors that report the same spool interleave freely.
OneOpenMount ==
  /\ \A m, n \in mounts : m # n => m.slot # n.slot /\ m.spool # n.spool
  /\ \A m \in mounts : m.spool \in active

\* What staff mounted by hand leaves its slot only by staff or by a tray reported empty: a tag seen elsewhere, or
\* another tag seen in the slot, never moves it, also when the mount was made while the observation waited.
ManualMountKept ==
  [][\A m \in mounts \ mounts' :
       m.source = "manual" =>
         \E c \in Client : Active(c) /\ txn'[c] = None /\ txn[c].op \in {"unmount", "empty", "retire", "delete_article"}]_vars

\* Once every observation is applied the mounts are what the trays hold, unless staff changed something or an
\* observation was applied before an older one, of another printer or, after a deadlock, of its own (the older one
\* then moves the spool back to where it was).
MountsFollowTrays ==
  (~disturbed /\ \A s \in Slot : queue[s] = {}) =>
    \A s \in Slot : {m.spool : m \in {n \in mounts : n.slot = s}} = {tray[s]} \ {NoSpool}

\* Every observation is applied in the end, although transactions that swap spools between two printers lock the
\* mounts in opposite orders and deadlock: the one that is ended comes again.
ObservationsApplied == \A s \in Slot : (queue[s] # {}) ~> (queue[s] = {})

\* DeleteMaterial: "Its spools go with it (mounted ones are unmounted)". Violated: Mount does not look at the
\* recycle bin, and DeleteMaterial locks no spool that a transaction is about to mount.
BinnedNotMounted == binned => mounts = {}
=============================================================================
