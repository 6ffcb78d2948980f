---------------------------- MODULE CashRegister ----------------------------
(***************************************************************************)
(* The cash register of the orders package: cash receipts and their        *)
(* reversals (payments.go), withdrawals and deposits (cash.go), counts of  *)
(* the register (cash_counts.go), and the editing and deleting of          *)
(* movements and counts (cash_edits.go).                                   *)
(*                                                                         *)
(* Operations on movements and counts are transactions under the           *)
(* register lock, so at most one of them is under way. Payments do not     *)
(* take that lock, and each statement of a transaction sees what is        *)
(* committed by then: a payment may fall between two reads of a count or   *)
(* of an edit. `work` is the transaction under way, with what it has       *)
(* written and nobody else sees yet; a step of it ends just before it      *)
(* reads the payments again. A movement is recorded in one step: the       *)
(* receipts that fall between its two looks at the balance might as well   *)
(* have come before it, and what is paid back then after it.               *)
(*                                                                         *)
(* Time is a small range of moments that have all passed: people give the  *)
(* time of an entry, and may backdate it. Identifiers are UUIDv7, so the   *)
(* order of `entries` is the order of their ids, which breaks ties in the  *)
(* journal. Counts never share a time, so their ids order nothing and may  *)
(* be reused. A correction of amount 0 stands for "no correction row":     *)
(* the table refuses that amount.                                          *)
(***************************************************************************)
EXTENDS Integers, Sequences, FiniteSets, FiniteSetsExt, SequencesExt

CONSTANTS
  MaxTime,      \* moments 1..MaxTime
  MaxAmount,    \* amounts 1..MaxAmount; a count may also find 0
  MaxEntries,   \* bound: payments and movements on the books
  MaxCounts     \* bound: counts on the books

ASSUME RegisterAssumption ==
  /\ MaxTime \in Nat \ {0} /\ MaxAmount \in Nat \ {0}
  /\ MaxEntries \in Nat /\ MaxCounts \in Nat

VARIABLES
  entries,   \* sequence of cash payments, withdrawals and deposits, in id order
  counts,    \* count id -> count with its correction
  work,      \* the transaction that holds the register lock, Idle when there is none
  lateAt,    \* history: times of entries booked at or before a count, not yet covered by an edit; {Mixed} once
             \* another count was recorded or an edit recalculated some counts over such an entry
  tornAt     \* history: times of counts an edit recalculated with a payment that came too late for the counts
             \* before them, not yet covered by an edit; {Mixed} as above

vars == <<entries, counts, work, lateAt, tornAt>>

Time == 1..MaxTime
Amount == 1..MaxAmount
CountId == 1..MaxCounts
Mixed == 0
EntryKind == {"receipt", "refund", "recording_error", "withdrawal", "deposit"}
MovementKind == {"withdrawal", "deposit"}

Entry == [kind : EntryKind, at : Time, amount : Amount, open : BOOLEAN]
Count == [at : Time, counted : 0..MaxAmount, expected : Int,
          correction : [at : Time, amount : Int]]

NoCounts == [c \in {} |-> {}]

\* The stages: a new count with its difference ("recording"); an edited count with its new figures before the
\* balances are looked at ("counted"); and an edit that has changed its row and recalculates counts ("walking").
Idle == [stage |-> "idle", row |-> 0, becomes |-> <<>>, counts |-> NoCounts, todo |-> {},
         from |-> 0, until |-> 0, lowest |-> 0, late |-> {}, torn |-> {}]

Books(cs) == DOMAIN cs \subseteq CountId /\ \A c \in DOMAIN cs : cs[c] \in Count

\* A transaction that has written the counts cs.
Work(cs) == [stage : {"idle", "recording", "counted", "walking"},
             row : 0..MaxEntries,        \* the movement that changes, 0 for none
             becomes : Seq(Entry),       \* what it becomes, <<>> when it is deleted
             counts : {cs},
             todo : SUBSET CountId,      \* the counts still to be recalculated
             from : Nat, until : Nat,    \* the stretch of time the edit touches
             lowest : Int,               \* the lowest balance from `from` on, before the edit
             late : SUBSET (Time \cup {Mixed}), torn : SUBSET (Time \cup {Mixed})] \* lateAt and tornAt to be

TypeOK ==
  /\ entries \in Seq(Entry) /\ Len(entries) <= MaxEntries
  /\ Books(counts)
  /\ work \in Work(work.counts) /\ Books(work.counts)
  /\ lateAt \subseteq Time \cup {Mixed} /\ tornAt \subseteq Time \cup {Mixed}

Init ==
  /\ entries = <<>>
  /\ counts = NoCounts
  /\ work = Idle
  /\ lateAt = {} /\ tornAt = {}

-----------------------------------------------------------------------------
(* The register's figures *)

\* What an entry does to the cash in the register.
Effect(e) == IF e.kind \in {"receipt", "deposit"} THEN e.amount ELSE -e.amount

EffectOf(es, S) == SumFunction([i \in S |-> Effect(es[i])])

CorrectionOf(cs, S) == SumFunction([c \in S |-> cs[c].correction.amount])

\* cashFiguresUntil(t + 1 microsecond).expected(): everything up to and including t.
ExpectedUntil(es, cs, t) ==
  EffectOf(es, {i \in DOMAIN es : es[i].at <= t})
    + CorrectionOf(cs, {c \in DOMAIN cs : cs[c].correction.at <= t})

\* cashFiguresUntil(nil).expected(): everything recorded.
ExpectedNow(es, cs) == ExpectedUntil(es, cs, MaxTime)

\* Mutant of ExpectedAtCount: the count's own correction, booked at its time, is left in.
ExpectedAtCountWithOwnCorrection(es, cs, t, correction) ==
  ExpectedUntil(es, cs, t) - (IF correction.at < t THEN correction.amount ELSE 0)

\* expectedAtCount: without the count's own correction.
ExpectedAtCount(es, cs, t, correction) ==
  ExpectedUntil(es, cs, t) - (IF correction.at <= t THEN correction.amount ELSE 0)

\* The running balances of the journal at or after `from`: after each entry (rank 0, by id), at each count
\* (rank 1, moves nothing) and after each correction (rank 2).
BalancesFrom(es, cs, from) ==
  LET Before(t) == CorrectionOf(cs, {c \in DOMAIN cs : cs[c].correction.at < t})
      AfterEntry(i) == EffectOf(es, {j \in DOMAIN es : es[j].at < es[i].at \/ (es[j].at = es[i].at /\ j <= i)})
                         + Before(es[i].at)
      AtCount(c) == EffectOf(es, {i \in DOMAIN es : es[i].at <= cs[c].at}) + Before(cs[c].at)
  IN  {AfterEntry(i) : i \in {i \in DOMAIN es : es[i].at >= from}}
        \cup {AtCount(c) : c \in {c \in DOMAIN cs : cs[c].at >= from}}
        \cup {ExpectedUntil(es, cs, cs[c].correction.at) :
                c \in {c \in DOMAIN cs : cs[c].correction.amount # 0 /\ cs[c].correction.at >= from}}

\* lowestBalance, where a journal that stays above zero counts as zero.
LowestBalance(es, cs, from) == Min({0} \cup BalancesFrom(es, cs, from))

-----------------------------------------------------------------------------
(* Recalculating counts *)

\* UpdateCashCount and syncCountCorrection: the count with its figures, its correction booking the difference
\* at its time.
Recalculated(count, expected) ==
  [count EXCEPT !.expected = expected,
                !.correction = [at |-> count.at, amount |-> count.counted - expected]]

\* reconcileCounts: the counts from `from` on, without `skip`.
Due(cs, from, skip) == {c \in DOMAIN cs : cs[c].at >= from /\ c # skip}

NoCount == 0   \* uuid.Nil as the count to skip

\* The books as the transaction under way sees them: with what it made of the movement it changes.
Seen == IF work.row = 0 THEN entries
        ELSE IF work.becomes = <<>> THEN RemoveAt(entries, work.row)
        ELSE [entries EXCEPT ![work.row] = work.becomes[1]]

-----------------------------------------------------------------------------
(* Operations *)

Noted(S, T) == IF Mixed \in S THEN S ELSE S \cup T

\* A payment or movement at t: no count at or after t has it, neither the recorded ones nor those that the
\* transaction under way has written or will leave as they are. If that transaction has put right a count at or
\* after t, the oldest count it has not come to is the first to have it.
Late(t) ==
  LET Missed(cs) == IF \E c \in DOMAIN cs : cs[c].at >= t THEN {t} ELSE {}
      Oldest == {c \in work.todo : \A d \in work.todo : work.counts[c].at <= work.counts[d].at}
      Tears == \E c \in DOMAIN work.counts \ work.todo : work.counts[c].at >= t
  IN  /\ lateAt' = Noted(lateAt, Missed(counts))
      /\ work' = [work EXCEPT !.late = Noted(@, Missed(work.counts)),
                              !.torn = Noted(@, IF Tears THEN {work.counts[c].at : c \in Oldest} ELSE {})]
      /\ UNCHANGED tornAt

\* receipt, for cash: payments neither take the register lock nor recalculate counts.
Receipt(a, t) ==
  /\ Len(entries) < MaxEntries
  /\ entries' = Append(entries, [kind |-> "receipt", at |-> t, amount |-> a, open |-> TRUE])
  /\ Late(t)
  /\ UNCHANGED counts

\* reverseReceipt: a refund occurs when it is said to, a recording error when the receipt did.
ReverseReceipt(i, kind, t) ==
  /\ Len(entries) < MaxEntries
  /\ entries[i].kind = "receipt" /\ entries[i].open
  /\ kind = "recording_error" => t = entries[i].at
  /\ entries' = Append([entries EXCEPT ![i].open = FALSE],
                       [kind |-> kind, at |-> t, amount |-> entries[i].amount, open |-> FALSE])
  /\ Late(t)
  /\ UNCHANGED counts

\* Mutant of CreateCashMovement: only the balance at the withdrawal's own time is looked at.
CreateCashMovementUncheckedNow(kind, a, t) ==
  /\ work = Idle
  /\ Len(entries) < MaxEntries
  /\ kind = "withdrawal" => a <= ExpectedUntil(entries, counts, t)
  /\ entries' = Append(entries, [kind |-> kind, at |-> t, amount |-> a, open |-> FALSE])
  /\ Late(t)
  /\ UNCHANGED counts

\* A withdrawal cannot exceed what the register should hold, neither at its own time nor now.
CreateCashMovement(kind, a, t) ==
  /\ work = Idle
  /\ Len(entries) < MaxEntries
  /\ kind = "withdrawal" => a <= ExpectedUntil(entries, counts, t) /\ a <= ExpectedNow(entries, counts)
  /\ entries' = Append(entries, [kind |-> kind, at |-> t, amount |-> a, open |-> FALSE])
  /\ Late(t)
  /\ UNCHANGED counts

\* What lateAt or tornAt becomes by an edit from `from` to `until`.
Covered(S, from, until) == IF \A t \in S : from <= t /\ t <= until THEN {} ELSE {Mixed}

\* Mutant of RecordCashCount: the difference is stored as what was counted.
RecordCashCountDifference(counted, t) ==
  LET expected == ExpectedUntil(entries, counts, t)
      new == [at |-> t, counted |-> counted - expected, expected |-> expected,
              correction |-> [at |-> t, amount |-> counted - expected]]
      free == CountId \ DOMAIN counts
  IN  /\ work = Idle
      /\ \A c \in DOMAIN counts : t > counts[c].at
      /\ free # {}
      /\ work' = [Idle EXCEPT !.stage = "recording", !.from = t, !.until = t,
                              !.counts = [c \in DOMAIN counts \cup {Min(free)} |->
                                            IF c \in DOMAIN counts THEN counts[c] ELSE new],
                              !.late = IF lateAt = {} THEN {} ELSE {Mixed},
                              !.torn = IF lateAt \cup tornAt = {} THEN {} ELSE {Mixed}]
      /\ UNCHANGED <<entries, counts, lateAt, tornAt>>

\* RecordCashCount, until it has read what was expected at its time: after the latest count.
RecordCashCount(counted, t) ==
  LET expected == ExpectedUntil(entries, counts, t)
      new == [at |-> t, counted |-> counted, expected |-> expected,
              correction |-> [at |-> t, amount |-> counted - expected]]
      free == CountId \ DOMAIN counts
  IN  /\ work = Idle
      /\ \A c \in DOMAIN counts : t > counts[c].at
      /\ free # {}
      /\ work' = [Idle EXCEPT !.stage = "recording", !.from = t, !.until = t,
                              !.counts = [c \in DOMAIN counts \cup {Min(free)} |->
                                            IF c \in DOMAIN counts THEN counts[c] ELSE new],
                              !.late = IF lateAt = {} THEN {} ELSE {Mixed},
                              !.torn = IF lateAt \cup tornAt = {} THEN {} ELSE {Mixed}]
      /\ UNCHANGED <<entries, counts, lateAt, tornAt>>

Commit ==
  /\ entries' = Seen /\ counts' = work.counts
  /\ lateAt' = work.late /\ tornAt' = work.torn
  /\ work' = Idle

\* The rest of it: a shortfall may not leave the register owing cash now.
CommitCashCount ==
  /\ work.stage = "recording"
  /\ \A c \in DOMAIN work.counts \ DOMAIN counts :
       work.counts[c].correction.amount < 0 => ExpectedNow(entries, work.counts) >= 0
  /\ Commit

\* The beginning of an edit of the movement `row` or of a count, cs being the counts with that change.
Edit(stage, row, becomes, cs, from, until, skip) ==
  /\ work = Idle
  /\ work' = [stage |-> stage, row |-> row, becomes |-> becomes, counts |-> cs, todo |-> Due(cs, from, skip),
              from |-> from, until |-> until,
              lowest |-> IF stage = "walking" THEN LowestBalance(entries, counts, from) ELSE 0,
              late |-> Covered(lateAt, from, until), torn |-> Covered(lateAt \cup tornAt, from, until)]
  /\ UNCHANGED <<entries, counts, lateAt, tornAt>>

UpdateCashMovement(i, a, t) ==
  /\ entries[i].kind \in MovementKind
  /\ Edit("walking", i, <<[entries[i] EXCEPT !.amount = a, !.at = t]>>, counts,
          Min({entries[i].at, t}), Max({entries[i].at, t}), NoCount)

DeleteCashMovement(i) ==
  /\ entries[i].kind \in MovementKind
  /\ Edit("walking", i, <<>>, counts, entries[i].at, entries[i].at, NoCount)

\* checkCountOrder: a count moves only strictly between its neighbours.
CountOrderKept(c, t) ==
  \A d \in DOMAIN counts : /\ counts[d].at < counts[c].at => counts[d].at < t
                           /\ counts[d].at > counts[c].at => counts[d].at > t

\* UpdateCashCount, until it has read what was expected at the new time.
UpdateCashCount(c, counted, t) ==
  LET row == counts[c]
      expected == ExpectedAtCount(entries, counts, t, row.correction)
      updated == [counts EXCEPT ![c] = Recalculated([row EXCEPT !.counted = counted, !.at = t], expected)]
  IN  /\ t # row.at => CountOrderKept(c, t)
      /\ Edit("counted", 0, <<>>, updated, Min({row.at, t}), Max({row.at, t}), c)

\* The balances before the change.
ReadLowestBalance ==
  /\ work.stage = "counted"
  /\ work' = [work EXCEPT !.stage = "walking", !.lowest = LowestBalance(entries, counts, work.from)]
  /\ UNCHANGED <<entries, counts, lateAt, tornAt>>

DeleteCashCount(c) ==
  Edit("walking", 0, <<>>, [d \in DOMAIN counts \ {c} |-> counts[d]], counts[c].at, counts[c].at, c)

\* One count of reconcileCounts, oldest first; a count after `until` that needs no change is the last.
ReconcileCount(c) ==
  /\ work.stage = "walking"
  /\ \A d \in work.todo : work.counts[c].at <= work.counts[d].at
  /\ LET count == work.counts[c]
         expected == ExpectedAtCount(Seen, work.counts, count.at, count.correction)
     IN  work' = IF expected # count.expected
                 THEN [work EXCEPT !.counts[c] = Recalculated(count, expected), !.todo = @ \ {c}]
                 ELSE [work EXCEPT !.todo = IF count.at > work.until THEN {} ELSE @ \ {c}]
  /\ UNCHANGED <<entries, counts, lateAt, tornAt>>

\* The end of an edit: checkBalanceAfter refuses it if the register would go below zero, or further below than it
\* already did.
CommitEdit ==
  /\ work.stage = "walking" /\ work.todo = {}
  /\ LowestBalance(Seen, work.counts, work.from) >= work.lowest
  /\ Commit

\* A transaction that is refused, or fails at any point, leaves nothing.
Rollback ==
  /\ work # Idle
  /\ work' = Idle
  /\ UNCHANGED <<entries, counts, lateAt, tornAt>>

Next ==
  \/ \E a \in Amount, t \in Time :
       \/ Receipt(a, t)
       \/ \E kind \in MovementKind : CreateCashMovement(kind, a, t)
  \/ \E i \in DOMAIN entries, t \in Time :
       \/ \E kind \in {"refund", "recording_error"} : ReverseReceipt(i, kind, t)
       \/ \E a \in Amount : UpdateCashMovement(i, a, t)
  \/ \E i \in DOMAIN entries : DeleteCashMovement(i)
  \/ \E a \in 0..MaxAmount, t \in Time :
       \/ RecordCashCount(a, t)
       \/ \E c \in DOMAIN counts : UpdateCashCount(c, a, t)
  \/ \E c \in DOMAIN counts : DeleteCashCount(c)
  \/ \E c \in work.todo : ReconcileCount(c)
  \/ ReadLowestBalance \/ CommitCashCount \/ CommitEdit \/ Rollback

Spec == Init /\ [][Next]_vars

-----------------------------------------------------------------------------
(* Properties *)

\* A count's stored figures are what the books say, and the register holds what was counted right after it.
Explained(c) ==
  LET count == counts[c]
  IN  /\ count.expected = ExpectedAtCount(entries, counts, count.at, count.correction)
      /\ count.correction = [at |-> count.at, amount |-> count.counted - count.expected]

\* Unless an entry was booked at or before a count, or a payment fell between two counts of an edit, and no edit
\* has recalculated across it since, every count is explained, whatever sequence of counts, movements, edits,
\* moves and deletions led here: reconcileCounts reaches every count a change can touch although it stops at the
\* first one after the change that stands.
CountsExplained == lateAt = {} /\ tornAt = {} => \A c \in DOMAIN counts : Explained(c)

Reversals == {i \in DOMAIN entries : entries[i].kind \in {"refund", "recording_error"}}

NeverBelowZero == \A b \in BalancesFrom(entries, counts, 1) : b >= 0

PaysBack == Cardinality(Reversals') > Cardinality(Reversals)

\* A register whose journal does not go below zero, and did not when the edit under way looked at it, does not
\* come to owe cash by a withdrawal, a count, an edit or a deletion, whatever payments fall into their
\* transactions; only paying money back can do that. The withdrawal limit, the refusal of a backdated shortfall
\* and checkBalanceAfter each guard a part of this.
OnlyRefundsOverdraw ==
  [][NeverBelowZero /\ work.lowest >= 0 /\ ~PaysBack => ExpectedNow(entries', counts') >= 0]_<<entries, counts>>

\* reconcileCounts: "Once a count after `until` (the last moment the change touched) needs no change, the counts
\* after it cannot either", for an edit that covers every entry booked at or before a count. Violated after a
\* payment fell between two counts of an earlier edit: those it has put right already lack the payment, the
\* others have it.
StopIsSound ==
  [][work.stage = "walking" /\ work.late = {} /\ work'.stage = "walking" /\ work'.todo = {}
       => \A c \in work.todo : ExpectedAtCount(Seen, work'.counts, work'.counts[c].at, work'.counts[c].correction)
                                 = work'.counts[c].expected]_work
=============================================================================
