------------------------- MODULE SpoolMountsProofs -------------------------
(***************************************************************************)
(* Proofs about SpoolMounts for any number of printers, spools, staff      *)
(* sessions, tray changes and operations: the row locks alone keep mounts  *)
(* unique and spare what staff mounted. The argument is that of two-phase  *)
(* locking: what a transaction saw of a slot or a spool after locking its  *)
(* row stays true until it commits, because every transaction that mounts  *)
(* a spool, or retires one, holds the rows of its slot and its spool.      *)
(*                                                                         *)
(* The second half shows that mounts follow the trays: what a connector    *)
(* has yet to report explains every difference.                            *)
(***************************************************************************)
EXTENDS SpoolMounts, TLAPS, SequenceTheorems

\* The locking statements.
Steps == {"slot", "spool", "article", "slot_mount", "spool_mount", "article_mounts"}

-----------------------------------------------------------------------------
(* What the transactions lock *)

\* Mounting by staff and by an observation lock slot and spool before the
\* mounts of either, and the mounts of the spool last.
LEMMA FourLocks ==
    ASSUME NEW L, L = <<"slot", "spool", "slot_mount", "spool_mount">>
    PROVE  /\ Len(L) \in Nat
           /\ \A i \in 1 .. Len(L) : L[i] \in Steps
           /\ \A i \in 1 .. Len(L) : L[i] = "slot_mount" => \E j \in 1 .. Len(L) : j < i /\ L[j] = "slot"
           /\ \A i \in 1 .. Len(L) : L[i] = "spool_mount" => \E j \in 1 .. Len(L) : j < i /\ L[j] = "spool"
           /\ \E i \in 1 .. Len(L) : L[i] = "slot_mount"
           /\ \E i \in 1 .. Len(L) : L[i] = "spool_mount"
           /\ \A i \in 1 .. Len(L) : L[i] = "spool_mount" => i = Len(L)
<1>1. Len(L) = 4
  OBVIOUS
<1>2. L[1] = "slot" /\ L[2] = "spool" /\ L[3] = "slot_mount" /\ L[4] = "spool_mount"
  OBVIOUS
<1>3. \A i \in 1 .. 4 : i = 1 \/ i = 2 \/ i = 3 \/ i = 4
  OBVIOUS
<1>4. 1 \in 1 .. 4 /\ 2 \in 1 .. 4 /\ 3 \in 1 .. 4 /\ 4 \in 1 .. 4 /\ 1 < 3 /\ 2 < 4
  OBVIOUS
<1> QED BY <1>1, <1>2, <1>3, <1>4 DEF Steps

\* Every operation that locks the mounts of a slot or a spool has locked the
\* slot or the spool before.
LEMMA LockOrder ==
    ASSUME NEW op \in Op
    PROVE  /\ Len(Locks(op)) \in Nat
           /\ \A i \in 1 .. Len(Locks(op)) : Locks(op)[i] \in Steps
           /\ \A i \in 1 .. Len(Locks(op)) : Locks(op)[i] = "slot_mount" =>
                 \E j \in 1 .. Len(Locks(op)) : j < i /\ Locks(op)[j] = "slot"
           /\ \A i \in 1 .. Len(Locks(op)) : Locks(op)[i] = "spool_mount" =>
                 \E j \in 1 .. Len(Locks(op)) : j < i /\ Locks(op)[j] = "spool"
           /\ op = "retire" => \E i \in 1 .. Len(Locks(op)) : Locks(op)[i] = "spool_mount"
           /\ op \in {"mount", "observe"} =>
                 /\ \E i \in 1 .. Len(Locks(op)) : Locks(op)[i] = "slot_mount"
                 /\ \E i \in 1 .. Len(Locks(op)) : Locks(op)[i] = "spool_mount"
                 /\ \A i \in 1 .. Len(Locks(op)) : Locks(op)[i] = "spool_mount" => i = Len(Locks(op))
<1>1. CASE op = "mount"
  <2>1. Locks(op) = <<"slot", "spool", "slot_mount", "spool_mount">>
    BY <1>1 DEF Locks, MountLocks
  <2> QED BY <1>1, <2>1, FourLocks
<1>2. CASE op = "observe"
  <2>1. Locks(op) = <<"slot", "spool", "slot_mount", "spool_mount">>
    BY <1>2 DEF Locks, ObserveLocks
  <2> QED BY <1>2, <2>1, FourLocks
<1>3. CASE op \in {"unmount", "empty"}
  <2>1. Locks(op) = <<"slot", "slot_mount">>
    BY <1>3 DEF Locks, UnmountLocks, EmptyLocks
  <2> QED BY <1>3, <2>1 DEF Steps
<1>4. CASE op = "retire"
  <2>1. Locks(op) = <<"spool", "article", "spool_mount">>
    BY <1>4 DEF Locks, RetireLocks
  <2> QED BY <1>4, <2>1 DEF Steps
<1>5. CASE op = "delete_article"
  <2>1. Locks(op) = <<"article", "article_mounts">>
    BY <1>5 DEF Locks, DeleteArticleLocks
  <2> QED BY <1>5, <2>1 DEF Steps
<1>6. CASE op \in {"slot_status", "restore", "restore_article"}
  <2>1. Locks(op) \in {<<"slot">>, <<"spool", "article">>, <<"article">>}
    BY <1>6 DEF Locks, SlotStatusLocks, RestoreLocks, RestoreArticleLocks
  <2> QED BY <1>6, <2>1 DEF Steps
<1> QED BY <1>1, <1>2, <1>3, <1>4, <1>5, <1>6 DEF Op

-----------------------------------------------------------------------------
(* The inductive invariant *)

\* No client is queued twice, and a transaction has begun.
ClientShape ==
    /\ \A i, j \in DOMAIN waiting : waiting[i] = waiting[j] => i = j
    /\ \A c \in Client : Active(c) => txn[c].at # 0

\* The transaction of c is past its locking statement for these rows.
Passed(c, step) ==
    Active(c) /\ \E i \in 1 .. Len(Locks(txn[c].op)) : i < txn[c].at /\ Locks(txn[c].op)[i] = step

\* A slot or spool that was locked is still locked.
RowsHeld(c) ==
    /\ Passed(c, "slot") => txn[c].slot \in held[c]
    /\ Passed(c, "spool") => txn[c].spool \in held[c]

\* The mounts c saw, of its slot or of its spool, are still all there are.
\* Without the lock on the slot or the spool this would not be inductive:
\* another client could mount between the look and the commit.
MountsSeen(c) ==
    /\ Passed(c, "slot_mount") =>
          /\ \A m \in mounts : m.slot = txn[c].slot => m \in txn[c].slotMount
          /\ txn[c].op = "mount" => txn[c].slotMount = {}
    /\ Passed(c, "spool_mount") =>
          /\ \A m \in mounts : m.spool = txn[c].spool => m \in txn[c].spoolMount
          /\ txn[c].op = "mount" => txn[c].spoolMount = {}

\* An observation that is going to commit removes no mount made by hand.
ManualSpared(c) ==
    Passed(c, "spool_mount") /\ txn[c].op = "observe" =>
        \A m \in txn[c].slotMount \cup txn[c].spoolMount : m.source = "connector"

\* A spool about to be mounted cannot be retired in between.
SpoolStaysActive(c) ==
    Passed(c, "spool") /\ txn[c].op \in {"mount", "observe"} => txn[c].spool \in active

\* What holds of the transaction of c.
ClientInv(c) == RowsHeld(c) /\ MountsSeen(c) /\ ManualSpared(c) /\ SpoolStaysActive(c)

\* The inductive invariant.
IndInv == TypeOK /\ ClientShape /\ OneOpenMount /\ \A c \in Client : ClientInv(c)

-----------------------------------------------------------------------------
(* Types and helpers *)

\* The fields of a transaction.
LEMMA Types ==
    ASSUME TypeOK, NEW c \in Client, Active(c)
    PROVE  /\ txn[c] \in Txn /\ txn[c].op \in Op /\ txn[c].slot \in Slot /\ txn[c].spool \in Spool
           /\ txn[c].event \in 0 .. MaxObservations /\ txn[c].at \in Nat
           /\ txn[c].slotMount \subseteq Mount /\ txn[c].spoolMount \subseteq Mount
<1>1. txn[c] \in Txn
  BY DEF TypeOK, Active
<1> QED BY <1>1 DEF Txn

\* The rows that a locking statement finds.
LEMMA FoundRows ==
    ASSUME TypeOK, NEW c \in Client, Active(c), NEW step \in Steps
    PROVE  /\ Found(txn[c], step) \subseteq Row
           /\ step \in {"slot_mount", "spool_mount", "article_mounts"} => Found(txn[c], step) \subseteq mounts
           /\ step = "slot" => Found(txn[c], step) = {txn[c].slot}
           /\ step = "spool" => Found(txn[c], step) = {txn[c].spool}
           /\ step = "slot_mount" => Found(txn[c], step) = {m \in mounts : m.slot = txn[c].slot}
           /\ step = "spool_mount" => Found(txn[c], step) = {m \in mounts : m.spool = txn[c].spool}
           /\ step = "article_mounts" => Found(txn[c], step) = mounts
<1>1. txn[c].slot \in Slot /\ txn[c].spool \in Spool /\ mounts \subseteq Mount
  BY Types DEF TypeOK
<1> QED BY <1>1 DEF Found, Row, Steps

\* A transaction that is not done has a next locking statement.
LEMMA NextLockIs ==
    ASSUME TypeOK, NEW c \in Client, ClientShape, Active(c), ~AtCommit(c)
    PROVE  /\ NextLock(c) \in Steps
           /\ txn[c].at \in 1 .. Len(Locks(txn[c].op)) /\ NextLock(c) = Locks(txn[c].op)[txn[c].at]
<1>1. txn[c].op \in Op /\ txn[c].at \in Nat
  BY Types
<1>2. Len(Locks(txn[c].op)) \in Nat /\ \A i \in 1 .. Len(Locks(txn[c].op)) : Locks(txn[c].op)[i] \in Steps
  BY <1>1, LockOrder
<1>3. txn[c].at \in 1 .. Len(Locks(txn[c].op))
  BY <1>1, <1>2 DEF AtCommit, ClientShape
<1> QED BY <1>2, <1>3 DEF NextLock

\* A transaction after one more locking statement.
Advanced(t, n, a, b) == [t EXCEPT !.at = n, !.slotMount = a, !.spoolMount = b]

\* It differs from the transaction before in these three fields only.
LEMMA AdvancedTxn ==
    ASSUME NEW t \in Txn, NEW n \in Nat, NEW a \in SUBSET Mount, NEW b \in SUBSET Mount
    PROVE  /\ Advanced(t, n, a, b) \in Txn
           /\ Advanced(t, n, a, b).at = n
           /\ Advanced(t, n, a, b).slotMount = a /\ Advanced(t, n, a, b).spoolMount = b
           /\ Advanced(t, n, a, b).op = t.op
           /\ Advanced(t, n, a, b).slot = t.slot /\ Advanced(t, n, a, b).spool = t.spool
           /\ Advanced(t, n, a, b).event = t.event
BY DEF Txn, Advanced

\* A transaction is not the absence of one.
LEMMA TxnNotNone ==
    ASSUME NEW t \in Txn
    PROVE  t # None
<1>1. t.op \in Op
  BY DEF Txn
<1>2. None.op = "none" /\ "none" \notin Op
  BY DEF None, Op
<1> QED BY <1>1, <1>2

-----------------------------------------------------------------------------
(* The queue for rows *)

\* A sequence whose elements are all in B is a sequence over B.
LEMMA SubSeqType ==
    ASSUME NEW A, NEW B, NEW w \in Seq(A), \A i \in 1 .. Len(w) : w[i] \in B
    PROVE  w \in Seq(B)
<1>1. Len(w) \in Nat /\ w \in [1 .. Len(w) -> A]
  BY LenProperties
<1>2. w \in [1 .. Len(w) -> B]
  BY <1>1
<1> QED BY <1>1, <1>2, SeqDef

\* Removing one element of a sequence moves the elements behind it up.
LEMMA RemoveOne ==
    ASSUME NEW A, NEW s \in Seq(A), NEW k \in 1 .. Len(s), NEW w,
           w = SubSeq(s, 1, k - 1) \o SubSeq(s, k + 1, Len(s))
    PROVE  /\ w \in Seq(A) /\ Len(w) = Len(s) - 1
           /\ \A i \in 1 .. Len(s) - 1 : w[i] = IF i < k THEN s[i] ELSE s[i + 1]
<1> DEFINE n == Len(s)
           l == SubSeq(s, 1, k - 1)
           r == SubSeq(s, k + 1, n)
<1>1. n \in Nat /\ k \in Nat /\ 1 <= k /\ k <= n /\ \A i \in 1 .. n : s[i] \in A
  BY LenProperties
<1>2. k - 1 \in Int /\ k + 1 \in Int /\ 1 \in Int /\ n \in Int
  BY <1>1
<1>3. l \in Seq(A) /\ Len(l) = k - 1 /\ \A i \in 1 .. k - 1 : l[i] = s[i]
  <2>1. \A i \in 1 .. k - 1 : s[i] \in A
    BY <1>1
  <2>2. /\ l \in Seq(A) /\ Len(l) = IF 1 <= k - 1 THEN k - 1 - 1 + 1 ELSE 0
        /\ \A i \in 1 .. k - 1 - 1 + 1 : l[i] = s[1 + i - 1]
    BY <1>2, <2>1, SubSeqProperties
  <2> HIDE DEF l, n
  <2>3. k - 1 - 1 + 1 = k - 1 /\ \A i \in 1 .. k - 1 : 1 + i - 1 = i
    BY <1>1
  <2> QED BY <1>1, <2>2, <2>3
<1>4. r \in Seq(A) /\ Len(r) = n - k /\ \A i \in 1 .. n - k : r[i] = s[k + i]
  <2>1. \A i \in k + 1 .. n : s[i] \in A
    BY <1>1
  <2>2. /\ r \in Seq(A) /\ Len(r) = IF k + 1 <= n THEN n - (k + 1) + 1 ELSE 0
        /\ \A i \in 1 .. n - (k + 1) + 1 : r[i] = s[k + 1 + i - 1]
    BY <1>2, <2>1, SubSeqProperties
  <2> HIDE DEF r, n
  <2>3. n - (k + 1) + 1 = n - k /\ \A i \in 1 .. n - k : k + 1 + i - 1 = k + i
    BY <1>1
  <2> QED BY <1>1, <2>2, <2>3
<1>5. /\ w \in Seq(A) /\ Len(w) = Len(l) + Len(r)
      /\ \A i \in 1 .. Len(l) + Len(r) : w[i] = IF i <= Len(l) THEN l[i] ELSE r[i - Len(l)]
  BY <1>3, <1>4, ConcatProperties
<1> HIDE DEF l, r, n
<1>6. Len(l) + Len(r) = n - 1
  BY <1>1, <1>3, <1>4
<1>7. ASSUME NEW i \in 1 .. n - 1 PROVE w[i] = IF i < k THEN s[i] ELSE s[i + 1]
  <2>1. w[i] = IF i <= k - 1 THEN l[i] ELSE r[i - (k - 1)]
    BY <1>3, <1>5, <1>6
  <2>2. CASE i < k
    <3>1. i <= k - 1 /\ i \in 1 .. k - 1
      BY <1>1, <2>2
    <3> QED BY <1>3, <2>1, <2>2, <3>1
  <2>3. CASE ~ (i < k)
    <3>1. ~ (i <= k - 1) /\ i - (k - 1) \in 1 .. n - k /\ k + (i - (k - 1)) = i + 1
      BY <1>1, <2>3
    <3> QED BY <1>4, <2>1, <2>3, <3>1
  <2> QED BY <2>2, <2>3
<1> QED BY <1>5, <1>6, <1>7 DEF n

\* A client that leaves the queue is not in it any more, and the others are in
\* it once.
LEMMA LeavesEffect ==
    ASSUME TypeOK, ClientShape, NEW c \in Client, Leaves(c)
    PROVE  /\ waiting' \in Seq({d \in Client : txn[d] # None} \ {c})
           /\ \A i, j \in DOMAIN waiting' : waiting'[i] = waiting'[j] => i = j
<1> DEFINE A == {d \in Client : txn[d] # None}
           B == A \ {c}
           n == Len(waiting)
<1>1. waiting \in Seq(A) /\ n \in Nat /\ DOMAIN waiting = 1 .. n /\ \A i \in 1 .. n : waiting[i] \in A
  <2>1. waiting \in Seq(A)
    BY DEF TypeOK
  <2> HIDE DEF A
  <2> QED BY <2>1
<1>2. CASE c \notin Queued /\ waiting' = waiting
  <2>1. \A i \in 1 .. n : waiting[i] \in B
    BY <1>1, <1>2 DEF Queued
  <2> HIDE DEF A, B
  <2>2. waiting \in Seq(B)
    BY <1>1, <2>1, SeqDef
  <2> QED BY <1>2, <2>2 DEF ClientShape, A, B
<1>3. ASSUME NEW k \in DOMAIN waiting, waiting[k] = c, waiting' = Without(k)
      PROVE  waiting' \in Seq(B) /\ \A i, j \in DOMAIN waiting' : waiting'[i] = waiting'[j] => i = j
  <2>0. k \in 1 .. n /\ \A i \in 1 .. n - 1 : i \in 1 .. n /\ i + 1 \in 1 .. n
    BY <1>1
  <2> DEFINE w == SubSeq(waiting, 1, k - 1) \o SubSeq(waiting, k + 1, n)
  <2>4. /\ w \in Seq(A) /\ Len(w) = n - 1
        /\ \A i \in 1 .. n - 1 : w[i] = IF i < k THEN waiting[i] ELSE waiting[i + 1]
    <3> HIDE DEF A, w
    <3> QED BY <1>1, <2>0, RemoveOne DEF w
  <2>3. waiting' = w
    BY <1>3 DEF Without
  <2> HIDE DEF w, A
  <2>1. \A i, j \in 1 .. n : waiting[i] = waiting[j] => i = j
    BY <1>1 DEF ClientShape
  <2>5. \A i \in 1 .. n - 1 : w[i] # c
    <3> TAKE i \in 1 .. n - 1
    <3>1. CASE i < k
      BY <1>3, <2>0, <2>1, <2>4, <3>1
    <3>2. CASE ~ (i < k)
      <4>1. w[i] = waiting[i + 1] /\ i + 1 \in 1 .. n /\ i + 1 # k
        BY <1>1, <2>0, <2>4, <3>2
      <4> QED BY <1>3, <2>0, <2>1, <4>1
    <3> QED BY <3>1, <3>2
  <2>6. DOMAIN w = 1 .. n - 1
    BY <2>4
  <2>7. w \in Seq(B)
    <3>1. \A i \in 1 .. Len(w) : w[i] \in B
      BY <2>4, <2>5
    <3> QED BY <2>4, <3>1, SubSeqType
  <2>8. \A i, j \in 1 .. n - 1 : w[i] = w[j] => i = j
    <3> TAKE i, j \in 1 .. n - 1
    <3> DEFINE f(x) == IF x < k THEN x ELSE x + 1
    <3>1. w[i] = waiting[f(i)] /\ w[j] = waiting[f(j)] /\ f(i) \in 1 .. n /\ f(j) \in 1 .. n
      BY <2>0, <2>4
    <3>2. w[i] = w[j] => f(i) = f(j)
      <4> HIDE DEF f
      <4> QED BY <2>1, <3>1
    <3>3. f(i) = f(j) => i = j
      BY <1>1, <2>0
    <3> QED BY <3>2, <3>3
  <2> QED BY <2>3, <2>6, <2>7, <2>8
<1> QED BY <1>2, <1>3 DEF Leaves

\* The end of a transaction touches no other client and no other connector's
\* observations.
LEMMA EndsEffect ==
    ASSUME TypeOK, ClientShape, NEW c \in Client, NEW done \in BOOLEAN, Active(c), Ends(c, done)
    PROVE  /\ txn' \in [Client -> Txn \cup {None}] /\ txn'[c] = None
           /\ held' \in [Client -> SUBSET Row] /\ held'[c] = {}
           /\ \A d \in Client : d # c => txn'[d] = txn[d] /\ held'[d] = held[d]
           /\ waiting' \in Seq({d \in Client : txn'[d] # None})
           /\ \A i, j \in DOMAIN waiting' : waiting'[i] = waiting'[j] => i = j
           /\ queue' \in [Slot -> SUBSET Observation] /\ retried' \subseteq 0 .. MaxObservations
           /\ \A s \in Slot : s # c => queue'[s] = queue[s]
           /\ disturbed' \in BOOLEAN
<1>1. /\ txn' = [txn EXCEPT ![c] = None] /\ held' = [held EXCEPT ![c] = {}] /\ Leaves(c)
      /\ \/ c \in Slot /\ Applied(c)
         \/ Retried(c)
         \/ UNCHANGED <<queue, retried, disturbed>>
  BY DEF Ends, Client
<1>2. /\ txn' \in [Client -> Txn \cup {None}] /\ txn'[c] = None
      /\ held' \in [Client -> SUBSET Row] /\ held'[c] = {}
      /\ \A d \in Client : d # c => txn'[d] = txn[d] /\ held'[d] = held[d]
  BY <1>1 DEF TypeOK
<1>3. {d \in Client : txn'[d] # None} = {d \in Client : txn[d] # None} \ {c}
  BY <1>2
<1>4. /\ waiting' \in Seq({d \in Client : txn'[d] # None})
      /\ \A i, j \in DOMAIN waiting' : waiting'[i] = waiting'[j] => i = j
  BY <1>1, <1>3, LeavesEffect
<1>5. /\ queue' \in [Slot -> SUBSET Observation] /\ retried' \subseteq 0 .. MaxObservations
      /\ \A s \in Slot : s # c => queue'[s] = queue[s]
      /\ disturbed' \in BOOLEAN
  <2>1. CASE c \in Slot /\ Applied(c)
    <3>1. disturbed' \in BOOLEAN
      BY <2>1 DEF Applied
    <3> QED BY <2>1, <3>1 DEF Applied, TypeOK
  <2>2. CASE Retried(c)
    <3>1. txn[c].event \in 0 .. MaxObservations
      BY Types
    <3> QED BY <2>2, <3>1 DEF Retried, TypeOK
  <2>3. CASE UNCHANGED <<queue, retried, disturbed>>
    BY <2>3 DEF TypeOK
  <2> QED BY <1>1, <2>1, <2>2, <2>3
<1> QED BY <1>2, <1>4, <1>5

\* What a commit makes of the mounts are mounts.
LEMMA MountsAfterType ==
    ASSUME TypeOK, NEW c \in Client, Active(c)
    PROVE  MountsAfter(txn[c]) \subseteq Mount
<1>1. mounts \subseteq Mount /\ txn[c].slot \in Slot /\ txn[c].spool \in Spool
  BY Types DEF TypeOK
<1>2. /\ [slot |-> txn[c].slot, spool |-> txn[c].spool, source |-> "manual"] \in Mount
      /\ [slot |-> txn[c].slot, spool |-> txn[c].spool, source |-> "connector"] \in Mount
  BY <1>1 DEF Mount
<1> QED BY <1>1, <1>2 DEF MountsAfter

-----------------------------------------------------------------------------
(* Steps *)

\* The transaction of c ends, to come again or not.
Ending(c) == \E done \in BOOLEAN : Ends(c, done)

\* The rows that c locks next.
Rows(c) == Found(txn[c], NextLock(c))

\* The effect of a locking statement after which the transaction goes on.
Advances(c) ==
    /\ Active(c) /\ ~AtCommit(c) /\ WaitsFor(c) = {}
    /\ GoesOn(txn[c], NextLock(c), Rows(c))
    /\ txn' = [txn EXCEPT ![c].at = @ + 1,
                          ![c].slotMount = IF NextLock(c) = "slot_mount" THEN Rows(c) ELSE @,
                          ![c].spoolMount = IF NextLock(c) \in {"spool_mount", "article_mounts"}
                                            THEN Rows(c) ELSE @]
    /\ held' = [held EXCEPT ![c] = @ \cup Rows(c)]
    /\ Leaves(c)
    /\ UNCHANGED <<mounts, available, active, binned, tray, queue, retried, clock, staffOps, disturbed>>

\* The effect of a transaction's begin, of staff or of an observation.
Begins(c) ==
    /\ ~Active(c)
    /\ \E op \in Op, s \in Slot, x \in Spool, e \in 0 .. MaxObservations :
         txn' = [txn EXCEPT ![c] = Begun(op, s, x, e)]
    /\ staffOps' \in 0 .. MaxStaffOps /\ disturbed' \in BOOLEAN
    /\ UNCHANGED <<mounts, available, active, binned, held, waiting, tray, queue, retried, clock>>

\* The effect of a change of the trays.
TraysMove ==
    /\ tray' \in [Slot -> Spool \cup {NoSpool}] /\ clock' \in 0 .. MaxObservations
    /\ queue' \in [Slot -> SUBSET Observation]
    /\ UNCHANGED <<mounts, available, active, binned, txn, held, waiting, retried, staffOps, disturbed>>

\* Every step has one of these effects.
LEMMA StepCases ==
    ASSUME TypeOK, [Next]_vars
    PROVE  \/ UNCHANGED vars
           \/ TraysMove
           \/ \E c \in Client : Begins(c)
           \/ \E c \in Client : Wait(c)
           \/ \E c \in Client : Advances(c)
           \/ \E c \in Client : /\ Active(c) /\ Ending(c)
                                /\ UNCHANGED <<mounts, available, active, binned, tray, clock, staffOps>>
           \/ \E c \in Client : Commit(c)
<1> USE SpoolAssumption
<1>0. Slot \subseteq Client /\ Staff \subseteq Client
  BY DEF Client
<1>1. ASSUME NEW s \in Slot, NEW x \in Spool \cup {NoSpool}, TrayChanges(s, x) PROVE TraysMove
  <2>1. clock' \in 1 .. MaxObservations
    BY <1>1 DEF TrayChanges, TypeOK
  <2>2. [spool |-> x, at |-> clock'] \in Observation
    BY <2>1 DEF Observation
  <2> QED BY <1>1, <2>1, <2>2 DEF TrayChanges, TypeOK, TraysMove
<1>2. ASSUME NEW s \in Slot, NEW t \in Slot, TraysSwapped(s, t) PROVE TraysMove
  <2>1. /\ clock' \in 0 .. MaxObservations /\ clock + 1 \in 1 .. MaxObservations /\ clock + 2 \in 1 .. MaxObservations
        /\ tray[s] \in Spool /\ tray[t] \in Spool
    BY <1>2 DEF TraysSwapped, TypeOK
  <2>2. [spool |-> tray[t], at |-> clock + 1] \in Observation /\ [spool |-> tray[s], at |-> clock + 2] \in Observation
    BY <2>1 DEF Observation
  <2> QED BY <1>2, <2>1, <2>2 DEF TraysSwapped, TypeOK, TraysMove
<1>3. ASSUME NEW c \in Staff, NEW s \in Slot, NEW x \in Spool, NEW op \in Op \ {"observe", "empty"},
             BeginStaff(c, op, s, x)
      PROVE  Begins(c)
  <2>0. op \in Op /\ 0 \in 0 .. MaxObservations /\ txn' = [txn EXCEPT ![c] = Begun(op, s, x, 0)]
    BY <1>3 DEF BeginStaff
  <2>1. \E o \in Op, r \in Slot, y \in Spool, e \in 0 .. MaxObservations : txn' = [txn EXCEPT ![c] = Begun(o, r, y, e)]
    BY <2>0
  <2>2. staffOps' \in 0 .. MaxStaffOps
    BY <1>3 DEF BeginStaff, TypeOK
  <2> QED BY <1>3, <2>1, <2>2 DEF BeginStaff, Begins
<1>4. ASSUME NEW s \in Slot, BeginObservation(s) PROVE Begins(s)
  <2>1. PICK o \in queue[s] : txn' = [txn EXCEPT ![s] = IF o.spool = NoSpool THEN Begun("empty", s, AnySpool, o.at)
                                                       ELSE Begun("observe", s, o.spool, o.at)]
    BY <1>4 DEF BeginObservation
  <2>2. o \in Observation
    BY DEF TypeOK
  <2>3. AnySpool \in Spool /\ o.spool \in Spool \cup {NoSpool} /\ o.at \in 0 .. MaxObservations
    BY <2>2 DEF AnySpool, Observation
  <2>4. \E op \in Op, x \in Spool, e \in 0 .. MaxObservations : txn' = [txn EXCEPT ![s] = Begun(op, s, x, e)]
    BY <2>1, <2>3 DEF Op
  <2> QED BY <1>4, <2>4 DEF BeginObservation, Begins, TypeOK
<1>5. ASSUME NEW c \in Client, Lock(c)
      PROVE  \/ Advances(c)
             \/ /\ Active(c) /\ Ending(c)
                /\ UNCHANGED <<mounts, available, active, binned, tray, clock, staffOps>>
  BY <1>5 DEF Lock, Advances, Ending, Rows
<1>6. ASSUME NEW c \in Client, DeadlockVictim(c) PROVE Active(c)
  <2>1. waiting \in Seq({d \in Client : txn[d] # None})
    BY DEF TypeOK
  <2>2. \A i \in DOMAIN waiting : waiting[i] \in {d \in Client : txn[d] # None}
    BY <2>1, ElementOfSeq, LenProperties
  <2> QED BY <1>6, <2>2 DEF DeadlockVictim, Queued, Active
<1>7. ASSUME NEW c \in Client, Step(c)
      PROVE  \/ Wait(c) \/ Advances(c) \/ Commit(c)
             \/ /\ Active(c) /\ Ending(c)
                /\ UNCHANGED <<mounts, available, active, binned, tray, clock, staffOps>>
  BY <1>5, <1>6, <1>7 DEF Step, DeadlockVictim, Ending
<1> QED BY <1>0, <1>1, <1>2, <1>3, <1>4, <1>7 DEF Next

\* A locking statement in terms of the transaction's fields.
LEMMA AdvancesEffect ==
    ASSUME TypeOK, ClientShape, NEW c \in Client, Advances(c)
    PROVE  /\ txn' \in [Client -> Txn \cup {None}] /\ txn'[c] \in Txn /\ txn'[c] # None
           /\ txn'[c].at = txn[c].at + 1 /\ txn[c].at \in Nat
           /\ txn'[c].op = txn[c].op /\ txn'[c].slot = txn[c].slot /\ txn'[c].spool = txn[c].spool
           /\ txn'[c].event = txn[c].event
           /\ txn'[c].slotMount = IF NextLock(c) = "slot_mount" THEN Rows(c) ELSE txn[c].slotMount
           /\ txn'[c].spoolMount = IF NextLock(c) \in {"spool_mount", "article_mounts"}
                                   THEN Rows(c) ELSE txn[c].spoolMount
           /\ Rows(c) \subseteq Row
           /\ held' \in [Client -> SUBSET Row] /\ held'[c] = held[c] \cup Rows(c)
           /\ \A d \in Client : d # c => txn'[d] = txn[d] /\ held'[d] = held[d]
<1>1. txn[c] \in Txn /\ NextLock(c) \in Steps /\ Active(c)
  BY Types, NextLockIs DEF Advances
<1>2. /\ Rows(c) \subseteq Row
      /\ NextLock(c) \in {"slot_mount", "spool_mount", "article_mounts"} => Rows(c) \subseteq Mount
  BY <1>1, FoundRows DEF Rows, TypeOK
<1> DEFINE r == txn[c]
           n == r.at + 1
           a == IF NextLock(c) = "slot_mount" THEN Rows(c) ELSE r.slotMount
           b == IF NextLock(c) \in {"spool_mount", "article_mounts"} THEN Rows(c) ELSE r.spoolMount
           u == Advanced(r, n, a, b)
<1>3. r.slotMount \in SUBSET Mount /\ r.spoolMount \in SUBSET Mount /\ r.at \in Nat
  BY <1>1 DEF Txn
<1>4. a \in SUBSET Mount /\ b \in SUBSET Mount /\ n \in Nat /\ r \in Txn
  BY <1>1, <1>2, <1>3
<1>5. txn' = [txn EXCEPT ![c] = u]
  BY DEF Advances, Advanced
<1>6. /\ u \in Txn /\ u.at = n /\ u.slotMount = a /\ u.spoolMount = b
      /\ u.op = r.op /\ u.slot = r.slot /\ u.spool = r.spool /\ u.event = r.event
  <2> HIDE DEF r, n, a, b
  <2> QED BY <1>4, AdvancedTxn
<1>7. u # None
  <2> HIDE DEF u
  <2> QED BY <1>6, TxnNotNone
<1>8. txn'[c] = u /\ txn' \in [Client -> Txn \cup {None}] /\ \A d \in Client : d # c => txn'[d] = txn[d]
  <2> HIDE DEF u
  <2> QED BY <1>5, <1>6 DEF TypeOK
<1>9. /\ held' \in [Client -> SUBSET Row] /\ held'[c] = held[c] \cup Rows(c)
      /\ \A d \in Client : d # c => held'[d] = held[d]
  BY <1>2 DEF Advances, TypeOK
<1> HIDE DEF u
<1> QED BY <1>2, <1>3, <1>6, <1>7, <1>8, <1>9

-----------------------------------------------------------------------------
(* Types *)

\* Every step keeps TypeOK and the shape of the clients.
LEMMA TypeStep ==
    ASSUME TypeOK, ClientShape, [Next]_vars
    PROVE  TypeOK' /\ ClientShape'
<1>0. Slot \subseteq Client
  BY DEF Client
<1>1. CASE UNCHANGED vars
  BY <1>1 DEF vars, TypeOK, ClientShape, Active
<1>2. CASE TraysMove
  BY <1>2 DEF TraysMove, TypeOK, ClientShape, Active
<1>3. ASSUME NEW c \in Client, Begins(c) PROVE TypeOK' /\ ClientShape'
  <2>1. PICK op \in Op, s \in Slot, x \in Spool, e \in 0 .. MaxObservations :
           txn' = [txn EXCEPT ![c] = Begun(op, s, x, e)]
    BY <1>3 DEF Begins
  <2>2. Begun(op, s, x, e) \in Txn /\ Begun(op, s, x, e) # None /\ Begun(op, s, x, e).at = 1
    BY DEF Begun, Txn, None, Op
  <2>3. /\ txn' \in [Client -> Txn \cup {None}] /\ txn'[c] = Begun(op, s, x, e)
        /\ \A d \in Client : d # c => txn'[d] = txn[d]
    BY <2>1, <2>2 DEF TypeOK
  <2>4. waiting \in Seq({d \in Client : txn'[d] # None})
    <3>1. {d \in Client : txn[d] # None} \subseteq {d \in Client : txn'[d] # None}
      BY <2>2, <2>3
    <3> DEFINE A == {d \in Client : txn[d] # None}
               B == {d \in Client : txn'[d] # None}
    <3>2. waiting \in Seq(A)
      BY DEF TypeOK
    <3>3. A \subseteq B
      BY <3>1
    <3> HIDE DEF A, B
    <3>4. \A i \in 1 .. Len(waiting) : waiting[i] \in B
      BY <3>2, <3>3, ElementOfSeq
    <3>5. waiting \in Seq(B)
      BY <3>2, <3>4, SubSeqType
    <3> QED BY <3>5 DEF B
  <2>5. TypeOK'
    BY <1>3, <2>3, <2>4 DEF Begins, TypeOK
  <2>6. ClientShape'
    <3>1. \A d \in Client : d # c => (Active(d)' <=> Active(d))
      BY <2>3 DEF Active
    <3> QED BY <1>0, <1>3, <2>2, <2>3, <3>1 DEF Begins, ClientShape
  <2> QED BY <2>5, <2>6
<1>4. ASSUME NEW c \in Client, Wait(c) PROVE TypeOK' /\ ClientShape'
  <2>1. c \notin Queued /\ waiting' = Append(waiting, c) /\ txn[c] # None
    BY <1>4 DEF Wait, WaitsFor, Wants, Active
  <2> DEFINE A == {d \in Client : txn[d] # None}
  <2>2. waiting \in Seq(A) /\ c \in A
    BY <2>1 DEF TypeOK
  <2> HIDE DEF A
  <2>3. /\ waiting' \in Seq(A) /\ Len(waiting') = Len(waiting) + 1 /\ Len(waiting) \in Nat
        /\ DOMAIN waiting = 1 .. Len(waiting) /\ DOMAIN waiting' = 1 .. Len(waiting) + 1
        /\ \A i \in 1 .. Len(waiting) : waiting'[i] = waiting[i]
        /\ waiting'[Len(waiting) + 1] = c
    BY <2>1, <2>2, AppendProperties, LenProperties
  <2>4. \A i \in 1 .. Len(waiting) : waiting[i] # c
    BY <2>1, <2>3 DEF Queued
  <2>5. \A i, j \in DOMAIN waiting' : waiting'[i] = waiting'[j] => i = j
    BY <2>3, <2>4 DEF ClientShape
  <2>6. {d \in Client : txn'[d] # None} = A
    BY <1>4 DEF Wait, A
  <2> QED BY <1>4, <2>3, <2>5, <2>6 DEF Wait, TypeOK, ClientShape, Active
<1>5. ASSUME NEW c \in Client, Advances(c) PROVE TypeOK' /\ ClientShape'
  <2>1. Active(c)
    BY <1>5 DEF Advances
  <2>2. /\ txn' \in [Client -> Txn \cup {None}] /\ txn'[c] # None
        /\ txn'[c].at = txn[c].at + 1 /\ txn[c].at \in Nat
        /\ held' \in [Client -> SUBSET Row] /\ held'[c] = held[c] \cup Rows(c)
        /\ \A d \in Client : d # c => txn'[d] = txn[d] /\ held'[d] = held[d]
    BY <1>5, AdvancesEffect
  <2>6. /\ waiting' \in Seq({d \in Client : txn'[d] # None})
        /\ \A i, j \in DOMAIN waiting' : waiting'[i] = waiting'[j] => i = j
    <3> DEFINE A == {d \in Client : txn[d] # None}
    <3>1. /\ waiting' \in Seq(A \ {c})
          /\ \A i, j \in DOMAIN waiting' : waiting'[i] = waiting'[j] => i = j
      BY <1>5, LeavesEffect DEF Advances
    <3>2. {d \in Client : txn'[d] # None} = A
      BY <2>1, <2>2 DEF Active
    <3> HIDE DEF A
    <3>3. waiting' \in Seq(A)
      <4>1. \A i \in 1 .. Len(waiting') : waiting'[i] \in A
        BY <3>1, ElementOfSeq
      <4> QED BY <3>1, <4>1, SubSeqType
    <3> QED BY <3>1, <3>2, <3>3
  <2>7. held' \in [Client -> SUBSET Row] /\ \A d, e \in Client : d # e => held'[d] \cap held'[e] = {}
    <3>2. \A d \in Client : d # c => Rows(c) \cap held[d] = {}
      BY <1>5, <2>1 DEF Advances, WaitsFor, Wants, Rows
    <3> QED BY <2>2, <3>2 DEF TypeOK
  <2>8. TypeOK'
    BY <1>5, <2>2, <2>6, <2>7 DEF Advances, TypeOK
  <2>9. ClientShape'
    <3>1. \A d \in Client : (Active(d)' <=> Active(d)) /\ (Active(d) => txn'[d].at # 0)
      BY <2>1, <2>2 DEF Active, ClientShape
    <3> QED BY <1>0, <1>5, <2>6, <3>1 DEF Advances, ClientShape
  <2> QED BY <2>8, <2>9
<1>6. ASSUME NEW c \in Client, Active(c), Ending(c),
             mounts' \subseteq Mount, available' \subseteq Slot, active' \subseteq Spool, binned' \in BOOLEAN,
             UNCHANGED <<tray, clock, staffOps>>
      PROVE  TypeOK' /\ ClientShape'
  <2>1. PICK done \in BOOLEAN : Ends(c, done)
    BY <1>6 DEF Ending
  <2>2. /\ txn' \in [Client -> Txn \cup {None}] /\ txn'[c] = None
        /\ held' \in [Client -> SUBSET Row] /\ held'[c] = {}
        /\ \A d \in Client : d # c => txn'[d] = txn[d] /\ held'[d] = held[d]
        /\ waiting' \in Seq({d \in Client : txn'[d] # None})
        /\ \A i, j \in DOMAIN waiting' : waiting'[i] = waiting'[j] => i = j
        /\ queue' \in [Slot -> SUBSET Observation] /\ retried' \subseteq 0 .. MaxObservations
        /\ \A s \in Slot : s # c => queue'[s] = queue[s]
        /\ disturbed' \in BOOLEAN
    BY <1>6, <2>1, EndsEffect
  <2>3. \A d, e \in Client : d # e => held'[d] \cap held'[e] = {}
    BY <2>2 DEF TypeOK
  <2>4. TypeOK'
    BY <1>6, <2>2, <2>3 DEF TypeOK
  <2>5. ClientShape'
    BY <1>0, <2>2 DEF ClientShape, Active
  <2> QED BY <2>4, <2>5
<1>7. ASSUME NEW c \in Client, Commit(c) PROVE TypeOK' /\ ClientShape'
  <2>1. Active(c) /\ Ending(c) /\ UNCHANGED <<tray, clock, staffOps>>
    BY <1>7 DEF Commit, AtCommit, Ending
  <2>2. txn[c].slot \in Slot /\ txn[c].spool \in Spool /\ MountsAfter(txn[c]) \subseteq Mount
    BY <2>1, Types, MountsAfterType
  <2>3. mounts' \subseteq Mount /\ available' \subseteq Slot /\ active' \subseteq Spool /\ binned' \in BOOLEAN
    BY <1>7, <2>2 DEF Commit, TypeOK
  <2> QED BY <1>6, <2>1, <2>3
<1> QED BY <1>1, <1>2, <1>3, <1>4, <1>5, <1>6, <1>7, StepCases DEF TypeOK

-----------------------------------------------------------------------------
(* How far a transaction is *)

\* Who is past the mounts of a slot or a spool is past the slot or the spool.
LEMMA PassedOrder ==
    ASSUME TypeOK, NEW c \in Client
    PROVE  /\ Passed(c, "slot_mount") => Passed(c, "slot")
           /\ Passed(c, "spool_mount") => Passed(c, "spool")
<1> SUFFICES ASSUME Active(c)
             PROVE  /\ Passed(c, "slot_mount") => Passed(c, "slot")
                    /\ Passed(c, "spool_mount") => Passed(c, "spool")
  BY DEF Passed
<1> DEFINE L == Locks(txn[c].op)
<1>1. txn[c].op \in Op /\ txn[c].at \in Nat
  BY Types
<1>2. /\ Len(L) \in Nat
      /\ \A i \in 1 .. Len(L) : L[i] = "slot_mount" => \E j \in 1 .. Len(L) : j < i /\ L[j] = "slot"
      /\ \A i \in 1 .. Len(L) : L[i] = "spool_mount" => \E j \in 1 .. Len(L) : j < i /\ L[j] = "spool"
  BY <1>1, LockOrder
<1>3. \A i, j \in 1 .. Len(L) : j < i /\ i < txn[c].at => j < txn[c].at
  BY <1>1, <1>2
<1> HIDE DEF L
<1> QED BY <1>1, <1>2, <1>3 DEF Passed, L

\* Who commits is past all of its locking statements.
LEMMA PassedAll ==
    ASSUME TypeOK, NEW c \in Client, AtCommit(c)
    PROVE  /\ txn[c].op \in {"mount", "observe"} =>
                Passed(c, "slot_mount") /\ Passed(c, "spool_mount") /\ Passed(c, "spool")
           /\ txn[c].op = "retire" => Passed(c, "spool_mount") /\ Passed(c, "spool")
<1> DEFINE L == Locks(txn[c].op)
<1>1. Active(c) /\ txn[c].op \in Op /\ txn[c].at \in Nat /\ txn[c].at > Len(L)
  BY Types DEF AtCommit
<1>2. Len(L) \in Nat
  BY <1>1, LockOrder
<1>3. \A i \in 1 .. Len(L) : i < txn[c].at
  BY <1>1, <1>2
<1>4. /\ txn[c].op \in {"mount", "observe"} => Passed(c, "slot_mount") /\ Passed(c, "spool_mount")
      /\ txn[c].op = "retire" => Passed(c, "spool_mount")
  <2>1. /\ txn[c].op = "retire" => \E i \in 1 .. Len(L) : L[i] = "spool_mount"
        /\ txn[c].op \in {"mount", "observe"} =>
              /\ \E i \in 1 .. Len(L) : L[i] = "slot_mount"
              /\ \E i \in 1 .. Len(L) : L[i] = "spool_mount"
    BY <1>1, LockOrder
  <2> HIDE DEF L
  <2> QED BY <1>1, <1>3, <2>1 DEF Passed, L
<1> QED BY <1>4, PassedOrder

\* Who mounts and is past the mounts of the spool is ready to commit.
LEMMA SpoolMountLast ==
    ASSUME TypeOK, NEW c \in Client, Passed(c, "spool_mount"), txn[c].op \in {"mount", "observe"}
    PROVE  AtCommit(c)
<1> DEFINE L == Locks(txn[c].op)
<1>1. Active(c) /\ txn[c].op \in Op /\ txn[c].at \in Nat
  BY Types DEF Passed
<1>2. PICK i \in 1 .. Len(L) : i < txn[c].at /\ L[i] = "spool_mount"
  BY DEF Passed
<1>3. Len(L) \in Nat /\ i = Len(L)
  BY <1>1, <1>2, LockOrder
<1> QED BY <1>1, <1>2, <1>3 DEF AtCommit

\* A locking statement gets a transaction past that statement only.
LEMMA PassedNext ==
    ASSUME TypeOK, ClientShape, NEW c \in Client, Advances(c), NEW step
    PROVE  Passed(c, step)' => Passed(c, step) \/ step = NextLock(c)
<1> DEFINE L == Locks(txn[c].op)
<1>1. Active(c) /\ txn[c].at \in Nat /\ Len(L) \in Nat
  BY Types, LockOrder DEF Advances
<1>2. txn'[c].op = txn[c].op /\ txn'[c].at = txn[c].at + 1
  BY AdvancesEffect
<1>3. SUFFICES ASSUME NEW i \in 1 .. Len(L), i < txn[c].at + 1, L[i] = step
               PROVE  Passed(c, step) \/ step = NextLock(c)
  BY <1>2 DEF Passed
<1>4. i < txn[c].at \/ i = txn[c].at
  BY <1>1, <1>3
<1> QED BY <1>1, <1>3, <1>4 DEF Passed, NextLock

-----------------------------------------------------------------------------
(* Transactions *)

\* The step of another client keeps what holds of d, if it mounts nothing on a
\* row that d holds and retires no spool that d holds.
LEMMA ClientUntouched ==
    ASSUME TypeOK, NEW d \in Client, ClientInv(d), txn'[d] = txn[d], held[d] \subseteq held'[d],
           \A m \in mounts' \ mounts : m.slot \notin held[d] /\ m.spool \notin held[d],
           \A x \in held[d] : x \in active => x \in active'
    PROVE  ClientInv(d)'
<1>1. \A step : Passed(d, step)' <=> Passed(d, step)
  BY DEF Passed, Active
<1>2. /\ Passed(d, "slot_mount") => txn[d].slot \in held[d]
      /\ Passed(d, "spool_mount") => txn[d].spool \in held[d]
      /\ Passed(d, "spool") => txn[d].spool \in held[d]
  BY PassedOrder DEF ClientInv, RowsHeld
<1>3. RowsHeld(d)'
  BY <1>1 DEF ClientInv, RowsHeld
<1>4. MountsSeen(d)'
  BY <1>1, <1>2 DEF ClientInv, MountsSeen
<1>5. ManualSpared(d)'
  BY <1>1 DEF ClientInv, ManualSpared
<1>6. SpoolStaysActive(d)'
  BY <1>1, <1>2 DEF ClientInv, SpoolStaysActive
<1> QED BY <1>3, <1>4, <1>5, <1>6 DEF ClientInv

\* A transaction that is past nothing satisfies the invariant.
LEMMA ClientFresh ==
    ASSUME NEW c \in Client, \A step : ~ Passed(c, step)'
    PROVE  ClientInv(c)'
BY DEF ClientInv, RowsHeld, MountsSeen, ManualSpared, SpoolStaysActive

\* A locking statement and the check behind it keep the invariant of the
\* client.
LEMMA ClientAdvances ==
    ASSUME TypeOK, ClientShape, NEW c \in Client, ClientInv(c), Advances(c)
    PROVE  ClientInv(c)'
<1>0. /\ Active(c) /\ ~AtCommit(c) /\ GoesOn(txn[c], NextLock(c), Rows(c))
      /\ mounts' = mounts /\ active' = active
  BY DEF Advances
<1>1. /\ txn'[c].op = txn[c].op /\ txn'[c].slot = txn[c].slot /\ txn'[c].spool = txn[c].spool
      /\ txn'[c].slotMount = IF NextLock(c) = "slot_mount" THEN Rows(c) ELSE txn[c].slotMount
      /\ txn'[c].spoolMount = IF NextLock(c) \in {"spool_mount", "article_mounts"}
                              THEN Rows(c) ELSE txn[c].spoolMount
      /\ held'[c] = held[c] \cup Rows(c)
  BY AdvancesEffect
<1>2. \A step : Passed(c, step)' => Passed(c, step) \/ step = NextLock(c)
  BY PassedNext
<1>3. /\ NextLock(c) = "slot" => Rows(c) = {txn[c].slot}
      /\ NextLock(c) = "spool" => Rows(c) = {txn[c].spool}
      /\ NextLock(c) = "slot_mount" => Rows(c) = {m \in mounts : m.slot = txn[c].slot}
      /\ NextLock(c) = "spool_mount" => Rows(c) = {m \in mounts : m.spool = txn[c].spool}
      /\ NextLock(c) = "article_mounts" => Rows(c) = mounts
  <2>1. NextLock(c) \in Steps
    BY <1>0, NextLockIs
  <2> QED BY <1>0, <2>1, FoundRows DEF Rows
<1>4. txn[c].op \in {"mount", "observe"} => ~ Passed(c, "spool_mount")
  BY <1>0, SpoolMountLast
<1>5. /\ txn[c].op = "mount" => MountGoesOn(txn[c], NextLock(c), Rows(c))
      /\ txn[c].op = "observe" => ObserveGoesOn(txn[c], NextLock(c), Rows(c))
  BY <1>0 DEF GoesOn
<1>6. RowsHeld(c)'
  BY <1>1, <1>2, <1>3 DEF ClientInv, RowsHeld
<1>7. MountsSeen(c)'
  <2>1. Passed(c, "slot_mount")' =>
          /\ \A m \in mounts' : m.slot = txn'[c].slot => m \in txn'[c].slotMount
          /\ txn'[c].op = "mount" => txn'[c].slotMount = {}
    <3>1. CASE NextLock(c) = "slot_mount"
      BY <1>0, <1>1, <1>3, <1>5, <3>1 DEF MountGoesOn
    <3>2. CASE NextLock(c) # "slot_mount"
      BY <1>0, <1>1, <1>2, <3>2 DEF ClientInv, MountsSeen
    <3> QED BY <3>1, <3>2
  <2>2. Passed(c, "spool_mount")' =>
          /\ \A m \in mounts' : m.spool = txn'[c].spool => m \in txn'[c].spoolMount
          /\ txn'[c].op = "mount" => txn'[c].spoolMount = {}
    <3>1. CASE NextLock(c) = "spool_mount"
      BY <1>0, <1>1, <1>3, <1>5, <3>1 DEF MountGoesOn
    <3>2. CASE NextLock(c) # "spool_mount"
      <4>1. Passed(c, "spool_mount")' => Passed(c, "spool_mount")
        BY <1>2, <3>2
      <4>2. CASE NextLock(c) = "article_mounts"
        BY <1>0, <1>1, <1>3, <1>4, <4>1, <4>2
      <4>3. CASE NextLock(c) # "article_mounts"
        BY <1>0, <1>1, <3>2, <4>1, <4>3 DEF ClientInv, MountsSeen
      <4> QED BY <4>2, <4>3
    <3> QED BY <3>1, <3>2
  <2> QED BY <2>1, <2>2 DEF MountsSeen
<1>8. ManualSpared(c)'
  <2>1. SUFFICES ASSUME Passed(c, "spool_mount")', txn[c].op = "observe"
                 PROVE  \A m \in txn'[c].slotMount \cup txn'[c].spoolMount : m.source = "connector"
    BY <1>1 DEF ManualSpared
  <2>2. NextLock(c) = "spool_mount"
    BY <1>2, <1>4, <2>1
  <2>3. \A m \in Rows(c) \cup txn[c].slotMount : m.source = "connector"
    BY <1>5, <2>1, <2>2 DEF ObserveGoesOn
  <2> QED BY <1>1, <2>2, <2>3
<1>9. SpoolStaysActive(c)'
  BY <1>0, <1>1, <1>2, <1>5 DEF SpoolStaysActive, ClientInv, MountGoesOn, ObserveGoesOn
<1> QED BY <1>6, <1>7, <1>8, <1>9 DEF ClientInv

-----------------------------------------------------------------------------
(* Mounts *)

\* What a commit changes: a new mount is of a slot and a spool that c holds,
\* and the only one of either; a spool that is retired is held and has no
\* mount left; a manual mount is removed only by an unmount, an empty tray, a
\* retirement or the article's deletion.
LEMMA CommitMounts ==
    ASSUME TypeOK, NEW c \in Client, ClientInv(c), Commit(c)
    PROVE  /\ \A m \in mounts' \ mounts :
                /\ m.slot = txn[c].slot /\ m.spool = txn[c].spool /\ m.spool \in active
                /\ m.slot \in held[c] /\ m.spool \in held[c]
                /\ \A n \in mounts' : n.slot = m.slot \/ n.spool = m.spool => n = m
                /\ active' = active
           /\ \A x \in active \ active' :
                x = txn[c].spool /\ x \in held[c] /\ \A m \in mounts' : m.spool # x
           /\ \A m \in mounts \ mounts' : m.source = "manual" =>
                txn[c].op \in {"unmount", "empty", "retire", "delete_article"}
<1>1. /\ AtCommit(c) /\ Active(c) /\ mounts' = MountsAfter(txn[c])
      /\ active' = IF txn[c].op = "retire" THEN active \ {txn[c].spool}
                   ELSE IF txn[c].op = "restore" THEN active \cup {txn[c].spool} ELSE active
  BY DEF Commit, AtCommit
<1>2. txn[c].op \in Op /\ txn[c].slot \in Slot /\ txn[c].spool \in Spool
  BY <1>1, Types
<1>3. /\ txn[c].op \in {"mount", "observe"} =>
            Passed(c, "slot_mount") /\ Passed(c, "spool_mount") /\ Passed(c, "spool")
      /\ txn[c].op = "retire" => Passed(c, "spool_mount") /\ Passed(c, "spool")
      /\ Passed(c, "slot_mount") => Passed(c, "slot")
  BY <1>1, PassedAll, PassedOrder
<1>4. CASE txn[c].op = "mount"
  <2> DEFINE m == [slot |-> txn[c].slot, spool |-> txn[c].spool, source |-> "manual"]
  <2>1. mounts' = mounts \cup {m} /\ active' = active
    BY <1>1, <1>4 DEF MountsAfter
  <2>2. m.slot = txn[c].slot /\ m.spool = txn[c].spool
    OBVIOUS
  <2>3. txn[c].slot \in held[c] /\ txn[c].spool \in held[c] /\ txn[c].spool \in active
    BY <1>3, <1>4 DEF ClientInv, RowsHeld, SpoolStaysActive
  <2>4. \A n \in mounts : n.slot # txn[c].slot /\ n.spool # txn[c].spool
    BY <1>3, <1>4 DEF ClientInv, MountsSeen
  <2> HIDE DEF m
  <2> QED BY <2>1, <2>2, <2>3, <2>4
<1>5. CASE txn[c].op = "observe"
  <2> DEFINE m == [slot |-> txn[c].slot, spool |-> txn[c].spool, source |-> "connector"]
  <2>1. mounts' = (mounts \ (txn[c].slotMount \cup txn[c].spoolMount)) \cup {m} /\ active' = active
    BY <1>1, <1>5 DEF MountsAfter
  <2>2. m.slot = txn[c].slot /\ m.spool = txn[c].spool
    OBVIOUS
  <2>3. txn[c].slot \in held[c] /\ txn[c].spool \in held[c] /\ txn[c].spool \in active
    BY <1>3, <1>5 DEF ClientInv, RowsHeld, SpoolStaysActive
  <2>4. \A n \in mounts \ (txn[c].slotMount \cup txn[c].spoolMount) :
           n.slot # txn[c].slot /\ n.spool # txn[c].spool
    BY <1>3, <1>5 DEF ClientInv, MountsSeen
  <2>5. \A n \in txn[c].slotMount \cup txn[c].spoolMount : n.source = "connector"
    BY <1>3, <1>5 DEF ClientInv, ManualSpared
  <2> HIDE DEF m
  <2> QED BY <2>1, <2>2, <2>3, <2>4, <2>5
<1>6. CASE txn[c].op = "retire"
  <2>1. mounts' = mounts \ txn[c].spoolMount /\ active' = active \ {txn[c].spool}
    BY <1>1, <1>6 DEF MountsAfter
  <2>2. txn[c].spool \in held[c]
    BY <1>3, <1>6 DEF ClientInv, RowsHeld
  <2>3. \A m \in mounts : m.spool = txn[c].spool => m \in txn[c].spoolMount
    BY <1>3, <1>6 DEF ClientInv, MountsSeen
  <2> QED BY <1>6, <2>1, <2>2, <2>3
<1>7. CASE txn[c].op \in {"unmount", "empty", "delete_article"}
  <2>1. mounts' \subseteq mounts /\ active' = active
    BY <1>1, <1>7 DEF MountsAfter
  <2> QED BY <1>7, <2>1
<1>8. CASE txn[c].op \in {"slot_status", "restore", "restore_article"}
  <2>1. mounts' = mounts /\ active \subseteq active'
    BY <1>1, <1>8 DEF MountsAfter
  <2> QED BY <2>1
<1> QED BY <1>2, <1>4, <1>5, <1>6, <1>7, <1>8 DEF Op

\* The end of a transaction keeps the invariant of its client.
LEMMA EndingFresh ==
    ASSUME TypeOK, ClientShape, NEW c \in Client, Active(c), Ending(c)
    PROVE  ClientInv(c)' /\ \A d \in Client : d # c => txn'[d] = txn[d] /\ held'[d] = held[d]
<1>1. PICK done \in BOOLEAN : Ends(c, done)
  BY DEF Ending
<1>2. txn'[c] = None /\ \A d \in Client : d # c => txn'[d] = txn[d] /\ held'[d] = held[d]
  BY <1>1, EndsEffect
<1>3. \A step : ~ Passed(c, step)'
  BY <1>2 DEF Passed, Active
<1> QED BY <1>2, <1>3, ClientFresh

\* Every step keeps OneOpenMount and what holds of every transaction.
LEMMA ClientsStep ==
    ASSUME IndInv, [Next]_vars
    PROVE  OneOpenMount' /\ \A c \in Client : ClientInv(c)'
<1> USE DEF IndInv
<1>0. ASSUME NEW d \in Client, txn'[d] = txn[d], held'[d] = held[d], mounts' = mounts, active' = active
      PROVE  ClientInv(d)'
  <2>1. ClientInv(d)
    OBVIOUS
  <2> QED BY <1>0, <2>1, ClientUntouched
<1>1. CASE UNCHANGED vars
  BY <1>0, <1>1 DEF vars, OneOpenMount
<1>2. CASE TraysMove
  BY <1>0, <1>2 DEF TraysMove, OneOpenMount
<1>3. ASSUME NEW c \in Client, Begins(c) PROVE OneOpenMount' /\ \A d \in Client : ClientInv(d)'
  <2>1. PICK op \in Op, s \in Slot, x \in Spool, e \in 0 .. MaxObservations :
           txn' = [txn EXCEPT ![c] = Begun(op, s, x, e)]
    BY <1>3 DEF Begins
  <2>2. Begun(op, s, x, e).at = 1 /\ Begun(op, s, x, e).op = op
    BY DEF Begun
  <2>3. txn'[c] = Begun(op, s, x, e) /\ \A d \in Client : d # c => txn'[d] = txn[d]
    BY <2>1 DEF TypeOK
  <2>4. Len(Locks(op)) \in Nat
    BY LockOrder
  <2>5. \A step : ~ Passed(c, step)'
    BY <2>2, <2>3, <2>4 DEF Passed
  <2>6. ClientInv(c)'
    BY <2>5, ClientFresh
  <2>7. mounts' = mounts /\ active' = active /\ held' = held
    BY <1>3 DEF Begins
  <2> QED BY <1>0, <2>3, <2>6, <2>7 DEF OneOpenMount
<1>4. ASSUME NEW c \in Client, Wait(c) PROVE OneOpenMount' /\ \A d \in Client : ClientInv(d)'
  BY <1>0, <1>4 DEF Wait, OneOpenMount
<1>5. ASSUME NEW c \in Client, Advances(c) PROVE OneOpenMount' /\ \A d \in Client : ClientInv(d)'
  <2>1. mounts' = mounts /\ active' = active
    BY <1>5 DEF Advances
  <2>2. \A d \in Client : d # c => txn'[d] = txn[d] /\ held'[d] = held[d]
    BY <1>5, AdvancesEffect
  <2>3. ClientInv(c)'
    <3>1. ClientInv(c)
      OBVIOUS
    <3> QED BY <1>5, <3>1, ClientAdvances
  <2> QED BY <1>0, <2>1, <2>2, <2>3 DEF OneOpenMount
<1>6. ASSUME NEW c \in Client, Active(c), Ending(c),
             UNCHANGED <<mounts, available, active, binned, tray, clock, staffOps>>
      PROVE  OneOpenMount' /\ \A d \in Client : ClientInv(d)'
  <2>1. ClientInv(c)' /\ \A d \in Client : d # c => txn'[d] = txn[d] /\ held'[d] = held[d]
    BY <1>6, EndingFresh
  <2> QED BY <1>0, <1>6, <2>1 DEF OneOpenMount
<1>7. ASSUME NEW c \in Client, Commit(c) PROVE OneOpenMount' /\ \A d \in Client : ClientInv(d)'
  <2>1. Active(c) /\ Ending(c)
    BY <1>7 DEF Commit, AtCommit, Ending
  <2>2. ClientInv(c)' /\ \A d \in Client : d # c => txn'[d] = txn[d] /\ held'[d] = held[d]
    BY <2>1, EndingFresh
  <2>3. ClientInv(c)
    OBVIOUS
  <2>4. /\ \A m \in mounts' \ mounts :
              /\ m.spool \in active /\ m.slot \in held[c] /\ m.spool \in held[c]
              /\ \A n \in mounts' : n.slot = m.slot \/ n.spool = m.spool => n = m
              /\ active' = active
        /\ \A x \in active \ active' : x \in held[c] /\ \A m \in mounts' : m.spool # x
    BY <1>7, <2>3, CommitMounts
  <2>5. \A m, n \in mounts' : m # n => m.slot # n.slot /\ m.spool # n.spool
    BY <2>4 DEF OneOpenMount
  <2>6. \A m \in mounts' : m.spool \in active'
    <3> TAKE m \in mounts'
    <3>1. CASE m \in mounts
      BY <2>4, <3>1 DEF OneOpenMount
    <3>2. CASE m \notin mounts
      BY <2>4, <3>2
    <3> QED BY <3>1, <3>2
  <2>7. ASSUME NEW d \in Client, d # c PROVE ClientInv(d)'
    <3>1. held[c] \cap held[d] = {}
      BY <2>7 DEF TypeOK
    <3>2. /\ \A m \in mounts' \ mounts : m.slot \notin held[d] /\ m.spool \notin held[d]
          /\ \A x \in held[d] : x \in active => x \in active'
      BY <2>4, <3>1
    <3>3. ClientInv(d)
      OBVIOUS
    <3> QED BY <2>2, <2>7, <3>2, <3>3, ClientUntouched
  <2> QED BY <2>2, <2>5, <2>6, <2>7 DEF OneOpenMount
<1> QED BY <1>1, <1>2, <1>3, <1>4, <1>5, <1>6, <1>7, StepCases

\* The initial states satisfy the inductive invariant.
LEMMA InitInd ==
    ASSUME Init
    PROVE  IndInv
<1> USE SpoolAssumption
<1>1. /\ tray \in [Slot -> Spool \cup {NoSpool}]
      /\ \A s, t \in Slot : tray[s] = tray[t] /\ s # t => tray[s] = NoSpool
      /\ active \subseteq Spool /\ binned \in BOOLEAN /\ available = Slot
      /\ mounts = {[slot |-> s, spool |-> tray[s], source |-> "connector"] :
                     s \in {t \in Slot : tray[t] \in active /\ ~binned}}
      /\ txn = [c \in Client |-> None] /\ held = [c \in Client |-> {}] /\ waiting = <<>>
      /\ queue = [s \in Slot |-> {}] /\ retried = {}
      /\ clock = 0 /\ staffOps = 0 /\ disturbed \in BOOLEAN
  BY DEF Init
<1>2. mounts \subseteq Mount
  BY <1>1 DEF Mount
<1>3. OneOpenMount
  <2>1. \A m \in mounts : m.slot \in Slot /\ m = [slot |-> m.slot, spool |-> tray[m.slot], source |-> "connector"]
                          /\ m.spool = tray[m.slot] /\ m.spool \in active
    BY <1>1
  <2>2. \A m \in mounts : m.spool \in Spool
    BY <1>1, <2>1
  <2>3. \A m, n \in mounts : m # n => m.slot # n.slot /\ m.spool # n.spool
    BY <1>1, <2>1, <2>2
  <2> QED BY <2>1, <2>3 DEF OneOpenMount
<1>4. \A c \in Client : ~Active(c)
  BY <1>1 DEF Active
<1>5. ClientShape
  <2>1. DOMAIN waiting = {}
    BY <1>1
  <2>2. Slot \subseteq Client
    BY DEF Client
  <2> QED BY <1>4, <2>1, <2>2 DEF ClientShape
<1>6. \A c \in Client : ClientInv(c)
  BY <1>4 DEF ClientInv, RowsHeld, MountsSeen, ManualSpared, SpoolStaysActive, Passed
<1>7. TypeOK
  <2>1. waiting \in Seq({c \in Client : txn[c] # None})
    BY <1>1, EmptySeq
  <2>2. queue \in [Slot -> SUBSET Observation]
    BY <1>1
  <2> QED BY <1>1, <1>2, <2>1, <2>2 DEF TypeOK
<1> QED BY <1>3, <1>5, <1>6, <1>7 DEF IndInv

-----------------------------------------------------------------------------
(* Theorems *)

\* The inductive invariant always holds.
THEOREM IndInvCorrect == Spec => []IndInv
<1>1. Init => IndInv
  BY InitInd
<1>2. IndInv /\ [Next]_vars => IndInv'
  <2> SUFFICES ASSUME IndInv, [Next]_vars
               PROVE  IndInv'
    OBVIOUS
  <2>1. TypeOK' /\ ClientShape'
    BY TypeStep DEF IndInv
  <2>2. OneOpenMount' /\ \A c \in Client : ClientInv(c)'
    BY ClientsStep
  <2> QED BY <2>1, <2>2 DEF IndInv
<1> QED BY <1>1, <1>2, PTL DEF Spec

\* Mounts, transactions, locks and queues always have their types, and no row
\* is locked by two transactions (TypeOK).
THEOREM TypeCorrect == Spec => []TypeOK
<1>1. IndInv => TypeOK
  BY DEF IndInv
<1> QED BY <1>1, IndInvCorrect, PTL

\* A slot holds one spool, a spool is in one slot and a retired spool is in
\* none, without the unique indexes (OneOpenMount; MountSpool,
\* reconcileBambuSlotObservation, RetireSpool).
THEOREM MountsCorrect == Spec => []OneOpenMount
<1>1. IndInv => OneOpenMount
  BY DEF IndInv
<1> QED BY <1>1, IndInvCorrect, PTL

\* The step that ManualMountKept allows.
ManualStep ==
    \A m \in mounts \ mounts' :
       m.source = "manual" =>
         \E c \in Client : Active(c) /\ txn'[c] = None /\ txn[c].op \in {"unmount", "empty", "retire", "delete_article"}

\* No observation of a tag ends what staff mounted by hand, in the slot of the
\* observation or with its spool in another, also when it was mounted while the
\* observation waited for a lock. An observation of an empty tray does end it
\* (ManualMountKept, reconcileBambuSlotObservation).
THEOREM ManualCorrect == Spec => ManualMountKept
<1>1. IndInv /\ [Next]_vars => [ManualStep]_vars
  <2> SUFFICES ASSUME IndInv, [Next]_vars
               PROVE  ManualStep
    OBVIOUS
  <2> USE DEF IndInv
  <2>1. ASSUME NEW c \in Client, Commit(c) PROVE ManualStep
    <3>1. ClientInv(c)
      OBVIOUS
    <3>2. \A m \in mounts \ mounts' : m.source = "manual" =>
             txn[c].op \in {"unmount", "empty", "retire", "delete_article"}
      BY <2>1, <3>1, CommitMounts
    <3>3. Active(c) /\ txn'[c] = None
      <4>1. Active(c) /\ Ends(c, TRUE)
        BY <2>1 DEF Commit, AtCommit
      <4> QED BY <4>1, EndsEffect
    <3> QED BY <3>2, <3>3 DEF ManualStep
  <2>2. mounts' = mounts \/ \E c \in Client : Commit(c)
    BY StepCases DEF vars, TraysMove, Begins, Wait, Advances
  <2> QED BY <2>1, <2>2 DEF ManualStep
<1> QED BY <1>1, IndInvCorrect, PTL DEF Spec, ManualMountKept, ManualStep
-----------------------------------------------------------------------------
(* Mounts follow the trays *)

\* The observation that the transaction of slot s applies.
Reading(s) == [spool |-> IF txn[s].op = "empty" THEN NoSpool ELSE txn[s].spool, at |-> txn[s].event]

\* The transaction of a slot applies a pending observation of its connector,
\* and what it takes away is a mount of that slot or of that spool.
Reads(s) ==
    Active(s) =>
      /\ txn[s].slot = s /\ txn[s].op \in {"observe", "empty"}
      /\ Reading(s) \in queue[s]
      /\ \A m \in txn[s].slotMount : m.slot = s
      /\ \A m \in txn[s].spoolMount : m.spool = txn[s].spool

\* No observation is of a later time.
Past == \A s \in Slot : \A o \in queue[s] : o.at <= clock

\* A spool is in one tray.
TraysApart == \A s, t \in Slot : s # t /\ tray[s] = tray[t] => tray[s] = NoSpool

\* What nobody has changed while staff did nothing.
Untouched ==
    /\ available = Slot /\ active = Spool /\ ~binned
    /\ \A m \in mounts : m.source = "connector"
    /\ \A c \in Staff : ~Active(c)
    /\ \A s \in Slot : Active(s) => \A m \in txn[s].slotMount : m.source = "connector"

\* The newest pending observation of a slot is what is in its tray. It would
\* not be, once a newer one had been applied before an older one.
LastIsTray == \A s \in Slot : \A o \in queue[s] : (\A p \in queue[s] : p.at <= o.at) => o.spool = tray[s]

\* A spool seen in t that is in s by now came to s later, and s has yet to
\* report it. So no observation takes a spool from a slot that has reported
\* everything.
Vacated ==
    \A s, t \in Slot : \A o \in queue[t] :
      s # t /\ o.spool = tray[s] /\ tray[s] # NoSpool => \E p \in queue[s] : o.at < p.at

\* The mount of a slot is what is in its tray.
Followed(s) ==
    /\ \A m \in mounts : m.slot = s => m.spool = tray[s]
    /\ tray[s] # NoSpool => \E m \in mounts : m.slot = s

\* What holds of the observations, whatever happened.
Reported == (\A s \in Slot : Reads(s)) /\ Past /\ TraysApart

\* What holds while observations are applied in order and nobody interferes:
\* every slot on its own is followed once it has reported everything.
InStep == Untouched /\ LastIsTray /\ Vacated /\ \A s \in Slot : queue[s] = {} => Followed(s)

\* The inductive invariant about observations.
FollowInv == Reported /\ (~disturbed => InStep)

\* Times are numbers.
LEMMA Times ==
    ASSUME TypeOK
    PROVE  /\ clock \in Nat
           /\ \A s \in Slot : \A o \in queue[s] : o \in Observation /\ o.at \in Nat
<1>1. clock \in Nat
  BY SpoolAssumption DEF TypeOK
<1>2. \A s \in Slot : \A o \in queue[s] : o \in Observation
  BY DEF TypeOK
<1> QED BY <1>1, <1>2, SpoolAssumption DEF Observation

\* The observations of the slots after a change of the trays: none or one more
\* of every slot, all of them newer than those before.
Noted(now) ==
    /\ clock' \in Nat /\ clock <= clock'
    /\ \A s \in Slot :
         \/ queue'[s] = queue[s] /\ now[s] = tray[s]
         \/ \E o \in Observation : /\ queue'[s] = queue[s] \cup {o}
                                   /\ o.spool = now[s] /\ o.at <= clock' /\ o.at > clock

\* What a slot newly reports is what is in its tray now.
LEMMA NotedNew ==
    ASSUME TypeOK, Noted(tray'), NEW s \in Slot
    PROVE  /\ queue[s] \subseteq queue'[s]
           /\ \A o \in queue'[s] \ queue[s] : o.at \in Nat /\ o.at > clock /\ o.at <= clock' /\ o.spool = tray'[s]
           /\ queue'[s] = queue[s] => tray'[s] = tray[s] \/ \E o \in queue[s] : o.at > clock
<1>1. \A o \in Observation : o.at \in Nat
  BY SpoolAssumption DEF Observation
<1> QED BY <1>1 DEF Noted

\* A change of the trays keeps the order of observations.
LEMMA NotedOrder ==
    ASSUME TypeOK, Past, Noted(tray')
    PROVE  /\ Past'
           /\ LastIsTray => LastIsTray'
<1>1. clock \in Nat /\ clock' \in Nat /\ clock <= clock'
  BY Times DEF Noted
<1>2. ASSUME NEW s \in Slot
      PROVE  /\ \A o \in queue[s] : o.at \in Nat /\ o.at <= clock
             /\ queue[s] \subseteq queue'[s]
             /\ \A o \in queue'[s] \ queue[s] : o.at \in Nat /\ o.at > clock /\ o.at <= clock' /\ o.spool = tray'[s]
             /\ queue'[s] = queue[s] => tray'[s] = tray[s]
  <2>1. \A o \in queue[s] : o.at \in Nat /\ o.at <= clock
    BY Times DEF Past
  <2>2. ~ \E o \in queue[s] : o.at > clock
    BY <1>1, <2>1
  <2> QED BY <2>1, <2>2, NotedNew
<1>3. Past'
  <2> SUFFICES ASSUME NEW s \in Slot, NEW o \in queue'[s] PROVE o.at <= clock'
    BY DEF Past
  <2>1. CASE o \in queue[s]
    BY <1>1, <1>2, <2>1
  <2>2. CASE o \notin queue[s]
    BY <1>2, <2>2
  <2> QED BY <2>1, <2>2
<1>4. ASSUME LastIsTray PROVE LastIsTray'
  <2> SUFFICES ASSUME NEW s \in Slot, NEW o \in queue'[s], \A p \in queue'[s] : p.at <= o.at
               PROVE  o.spool = tray'[s]
    BY DEF LastIsTray
  <2>1. CASE o \notin queue[s]
    BY <1>2, <2>1
  <2>2. CASE o \in queue[s]
    <3>1. queue'[s] = queue[s]
      <4>1. ASSUME NEW p \in queue'[s], p \notin queue[s] PROVE FALSE
        BY <1>1, <1>2, <2>2, <4>1
      <4> QED BY <1>2, <4>1
    <3>2. \A p \in queue[s] : p.at <= o.at
      BY <3>1
    <3> QED BY <1>2, <1>4, <2>2, <3>1, <3>2 DEF LastIsTray
  <2> QED BY <2>1, <2>2
<1> QED BY <1>3, <1>4

\* What is newly seen in t is in no other tray, or in one that changed as
\* well, later.
LEMMA NotedVacated ==
    ASSUME TypeOK, Past, Vacated, Noted(tray'),
           \A s, t \in Slot : \A o \in queue'[t] \ queue[t] : s # t => tray'[s] = NoSpool \/ tray'[s] # o.spool
    PROVE  Vacated'
<1> SUFFICES ASSUME NEW s \in Slot, NEW t \in Slot, NEW o \in queue'[t],
                    s # t, o.spool = tray'[s], tray'[s] # NoSpool
             PROVE  \E p \in queue'[s] : o.at < p.at
  BY DEF Vacated
<1>1. o \in queue[t]
  OBVIOUS
<1>2. o.at \in Nat /\ o.at <= clock /\ clock \in Nat
  BY <1>1, Times DEF Past
<1>3. CASE queue'[s] = queue[s] /\ tray'[s] = tray[s]
  BY <1>1, <1>3 DEF Vacated
<1>4. ASSUME NEW p \in Observation, queue'[s] = queue[s] \cup {p}, p.at > clock
      PROVE  \E q \in queue'[s] : o.at < q.at
  <2>1. p.at \in Nat
    BY SpoolAssumption DEF Observation
  <2> QED BY <1>2, <1>4, <2>1
<1> QED BY <1>3, <1>4 DEF Noted

\* Every change of the trays keeps the invariant.
LEMMA TraysFollow ==
    ASSUME TypeOK, FollowInv, Noted(tray'), TraysApart',
           UNCHANGED <<mounts, available, active, binned, txn, disturbed>>,
           \A s, t \in Slot : \A o \in queue'[t] \ queue[t] : s # t => tray'[s] = NoSpool \/ tray'[s] # o.spool
    PROVE  FollowInv'
<1>1. ASSUME NEW s \in Slot PROVE Reads(s)'
  <2>1. Reads(s) /\ queue[s] \subseteq queue'[s]
    BY DEF FollowInv, Reported, Noted
  <2> QED BY <2>1 DEF Reads, Active, Reading
<1>2. Past'
  BY NotedOrder DEF FollowInv, Reported
<1>3. ASSUME ~disturbed' PROVE InStep'
  <2>1. InStep /\ Past
    BY <1>3 DEF FollowInv, Reported
  <2>2. Untouched'
    BY <2>1 DEF InStep, Untouched, Active
  <2>3. LastIsTray' /\ Vacated'
    BY <2>1, NotedOrder, NotedVacated DEF InStep
  <2>4. ASSUME NEW s \in Slot, queue'[s] = {} PROVE Followed(s)'
    <3>1. queue'[s] = queue[s] /\ tray'[s] = tray[s]
      BY <2>4 DEF Noted
    <3>2. Followed(s)
      BY <2>1, <2>4, <3>1 DEF InStep
    <3> QED BY <3>1, <3>2 DEF Followed
  <2> QED BY <2>2, <2>3, <2>4 DEF InStep
<1> QED BY <1>1, <1>2, <1>3 DEF FollowInv, Reported

\* A tray changes.
LEMMA TrayChangesFollow ==
    ASSUME TypeOK, FollowInv, NEW s \in Slot, NEW x \in Spool \cup {NoSpool}, TrayChanges(s, x)
    PROVE  FollowInv'
<1> DEFINE o == [spool |-> x, at |-> clock']
<1>1. clock \in Nat /\ clock' = clock + 1 /\ o \in Observation /\ o.spool = x /\ o.at = clock + 1
  <2>1. clock \in Nat /\ clock' = clock + 1 /\ clock' \in 1 .. MaxObservations
    BY SpoolAssumption DEF TrayChanges, TypeOK
  <2> QED BY <2>1 DEF Observation
<1>2. /\ tray' \in [Slot -> Spool \cup {NoSpool}] /\ tray'[s] = x
      /\ \A r \in Slot : r # s => tray'[r] = tray[r]
      /\ x # NoSpool => \A t \in Slot : tray[t] # x
  BY DEF TrayChanges, TypeOK
<1>3. /\ queue'[s] = queue[s] \cup {o}
      /\ \A r \in Slot : r # s => queue'[r] = queue[r]
  BY DEF TrayChanges, TypeOK
<1> HIDE DEF o
<1>4. Noted(tray')
  <2>1. clock' \in Nat /\ clock <= clock' /\ o.at <= clock' /\ o.at > clock
    BY <1>1
  <2>2. \A r \in Slot : r # s => queue'[r] = queue[r] /\ tray'[r] = tray[r]
    BY <1>2, <1>3
  <2>3. o \in Observation /\ queue'[s] = queue[s] \cup {o} /\ o.spool = tray'[s]
    BY <1>1, <1>2, <1>3
  <2> QED BY <2>1, <2>2, <2>3 DEF Noted
<1>5. TraysApart'
  <2>1. TraysApart
    BY DEF FollowInv, Reported
  <2> QED BY <1>2, <2>1 DEF TraysApart
<1>6. \A r, t \in Slot : \A p \in queue'[t] \ queue[t] : r # t => tray'[r] = NoSpool \/ tray'[r] # p.spool
  BY <1>1, <1>2, <1>3
<1> QED BY <1>4, <1>5, <1>6, TraysFollow DEF TrayChanges

\* Two spools are swapped.
LEMMA TraysSwappedFollow ==
    ASSUME TypeOK, FollowInv, NEW s \in Slot, NEW t \in Slot, TraysSwapped(s, t)
    PROVE  FollowInv'
<1> DEFINE o == [spool |-> tray[t], at |-> clock + 1]
           p == [spool |-> tray[s], at |-> clock + 2]
<1>1. /\ clock \in Nat /\ clock' = clock + 2
      /\ o \in Observation /\ o.spool = tray[t] /\ o.at = clock + 1
      /\ p \in Observation /\ p.spool = tray[s] /\ p.at = clock + 2
  <2>1. /\ clock \in Nat /\ clock' = clock + 2
        /\ clock + 1 \in 1 .. MaxObservations /\ clock + 2 \in 1 .. MaxObservations
    BY SpoolAssumption DEF TraysSwapped, TypeOK
  <2>2. tray[s] \in Spool \cup {NoSpool} /\ tray[t] \in Spool \cup {NoSpool}
    BY DEF TypeOK
  <2> QED BY <2>1, <2>2 DEF Observation
<1>2. /\ s # t /\ tray'[s] = tray[t] /\ tray'[t] = tray[s]
      /\ \A r \in Slot : r # s /\ r # t => tray'[r] = tray[r]
      /\ tray[s] # NoSpool /\ tray[t] # NoSpool
  BY DEF TraysSwapped, TypeOK
<1>3. /\ queue'[s] = queue[s] \cup {o} /\ queue'[t] = queue[t] \cup {p}
      /\ \A r \in Slot : r # s /\ r # t => queue'[r] = queue[r]
  BY <1>2 DEF TraysSwapped, TypeOK
<1> HIDE DEF o, p
<1>4. Noted(tray')
  <2>1. /\ clock' \in Nat /\ clock <= clock' /\ o.at <= clock' /\ o.at > clock
        /\ p.at <= clock' /\ p.at > clock
    BY <1>1
  <2>2. \A r \in Slot : r # s /\ r # t => queue'[r] = queue[r] /\ tray'[r] = tray[r]
    BY <1>2, <1>3
  <2>3. /\ o \in Observation /\ queue'[s] = queue[s] \cup {o} /\ o.spool = tray'[s]
        /\ p \in Observation /\ queue'[t] = queue[t] \cup {p} /\ p.spool = tray'[t]
    BY <1>1, <1>2, <1>3
  <2> QED BY <2>1, <2>2, <2>3 DEF Noted
<1>5. TraysApart'
  <2>1. TraysApart
    BY DEF FollowInv, Reported
  <2> QED BY <1>2, <2>1 DEF TraysApart
<1>6. ASSUME NEW r \in Slot, NEW u \in Slot, NEW q \in queue'[u] \ queue[u], r # u
      PROVE  tray'[r] = NoSpool \/ tray'[r] # q.spool
  <2>1. q.spool = tray'[u]
    BY <1>4, NotedNew
  <2> QED BY <1>5, <1>6, <2>1 DEF TraysApart
<1> QED BY <1>4, <1>5, <1>6, TraysFollow DEF TraysSwapped

\* A step that changes neither pending observations nor trays nor mounts.
Still ==
    /\ UNCHANGED <<mounts, tray, queue, clock>>
    /\ disturbed => disturbed'

LEMMA StillFollows ==
    ASSUME FollowInv, Still, \A s \in Slot : Reads(s)', ~disturbed' => Untouched'
    PROVE  FollowInv'
<1>1. Past' /\ TraysApart'
  BY DEF FollowInv, Reported, Still, Past, TraysApart
<1>2. ~disturbed' => InStep
  BY DEF FollowInv, Still
<1>3. ~disturbed' => LastIsTray' /\ Vacated' /\ \A s \in Slot : queue'[s] = {} => Followed(s)'
  BY <1>2 DEF InStep, Still, LastIsTray, Vacated, Followed
<1> QED BY <1>1, <1>3 DEF FollowInv, Reported, InStep

\* Who reads is undisturbed by the transactions of others.
LEMMA ReadsStays ==
    ASSUME NEW s \in Slot, Reads(s), txn'[s] = txn[s], queue'[s] = queue[s]
    PROVE  Reads(s)'
BY DEF Reads, Active, Reading

\* Staff begin: from now on nothing is expected of the mounts.
LEMMA BeginStaffFollows ==
    ASSUME TypeOK, FollowInv, NEW c \in Staff, NEW s \in Slot, NEW x \in Spool, NEW op \in Op, BeginStaff(c, op, s, x)
    PROVE  FollowInv'
<1>1. Still /\ disturbed'
  BY DEF BeginStaff, Still
<1>2. ASSUME NEW r \in Slot PROVE Reads(r)'
  <2>1. r # c /\ r \in Client
    BY SpoolAssumption DEF Client
  <2>2. txn'[r] = txn[r] /\ queue'[r] = queue[r]
    BY <2>1 DEF BeginStaff, TypeOK
  <2>3. Reads(r)
    BY DEF FollowInv, Reported
  <2> QED BY <2>2, <2>3, ReadsStays
<1> QED BY <1>1, <1>2, StillFollows

\* An observation is taken up.
LEMMA BeginObservationFollows ==
    ASSUME TypeOK, FollowInv, NEW s \in Slot, BeginObservation(s)
    PROVE  FollowInv'
<1>0. Slot \subseteq Client /\ Slot \cap Staff = {} /\ s \in Client
  BY SpoolAssumption DEF Client
<1>1. Still /\ disturbed' = disturbed /\ UNCHANGED <<available, active, binned>>
  BY DEF BeginObservation, Still
<1> DEFINE t(o) == IF o.spool = NoSpool THEN Begun("empty", s, AnySpool, o.at) ELSE Begun("observe", s, o.spool, o.at)
<1>2. PICK o \in queue[s] : txn' = [txn EXCEPT ![s] = t(o)]
  BY DEF BeginObservation
<1>3. txn'[s] = t(o) /\ \A c \in Client : c # s => txn'[c] = txn[c]
  BY <1>0, <1>2 DEF TypeOK
<1>4. /\ t(o).slot = s /\ t(o).slotMount = {} /\ t(o).spoolMount = {} /\ t(o).op \in {"observe", "empty"}
      /\ t(o).event = o.at
      /\ IF o.spool = NoSpool THEN t(o).op = "empty" ELSE t(o).op = "observe" /\ t(o).spool = o.spool
  BY DEF Begun
<1> HIDE DEF t
<1>5. queue' = queue
  BY <1>1 DEF Still
<1>6. ASSUME NEW r \in Slot PROVE Reads(r)'
  <2>1. CASE r = s
    <3>1. o \in Observation
      BY Times
    <3>2. o = [spool |-> o.spool, at |-> o.at]
      BY <3>1 DEF Observation
    <3>3. Reading(s)' = o
      BY <1>3, <1>4, <3>2 DEF Reading
    <3> QED BY <1>3, <1>4, <1>5, <2>1, <3>3 DEF Reads
  <2>2. CASE r # s
    <3>1. Reads(r) /\ txn'[r] = txn[r]
      BY <1>0, <1>3, <2>2 DEF FollowInv, Reported
    <3> QED BY <1>5, <3>1, ReadsStays
  <2> QED BY <2>1, <2>2
<1>7. ASSUME ~disturbed' PROVE Untouched'
  <2>1. Untouched
    BY <1>1, <1>7 DEF FollowInv, InStep
  <2>2. \A c \in Staff : txn'[c] = txn[c]
    BY <1>0, <1>3 DEF Client
  <2>3. \A c \in Staff : ~Active(c)'
    BY <2>1, <2>2 DEF Untouched, Active
  <2>4. \A r \in Slot : Active(r)' => \A m \in txn'[r].slotMount : m.source = "connector"
    BY <1>0, <1>3, <1>4, <2>1 DEF Untouched, Active
  <2> QED BY <1>1, <2>1, <2>3, <2>4 DEF Untouched, Still
<1> QED BY <1>1, <1>6, <1>7, StillFollows

\* An observation locks nothing but its slot, its spool and their mounts.
LEMMA ObservationLocks ==
    ASSUME NEW op \in {"observe", "empty"}
    PROVE  /\ \A i \in 1 .. Len(Locks(op)) : Locks(op)[i] # "article_mounts" /\ Locks(op)[i] # "article"
           /\ op = "empty" => Len(Locks(op)) = 2 /\ Locks(op)[2] = "slot_mount" /\ Locks(op)[1] = "slot"
<1>1. op = "observe" => Locks(op) = <<"slot", "spool", "slot_mount", "spool_mount">>
  BY DEF Locks, ObserveLocks
<1>2. op = "empty" => Locks(op) = <<"slot", "slot_mount">>
  BY DEF Locks, EmptyLocks
<1>3. ASSUME NEW L, L = <<"slot", "spool", "slot_mount", "spool_mount">>
      PROVE  \A i \in 1 .. Len(L) : L[i] # "article_mounts" /\ L[i] # "article"
  <2>1. Len(L) = 4 /\ L[1] = "slot" /\ L[2] = "spool" /\ L[3] = "slot_mount" /\ L[4] = "spool_mount"
    BY <1>3
  <2>2. \A i \in 1 .. 4 : i = 1 \/ i = 2 \/ i = 3 \/ i = 4
    OBVIOUS
  <2> QED BY <2>1, <2>2
<1> QED BY <1>1, <1>2, <1>3

\* A client's wait for a lock.
LEMMA WaitFollows ==
    ASSUME FollowInv, NEW c \in Client, Wait(c)
    PROVE  FollowInv'
<1>1. Still /\ disturbed' = disturbed /\ txn' = txn /\ UNCHANGED <<available, active, binned>>
  BY DEF Wait, Still
<1>2. \A s \in Slot : Reads(s)'
  BY <1>1 DEF FollowInv, Reported, Still, Reads, Reading, Active
<1>3. ~disturbed' => Untouched'
  BY <1>1 DEF FollowInv, InStep, Still, Untouched, Active
<1> QED BY <1>1, <1>2, <1>3, StillFollows

\* A locking statement that lets the transaction go on.
LEMMA AdvancesFollows ==
    ASSUME TypeOK, ClientShape, FollowInv, NEW c \in Client, Advances(c)
    PROVE  FollowInv'
<1>0. Slot \subseteq Client /\ Staff \subseteq Client
  BY DEF Client
<1>1. Still /\ disturbed' = disturbed /\ UNCHANGED <<available, active, binned, queue, mounts>>
  BY DEF Advances, Still
<1>2. /\ txn'[c] # None /\ Active(c)
      /\ txn'[c].op = txn[c].op /\ txn'[c].slot = txn[c].slot /\ txn'[c].spool = txn[c].spool
      /\ txn'[c].event = txn[c].event
      /\ txn'[c].slotMount = IF NextLock(c) = "slot_mount" THEN Rows(c) ELSE txn[c].slotMount
      /\ txn'[c].spoolMount = IF NextLock(c) \in {"spool_mount", "article_mounts"}
                              THEN Rows(c) ELSE txn[c].spoolMount
      /\ \A d \in Client : d # c => txn'[d] = txn[d]
  BY AdvancesEffect DEF Advances
<1>3. /\ NextLock(c) \in Steps
      /\ txn[c].at \in 1 .. Len(Locks(txn[c].op)) /\ NextLock(c) = Locks(txn[c].op)[txn[c].at]
  BY <1>2, NextLockIs DEF Advances
<1>4. /\ NextLock(c) = "slot_mount" => Rows(c) = {m \in mounts : m.slot = txn[c].slot}
      /\ NextLock(c) = "spool_mount" => Rows(c) = {m \in mounts : m.spool = txn[c].spool}
  BY <1>2, <1>3, FoundRows DEF Rows
<1>5. ASSUME NEW s \in Slot PROVE Reads(s)'
  <2>1. Reads(s)
    BY DEF FollowInv, Reported
  <2>2. CASE s = c
    <3>1. txn[c].op \in {"observe", "empty"}
      BY <1>2, <2>1, <2>2 DEF Reads
    <3>2. NextLock(c) # "article_mounts"
      BY <1>3, <3>1, ObservationLocks
    <3>3. /\ txn[c].slot = s
          /\ Reading(c) \in queue[s]
          /\ \A m \in txn[c].slotMount : m.slot = s
          /\ \A m \in txn[c].spoolMount : m.spool = txn[c].spool
      BY <1>2, <2>1, <2>2 DEF Reads
    <3>4. \A m \in txn'[c].slotMount : m.slot = s
      BY <1>2, <1>4, <3>3
    <3>5. \A m \in txn'[c].spoolMount : m.spool = txn[c].spool
      BY <1>2, <1>4, <3>2, <3>3
    <3>6. Reading(c)' = Reading(c)
      BY <1>2 DEF Reading
    <3> QED BY <1>1, <1>2, <2>2, <3>1, <3>3, <3>4, <3>5, <3>6 DEF Reads
  <2>3. CASE s # c
    BY <1>0, <1>1, <1>2, <2>1, <2>3, ReadsStays
  <2> QED BY <2>2, <2>3
<1>6. ASSUME ~disturbed' PROVE Untouched'
  <2>1. Untouched
    BY <1>1, <1>6 DEF FollowInv, InStep
  <2>2. c \in Slot
    BY <1>2, <2>1 DEF Untouched, Client
  <2>3. \A d \in Staff : ~Active(d)'
    BY <1>0, <1>2, <2>1 DEF Untouched, Active
  <2>4. \A m \in txn'[c].slotMount : m.source = "connector"
    BY <1>2, <1>4, <2>1, <2>2 DEF Untouched
  <2>5. \A s \in Slot : Active(s)' => \A m \in txn'[s].slotMount : m.source = "connector"
    BY <1>0, <1>2, <2>1, <2>4 DEF Untouched, Active
  <2> QED BY <1>1, <2>1, <2>3, <2>5 DEF Untouched
<1> QED BY <1>1, <1>5, <1>6, StillFollows

-----------------------------------------------------------------------------
(* The end of an observation's transaction *)

\* What is applied is the oldest of all that are pending: its slot holds what
\* it says, the other slots what they held before, except for its spool.
LEMMA AppliedInStep ==
    ASSUME TypeOK, NEW c \in Slot, Reading(c) \in queue[c], Applied(c), UNCHANGED <<tray, clock>>, ~disturbed',
           LastIsTray, Vacated, \A s \in Slot : queue[s] = {} => Followed(s),
           \A m \in mounts' : m.slot = c => m.spool = Reading(c).spool,
           Reading(c).spool # NoSpool => \E m \in mounts' : m.slot = c,
           \A m \in mounts' : m.slot # c => m \in mounts,
           \A m \in mounts : m.slot # c /\ m.spool # Reading(c).spool => m \in mounts'
    PROVE  LastIsTray' /\ Vacated' /\ \A s \in Slot : queue'[s] = {} => Followed(s)'
<1> DEFINE e == txn[c].event
           o == Reading(c)
<1>1. /\ queue'[c] = {p \in queue[c] : p.at # e}
      /\ \A s \in Slot : s # c => queue'[s] = queue[s]
      /\ \A s \in Slot : queue'[s] \subseteq queue[s]
      /\ \A s \in Slot : \A p \in queue[s] : ~ (p.at < e)
  BY DEF Applied, TypeOK
<1>2. o.at = e /\ o \in queue[c]
  BY DEF Reading
<1>3. e \in Nat /\ \A s \in Slot : \A p \in queue[s] : p.at \in Nat
  BY <1>2, Times
<1> HIDE DEF e, o
<1>4. LastIsTray'
  <2> SUFFICES ASSUME NEW s \in Slot, NEW p \in queue'[s], \A q \in queue'[s] : q.at <= p.at
               PROVE  p.spool = tray[s]
    BY DEF LastIsTray
  <2>1. CASE s # c
    BY <1>1, <2>1 DEF LastIsTray
  <2>2. CASE s = c
    <3>1. p \in queue[c] /\ p.at > e
      BY <1>1, <1>3, <2>2
    <3>2. \A q \in queue[c] : q.at <= p.at
      <4> TAKE q \in queue[c]
      <4>1. q.at = e \/ q \in queue'[c]
        BY <1>1
      <4> QED BY <1>3, <2>2, <3>1, <4>1
    <3> QED BY <2>2, <3>1, <3>2 DEF LastIsTray
  <2> QED BY <2>1, <2>2
<1>5. Vacated'
  <2> SUFFICES ASSUME NEW s \in Slot, NEW t \in Slot, NEW p \in queue'[t],
                      s # t, p.spool = tray[s], tray[s] # NoSpool
               PROVE  \E q \in queue'[s] : p.at < q.at
    BY DEF Vacated
  <2>1. p \in queue[t] /\ p.at \in Nat /\ ~ (p.at < e)
    BY <1>1, <1>3
  <2>2. PICK q \in queue[s] : p.at < q.at
    BY <2>1 DEF Vacated
  <2>3. q.at # e
    BY <1>3, <2>1, <2>2
  <2>4. q \in queue'[s]
    BY <1>1, <2>3
  <2> QED BY <2>2, <2>4
<1>6. ASSUME NEW s \in Slot, queue'[s] = {} PROVE Followed(s)'
  <2>1. CASE s = c
    <3>1. \A p \in queue[c] : p.at = e
      BY <1>1, <1>6, <2>1
    <3>2. \A p \in queue[c] : p.at <= o.at
      BY <1>2, <1>3, <3>1
    <3>3. o.spool = tray[c]
      BY <1>2, <3>2 DEF LastIsTray
    <3> QED BY <2>1, <3>3 DEF Followed, o
  <2>2. CASE s # c
    <3>1. queue[s] = {} /\ Followed(s)
      BY <1>1, <1>6, <2>2
    <3>2. tray[s] # NoSpool => tray[s] # o.spool
      BY <1>2, <2>2, <3>1 DEF Vacated
    <3> QED BY <2>2, <3>1, <3>2 DEF Followed, o
  <2> QED BY <2>1, <2>2
<1> QED BY <1>4, <1>5, <1>6

\* The end of a transaction leaves what the others read.
LEMMA EndsReads ==
    ASSUME TypeOK, ClientShape, Reported, NEW c \in Client, Active(c), NEW done \in BOOLEAN, Ends(c, done)
    PROVE  \A s \in Slot : Reads(s)'
<1> SUFFICES ASSUME NEW s \in Slot PROVE Reads(s)'
  OBVIOUS
<1>1. /\ txn'[c] = None
      /\ \A d \in Client : d # c => txn'[d] = txn[d]
      /\ \A r \in Slot : r # c => queue'[r] = queue[r]
  BY EndsEffect
<1>2. s \in Client /\ Reads(s)
  BY DEF Client, Reported
<1>3. CASE s = c
  BY <1>1, <1>3 DEF Reads, Active
<1>4. CASE s # c
  BY <1>1, <1>2, <1>4, ReadsStays
<1> QED BY <1>3, <1>4

\* The end of a transaction keeps what nobody has changed.
LEMMA EndsUntouched ==
    ASSUME TypeOK, ClientShape, Untouched, NEW c \in Client, Active(c), NEW done \in BOOLEAN, Ends(c, done),
           UNCHANGED <<available, active, binned>>, \A m \in mounts' : m.source = "connector"
    PROVE  Untouched'
<1>0. Slot \subseteq Client /\ Staff \subseteq Client
  BY DEF Client
<1>1. /\ txn'[c] = None
      /\ \A d \in Client : d # c => txn'[d] = txn[d]
  BY EndsEffect
<1>2. \A d \in Staff : ~Active(d)'
  BY <1>0, <1>1 DEF Untouched, Active
<1>3. \A s \in Slot : Active(s)' => \A m \in txn'[s].slotMount : m.source = "connector"
  BY <1>0, <1>1 DEF Untouched, Active
<1> QED BY <1>2, <1>3 DEF Untouched

\* A connector's transaction ends for good and nobody interferes: what the
\* mounts of its slot and of its spool must be.
LEMMA EndsInStep ==
    ASSUME TypeOK, ClientShape, FollowInv, NEW c \in Client, Active(c), Ends(c, TRUE), UNCHANGED <<tray, clock>>,
           \* without interference:
           ~disturbed =>
             /\ UNCHANGED <<available, active, binned>>
             /\ \A m \in mounts' : m.source = "connector"
             /\ \A m \in mounts' : m.slot = c => m.spool = Reading(c).spool
             /\ Reading(c).spool # NoSpool => \E m \in mounts' : m.slot = c
             /\ \A m \in mounts' : m.slot # c => m \in mounts
             /\ \A m \in mounts : m.slot # c /\ m.spool # Reading(c).spool => m \in mounts'
    PROVE  FollowInv'
<1>1. \A s \in Slot : Reads(s)'
  BY EndsReads DEF FollowInv
<1>2. /\ c \in Slot => Applied(c)
      /\ c \notin Slot => UNCHANGED <<queue, disturbed>>
  BY SpoolAssumption DEF Ends, Client
<1>3. disturbed => disturbed'
  BY <1>2 DEF Applied
<1>4. Past /\ TraysApart
  BY DEF FollowInv, Reported
<1>5. Past'
  <2>1. \A s \in Slot : queue'[s] \subseteq queue[s]
    BY <1>2 DEF Applied, TypeOK
  <2> QED BY <1>4, <2>1 DEF Past
<1>6. TraysApart'
  BY <1>4 DEF TraysApart
<1>7. ASSUME ~disturbed' PROVE InStep'
  <2>1. ~disturbed /\ InStep
    BY <1>3, <1>7 DEF FollowInv
  <2>2. c \in Slot
    BY <2>1 DEF InStep, Untouched, Client
  <2>3. Untouched'
    BY <2>1, EndsUntouched DEF InStep
  <2>4. Reading(c) \in queue[c]
    BY <2>2 DEF FollowInv, Reported, Reads
  <2>5. LastIsTray' /\ Vacated' /\ \A s \in Slot : queue'[s] = {} => Followed(s)'
    BY <1>2, <1>7, <2>1, <2>2, <2>4, AppliedInStep DEF InStep
  <2> QED BY <2>3, <2>5 DEF InStep
<1> QED BY <1>1, <1>5, <1>6, <1>7 DEF FollowInv, Reported

\* An observation that changes nothing: its spool is in its slot already, or
\* its slot is empty. That is the only reason not to go on while nobody
\* interferes.
LEMMA GivesUp ==
    ASSUME TypeOK, ClientShape, OneOpenMount, FollowInv, ~disturbed,
           NEW c \in Slot, Active(c), ~AtCommit(c), ~GoesOn(txn[c], NextLock(c), Rows(c))
    PROVE  /\ \A m \in mounts : m.slot = c => m.spool = Reading(c).spool
           /\ Reading(c).spool # NoSpool => \E m \in mounts : m.slot = c
<1>0. c \in Client
  BY DEF Client
<1>1. /\ Untouched
      /\ txn[c].slot = c
      /\ IF txn[c].op = "empty" THEN Reading(c).spool = NoSpool
         ELSE txn[c].op = "observe" /\ txn[c].spool = Reading(c).spool
  BY DEF FollowInv, InStep, Reported, Reads, Reading
<1>2. NextLock(c) \in Steps
  BY <1>0, NextLockIs
<1>3. /\ NextLock(c) = "slot_mount" => Rows(c) = {m \in mounts : m.slot = c}
      /\ NextLock(c) = "spool_mount" => Rows(c) = {m \in mounts : m.spool = txn[c].spool}
  BY <1>0, <1>1, <1>2, FoundRows DEF Rows
<1>4. txn[c].spool \in active
  <2>1. txn[c].spool \in Spool
    BY <1>0, Types
  <2> QED BY <1>1, <2>1 DEF Untouched
<1>5. CASE txn[c].op = "empty"
  <2>1. ~EmptyGoesOn(txn[c], NextLock(c), Rows(c))
    BY <1>5 DEF GoesOn
  <2>2. NextLock(c) = "slot_mount" /\ Rows(c) = {}
    BY <1>1, <2>1 DEF EmptyGoesOn, Untouched
  <2>3. Reading(c).spool = NoSpool
    BY <1>1, <1>5
  <2> QED BY <1>3, <2>2, <2>3
<1>6. CASE txn[c].op = "observe"
  <2>1. ~ObserveGoesOn(txn[c], NextLock(c), Rows(c))
    BY <1>6 DEF GoesOn
  <2>2. \/ NextLock(c) = "slot_mount" /\ \E m \in Rows(c) : m.spool = txn[c].spool
        \/ NextLock(c) = "spool_mount" /\ \E m \in Rows(c) \cup txn[c].slotMount : m.source # "connector"
    BY <1>1, <1>4, <2>1 DEF ObserveGoesOn, Untouched
  <2>3. NextLock(c) = "spool_mount" => \A m \in Rows(c) \cup txn[c].slotMount : m.source = "connector"
    BY <1>1, <1>3 DEF Untouched
  <2>4. PICK m \in mounts : m.slot = c /\ m.spool = txn[c].spool
    BY <1>3, <2>2, <2>3
  <2>5. txn[c].spool = Reading(c).spool
    BY <1>1, <1>6
  <2> QED BY <2>4, <2>5 DEF OneOpenMount
<1> QED BY <1>1, <1>5, <1>6

\* A locking statement after which the transaction does not go on.
LEMMA GivesUpFollows ==
    ASSUME IndInv, FollowInv, NEW c \in Client, Active(c), ~AtCommit(c), ~GoesOn(txn[c], NextLock(c), Rows(c)),
           Ends(c, TRUE), UNCHANGED <<mounts, available, active, binned, tray, clock, staffOps>>
    PROVE  FollowInv'
<1>1. TypeOK /\ ClientShape /\ OneOpenMount
  BY DEF IndInv
<1>2. ASSUME ~disturbed
      PROVE  /\ \A m \in mounts : m.source = "connector"
             /\ \A m \in mounts : m.slot = c => m.spool = Reading(c).spool
             /\ Reading(c).spool # NoSpool => \E m \in mounts : m.slot = c
  <2>1. Untouched
    BY <1>2 DEF FollowInv, InStep
  <2>2. c \in Slot
    BY <2>1 DEF Untouched, Client
  <2> QED BY <1>1, <1>2, <2>1, <2>2, GivesUp DEF Untouched
<1> QED BY <1>1, <1>2, EndsInStep

\* The victim of a deadlock comes again.
LEMMA VictimFollows ==
    ASSUME TypeOK, ClientShape, FollowInv, NEW c \in Client, Active(c), Ends(c, FALSE),
           UNCHANGED <<mounts, available, active, binned, tray, clock, staffOps>>
    PROVE  FollowInv'
<1>1. Still /\ disturbed' = disturbed
  BY DEF Still, Ends, Retried
<1>2. \A s \in Slot : Reads(s)'
  BY EndsReads DEF FollowInv
<1>3. ~disturbed' => Untouched'
  <2>1. ASSUME ~disturbed PROVE Untouched /\ \A m \in mounts : m.source = "connector"
    BY <2>1 DEF FollowInv, InStep, Untouched
  <2> QED BY <1>1, <2>1, EndsUntouched
<1> QED BY <1>1, <1>2, <1>3, StillFollows

\* What the commit of an observation makes of the mounts.
LEMMA CommitFollows ==
    ASSUME IndInv, FollowInv, NEW c \in Client, Commit(c)
    PROVE  FollowInv'
<1>1. TypeOK /\ ClientShape /\ OneOpenMount /\ ClientInv(c)
  BY DEF IndInv
<1>2. /\ AtCommit(c) /\ Active(c) /\ Ends(c, TRUE) /\ UNCHANGED <<tray, clock>>
      /\ mounts' = MountsAfter(txn[c])
      /\ txn[c].op \notin {"retire", "restore"} => active' = active
      /\ txn[c].op \notin {"delete_article", "restore_article"} => binned' = binned
      /\ txn[c].op # "slot_status" => available' = available
  BY DEF Commit, AtCommit
<1>3. ASSUME ~disturbed
      PROVE  /\ UNCHANGED <<available, active, binned>>
             /\ \A m \in mounts' : m.source = "connector"
             /\ \A m \in mounts' : m.slot = c => m.spool = Reading(c).spool
             /\ Reading(c).spool # NoSpool => \E m \in mounts' : m.slot = c
             /\ \A m \in mounts' : m.slot # c => m \in mounts
             /\ \A m \in mounts : m.slot # c /\ m.spool # Reading(c).spool => m \in mounts'
  <2>1. Untouched
    BY <1>3 DEF FollowInv, InStep
  <2>2. c \in Slot
    BY <1>2, <2>1 DEF Untouched, Client
  <2>3. /\ txn[c].slot = c
        /\ IF txn[c].op = "empty" THEN Reading(c).spool = NoSpool
           ELSE txn[c].op = "observe" /\ txn[c].spool = Reading(c).spool /\ txn[c].spool # NoSpool
        /\ \A m \in txn[c].slotMount : m.slot = c
        /\ \A m \in txn[c].spoolMount : m.spool = txn[c].spool
    <3>1. txn[c].spool # NoSpool
      BY <1>1, <1>2, Types, SpoolAssumption
    <3> QED BY <1>2, <2>2, <3>1 DEF FollowInv, Reported, Reads, Reading
  <2>4. CASE txn[c].op = "empty"
    <3>1. Passed(c, "slot_mount")
      <4>1. Len(Locks("empty")) = 2 /\ Locks("empty")[2] = "slot_mount"
        BY ObservationLocks
      <4>2. 2 \in 1 .. Len(Locks(txn[c].op)) /\ Locks(txn[c].op)[2] = "slot_mount" /\ 2 < txn[c].at
        <5>1. txn[c].at > 2
          BY <1>2, <2>4, <4>1 DEF AtCommit
        <5> QED BY <1>1, <1>2, <2>4, <4>1, <5>1, Types
      <4> QED BY <1>2, <4>2 DEF Passed
    <3>2. \A m \in mounts : m.slot = c => m \in txn[c].slotMount
      BY <1>1, <2>3, <3>1 DEF ClientInv, MountsSeen
    <3>3. mounts' = mounts \ txn[c].slotMount
      BY <1>2, <2>4 DEF MountsAfter
    <3>4. UNCHANGED <<available, active, binned>>
      BY <1>2, <2>4
    <3>5. Reading(c).spool = NoSpool
      BY <2>3, <2>4
    <3> QED BY <2>1, <2>3, <3>2, <3>3, <3>4, <3>5 DEF Untouched
  <2>5. CASE txn[c].op = "observe"
    <3>1. Passed(c, "slot_mount")
      BY <1>1, <1>2, <2>5, PassedAll
    <3>2. \A m \in mounts : m.slot = c => m \in txn[c].slotMount
      BY <1>1, <2>3, <3>1 DEF ClientInv, MountsSeen
    <3> DEFINE n == [slot |-> c, spool |-> txn[c].spool, source |-> "connector"]
    <3>3. mounts' = (mounts \ (txn[c].slotMount \cup txn[c].spoolMount)) \cup {n}
      BY <1>2, <2>3, <2>5 DEF MountsAfter
    <3>4. UNCHANGED <<available, active, binned>>
      BY <1>2, <2>5
    <3>5. Reading(c).spool # NoSpool /\ txn[c].spool = Reading(c).spool
      BY <2>3, <2>5
    <3>6. n.slot = c /\ n.spool = txn[c].spool /\ n.source = "connector"
      OBVIOUS
    <3> HIDE DEF n
    <3> QED BY <2>1, <2>3, <3>2, <3>3, <3>4, <3>5, <3>6 DEF Untouched
  <2> QED BY <2>3, <2>4, <2>5
<1> QED BY <1>1, <1>2, <1>3, EndsInStep

-----------------------------------------------------------------------------
(* The theorem *)

\* Every step keeps the invariant about observations.
LEMMA FollowStep ==
    ASSUME IndInv, FollowInv, [Next]_vars
    PROVE  FollowInv'
<1>0. TypeOK /\ ClientShape
  BY DEF IndInv
<1>1. CASE UNCHANGED vars
  BY <1>1 DEF vars, FollowInv, Reported, InStep, Reads, Reading, Past, LastIsTray, TraysApart,
              Untouched, Vacated, Followed, Active
<1>2. ASSUME NEW s \in Slot, NEW x \in Spool \cup {NoSpool}, TrayChanges(s, x) PROVE FollowInv'
  BY <1>0, <1>2, TrayChangesFollow
<1>3. ASSUME NEW s \in Slot, NEW t \in Slot, TraysSwapped(s, t) PROVE FollowInv'
  BY <1>0, <1>3, TraysSwappedFollow
<1>4. ASSUME NEW c \in Staff, NEW s \in Slot, NEW x \in Spool, NEW op \in Op \ {"observe", "empty"},
             BeginStaff(c, op, s, x)
      PROVE  FollowInv'
  BY <1>0, <1>4, BeginStaffFollows
<1>5. ASSUME NEW s \in Slot, BeginObservation(s) PROVE FollowInv'
  BY <1>0, <1>5, BeginObservationFollows
<1>6. ASSUME NEW c \in Client, Step(c) PROVE FollowInv'
  <2>1. CASE Wait(c)
    BY <2>1, WaitFollows
  <2>2. CASE Lock(c)
    <3>1. \/ Advances(c)
          \/ /\ Active(c) /\ ~AtCommit(c) /\ ~GoesOn(txn[c], NextLock(c), Rows(c)) /\ Ends(c, TRUE)
             /\ UNCHANGED <<mounts, available, active, binned, tray, clock, staffOps>>
      BY <2>2 DEF Lock, Advances, Rows
    <3> QED BY <1>0, <3>1, AdvancesFollows, GivesUpFollows
  <2>3. CASE Commit(c)
    BY <2>3, CommitFollows
  <2>4. CASE DeadlockVictim(c)
    <3>1. Ends(c, FALSE) /\ UNCHANGED <<mounts, available, active, binned, tray, clock, staffOps>> /\ c \in Queued
      BY <2>4 DEF DeadlockVictim
    <3>2. Active(c)
      <4>1. waiting \in Seq({d \in Client : txn[d] # None})
        BY <1>0 DEF TypeOK
      <4>2. \A i \in DOMAIN waiting : waiting[i] \in {d \in Client : txn[d] # None}
        BY <4>1, ElementOfSeq, LenProperties
      <4> QED BY <3>1, <4>2 DEF Queued, Active
    <3> QED BY <1>0, <3>1, <3>2, VictimFollows
  <2> QED BY <1>6, <2>1, <2>2, <2>3, <2>4 DEF Step
<1> QED BY <1>1, <1>2, <1>3, <1>4, <1>5, <1>6 DEF Next

\* At first nothing is observed and Core has followed every tray, unless a
\* spool is retired or the article is in the bin.
LEMMA InitFollows ==
    ASSUME Init
    PROVE  FollowInv
<1> USE SpoolAssumption
<1>1. /\ tray \in [Slot -> Spool \cup {NoSpool}]
      /\ \A s, t \in Slot : tray[s] = tray[t] /\ s # t => tray[s] = NoSpool
      /\ mounts = {[slot |-> s, spool |-> tray[s], source |-> "connector"] :
                     s \in {t \in Slot : tray[t] \in active /\ ~binned}}
      /\ available = Slot /\ queue = [s \in Slot |-> {}] /\ disturbed = (binned \/ active # Spool)
      /\ \A c \in Client : ~Active(c)
      /\ Slot \subseteq Client /\ Staff \subseteq Client
  BY DEF Init, Active, Client
<1>2. \A s \in Slot : queue[s] = {}
  BY <1>1
<1>3. Reported
  BY <1>1, <1>2 DEF Reported, Reads, Past, TraysApart
<1>4. ASSUME ~disturbed PROVE InStep
  <2>1. active = Spool /\ ~binned
    BY <1>1, <1>4
  <2>2. \A m \in mounts : m.source = "connector" /\ m.spool = tray[m.slot]
    BY <1>1
  <2>3. \A s \in Slot : tray[s] # NoSpool => \E m \in mounts : m.slot = s
    <3> SUFFICES ASSUME NEW s \in Slot, tray[s] # NoSpool PROVE \E m \in mounts : m.slot = s
      OBVIOUS
    <3>1. [slot |-> s, spool |-> tray[s], source |-> "connector"] \in mounts
      BY <1>1, <2>1
    <3> QED BY <3>1
  <2>4. Untouched
    BY <1>1, <2>1, <2>2 DEF Untouched
  <2>5. LastIsTray /\ Vacated
    BY <1>2 DEF LastIsTray, Vacated
  <2> QED BY <2>2, <2>3, <2>4, <2>5 DEF InStep, Followed
<1> QED BY <1>3, <1>4 DEF FollowInv

\* Once a slot has reported everything its mount is what is in its tray, as
\* long as staff have not interfered and every observation was applied while
\* no older one was pending. Until then what is pending explains the rest
\* (FollowInv; reconcileBambuSlotObservation).
THEOREM FollowCorrect == Spec => []FollowInv
<1>1. Init => FollowInv
  BY InitFollows
<1>2. IndInv /\ FollowInv /\ [Next]_vars => FollowInv'
  BY FollowStep
<1> QED BY <1>1, <1>2, IndInvCorrect, PTL DEF Spec

\* Once every observation is applied the mounts are what the trays hold, for
\* any number of printers that swap spools, under one condition (~disturbed):
\* staff have not interfered, and no observation was applied while an older
\* one was pending, of another printer or, given a retry receipt, of its own.
\* Deadlocks in which the newer observation is ended are so covered; after one
\* in which the older one is ended, nothing is claimed (MountsFollowTrays;
\* reconcileBambuSlotObservation).
THEOREM TraysCorrect == Spec => []MountsFollowTrays
<1>1. FollowInv /\ IndInv => MountsFollowTrays
  <2> SUFFICES ASSUME FollowInv, IndInv, ~disturbed, NEW s \in Slot, queue[s] = {}
               PROVE  {m.spool : m \in {n \in mounts : n.slot = s}} = {tray[s]} \ {NoSpool}
    BY DEF MountsFollowTrays
  <2>1. Followed(s)
    BY DEF FollowInv, InStep
  <2>2. \A m \in mounts : m.spool \in Spool
    BY DEF IndInv, TypeOK, Mount
  <2>3. \A m \in mounts : m.slot = s => m.spool = tray[s] /\ tray[s] # NoSpool
    BY <2>1, <2>2, SpoolAssumption DEF Followed
  <2> QED BY <2>1, <2>3 DEF Followed
<1> QED BY <1>1, FollowCorrect, IndInvCorrect, PTL
=============================================================================
