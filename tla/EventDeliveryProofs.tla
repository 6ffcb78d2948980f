------------------------ MODULE EventDeliveryProofs ------------------------
(***************************************************************************)
(* Proofs about EventDelivery for every set of events and assignments and  *)
(* every bound.                                                            *)
(***************************************************************************)
EXTENDS EventDelivery, FiniteSetTheorems, NumberFacts, TLAPS

-----------------------------------------------------------------------------
(* renumberBehindCore.                                                     *)

\* The numbers renumberBehindCore hands out start at the larger of the two
\* counters, stay below the new counter and differ from each other.
LEMMA RanksDistinct ==
    ASSUME NEW st \in Store, SequencesUnique(st), NEW a \in Assignment, NEW c \in Nat
    PROVE  LET B == Behind(st, a, c)
               Rank(f) == Cardinality({g \in B : Before(st, g, f)})
           IN  /\ Cardinality(B) \in Nat
               /\ \A f \in B : Rank(f) \in Nat /\ Rank(f) < Cardinality(B)
               /\ \A f, g \in B : Rank(f) = Rank(g) => f = g
<1> DEFINE B == Behind(st, a, c)
           Lower(f) == {g \in B : Before(st, g, f)}
<1>1. IsFiniteSet(B) /\ Cardinality(B) \in Nat
  BY EventFinite, FS_Subset, FS_CardinalityType DEF Behind
<1>2. \A f \in B : Cardinality(Lower(f)) \in Nat /\ Cardinality(Lower(f)) < Cardinality(B)
  <2> TAKE f \in B
  <2>1. Lower(f) \subseteq B /\ Lower(f) # B
    BY DEF Before, Behind, Store
  <2> QED BY <1>1, <2>1, FS_Subset, FS_CardinalityType
<1>3. \A f, g \in B : Before(st, f, g) => Cardinality(Lower(f)) < Cardinality(Lower(g))
  <2> SUFFICES ASSUME NEW f \in B, NEW g \in B, Before(st, f, g)
               PROVE  Cardinality(Lower(f)) < Cardinality(Lower(g))
    OBVIOUS
  <2>1. Lower(f) \subseteq Lower(g)
    BY DEF Before, Behind, Store
  <2>2. f \in Lower(g) /\ f \notin Lower(f)
    BY DEF Before, Behind, Store
  <2>3. IsFiniteSet(Lower(g))
    BY <1>1, FS_Subset
  <2> HIDE DEF Lower
  <2> QED BY <2>1, <2>2, <2>3, FS_Subset, FS_CardinalityType
<1>4. \A f, g \in B : f # g => Before(st, f, g) \/ Before(st, g, f)
  BY DEF Before, Behind, Store, SequencesUnique, Rows
<1> HIDE DEF Lower, B
<1>5. \A f, g \in B : Cardinality(Lower(f)) = Cardinality(Lower(g)) => f = g
  BY <1>2, <1>3, <1>4
<1> QED BY <1>1, <1>2, <1>5 DEF Lower, B

-----------------------------------------------------------------------------
(* Applying receipts.                                                      *)

\* A store st that applying truthful receipts can lead to from st0.
Follows(st0, st) ==
    /\ st \in Store
    /\ SequencesUnique(st)
    /\ st.asg = st0.asg
    /\ \A e \in Event :
          \/ st.status[e] = st0.status[e]
          \/ /\ e \in Rows(st0)
             /\ \/ st.status[e] = "deleted" /\ HeldByCore(e)
                \/ st.status[e] = "quarantined" /\ (e \in Refused \/ HeldByCore(e))

\* renumberBehindCore keeps the table's type and its sequences unique and
\* below the counter, and moves no event to another state.
LEMMA RenumberedOK ==
    ASSUME NEW st \in Store, SequencesUnique(st), NEW a \in Assignment, NEW c \in Nat
    PROVE  /\ Renumbered(st, a, c) \in Store
           /\ SequencesUnique(Renumbered(st, a, c))
           /\ Renumbered(st, a, c).asg = st.asg
           /\ Renumbered(st, a, c).status = st.status
<1> DEFINE B == Behind(st, a, c)
           Rank(f) == Cardinality({g \in B : Before(st, g, f)})
           first == Larger(st.next[a], c)
           new == Renumbered(st, a, c)
           newSeq == [f \in Event |-> IF f \in B THEN first + Rank(f) ELSE st.seq[f]]
           newNext == [st.next EXCEPT ![a] = first + Cardinality(B)]
<1>1. /\ Cardinality(B) \in Nat
      /\ \A f \in B : Rank(f) \in Nat /\ Rank(f) < Cardinality(B)
      /\ \A f, g \in B : Rank(f) = Rank(g) => f = g
  BY RanksDistinct
<1>2. first \in Nat /\ st.next[a] <= first /\ c <= first
  BY DEF Store, Larger
<1>3. B \subseteq {e \in Rows(st) : st.asg[e] = a}
  BY DEF Behind, Rows
<1>4. /\ st.status \in [Event -> Status] /\ st.asg \in [Event -> Assignment]
      /\ st.seq \in [Event -> Nat] /\ st.created \in [Event -> Nat]
      /\ st.due \in [Event -> BOOLEAN] /\ st.next \in [Assignment -> Nat]
  BY DEF Store
<1>5. /\ new.status = st.status /\ new.asg = st.asg /\ new.created = st.created
      /\ new.seq = newSeq /\ new.next = newNext
      /\ new.due = [f \in Event |-> f \in B \/ st.due[f]]
      /\ new = [status |-> st.status, asg |-> st.asg, seq |-> newSeq, created |-> st.created,
                due |-> [f \in Event |-> f \in B \/ st.due[f]], next |-> newNext]
  <2>1. new = [st EXCEPT !.seq = newSeq, !.due = [f \in Event |-> f \in B \/ st.due[f]],
                         !.next = newNext]
    BY DEF Renumbered
  <2>2. st = [status |-> st.status, asg |-> st.asg, seq |-> st.seq, created |-> st.created,
              due |-> st.due, next |-> st.next]
    BY DEF Store
  <2> HIDE DEF new, newSeq, newNext, B
  <2> QED BY <2>1, <2>2
<1> HIDE DEF Rank, B, first
<1>6. newSeq \in [Event -> Nat]
  BY <1>1, <1>2, <1>4
<1>7. newNext \in [Assignment -> Nat]
  BY <1>1, <1>2, <1>4
<1>8. new \in Store
  <2>1. [f \in Event |-> f \in B \/ st.due[f]] \in [Event -> BOOLEAN]
    BY <1>4, Zenon
  <2> HIDE DEF newSeq, newNext, new
  <2> QED BY <1>4, <1>5, <1>6, <1>7, <2>1 DEF Store
<1>9. SequencesUnique(new)
  <2>1. Rows(new) = Rows(st)
    BY <1>5 DEF Rows
  <2>2. \A e \in Rows(st) : e \in Event /\ st.asg[e] \in Assignment /\ st.seq[e] \in Nat
    BY <1>4 DEF Rows
  <2>3. \A e \in Rows(st) : st.seq[e] < st.next[st.asg[e]]
    BY DEF SequencesUnique
  <2>4. \A e, f \in Rows(st) : st.asg[e] = st.asg[f] /\ st.seq[e] = st.seq[f] => e = f
    BY DEF SequencesUnique
  <2>5. ASSUME NEW e \in Rows(st) PROVE newSeq[e] < newNext[st.asg[e]]
    <3>1. CASE e \in B
      BY <3>1, <1>1, <1>2, <1>3, <1>4, <2>2
    <3>2. CASE e \notin B /\ st.asg[e] = a
      BY <3>2, <1>1, <1>2, <1>4, <2>2, <2>3
    <3>3. CASE e \notin B /\ st.asg[e] # a
      BY <3>3, <1>4, <2>2, <2>3
    <3> QED BY <3>1, <3>2, <3>3
  <2>6. ASSUME NEW e \in Rows(st), NEW f \in Rows(st), st.asg[e] = st.asg[f], newSeq[e] = newSeq[f]
        PROVE  e = f
    <3>1. CASE e \in B /\ f \in B
      BY <2>6, <3>1, <1>1, <1>2, <2>2
    <3>2. CASE e \in B /\ f \notin B
      <4>1. newSeq[e] >= st.next[a]
        BY <3>2, <1>1, <1>2, <1>4, <2>2
      <4>2. newSeq[f] < st.next[a]
        BY <2>6, <3>2, <1>3, <2>2, <2>3
      <4> QED BY <2>6, <4>1, <4>2, <1>4, <1>6, <2>2
    <3>3. CASE e \notin B /\ f \in B
      <4>1. newSeq[f] >= st.next[a]
        BY <3>3, <1>1, <1>2, <1>4, <2>2
      <4>2. newSeq[e] < st.next[a]
        BY <2>6, <3>3, <1>3, <2>2, <2>3
      <4> QED BY <2>6, <4>1, <4>2, <1>4, <1>6, <2>2
    <3>4. CASE e \notin B /\ f \notin B
      BY <2>6, <3>4, <2>2, <2>4
    <3> QED BY <3>1, <3>2, <3>3, <3>4
  <2> HIDE DEF newSeq, newNext, new
  <2> QED BY <1>5, <2>1, <2>5, <2>6 DEF SequencesUnique
<1> QED BY <1>5, <1>8, <1>9

\* Deleting or quarantining a row keeps the table in order.
LEMMA SetStatusOK ==
    ASSUME NEW st \in Store, SequencesUnique(st), NEW e \in Event, NEW s \in {"deleted", "quarantined"}
    PROVE  /\ SetStatus(st, e, s) \in Store
           /\ SequencesUnique(SetStatus(st, e, s))
           /\ SetStatus(st, e, s).asg = st.asg
           /\ SetStatus(st, e, s).status =
                 [f \in Event |-> IF f = e /\ e \in Rows(st) THEN s ELSE st.status[f]]
<1> DEFINE newStatus == [f \in Event |-> IF f = e /\ e \in Rows(st) THEN s ELSE st.status[f]]
           new == SetStatus(st, e, s)
<1>1. st = [status |-> st.status, asg |-> st.asg, seq |-> st.seq, created |-> st.created,
            due |-> st.due, next |-> st.next]
  BY DEF Store
<1>2. new = [st EXCEPT !.status = newStatus]
  BY DEF SetStatus
<1> HIDE DEF newStatus, new
<1>3. new = [status |-> newStatus, asg |-> st.asg, seq |-> st.seq, created |-> st.created,
             due |-> st.due, next |-> st.next]
  BY <1>1, <1>2
<1>4. newStatus \in [Event -> Status]
  BY DEF newStatus, Store, Status
<1>5. new \in Store
  BY <1>3, <1>4 DEF Store
<1>6. Rows(new) \subseteq Rows(st)
  BY <1>3 DEF Rows, newStatus
<1>7. SequencesUnique(new)
  BY <1>3, <1>6 DEF SequencesUnique
<1> QED BY <1>3, <1>5, <1>7 DEF new, newStatus

\* One receipt: ApplyReceipts changes an event's state only as Core's ledger
\* warrants it, and keeps the table in order.
LEMMA ApplyReceiptOK ==
    ASSUME NEW st0 \in Store, NEW st, Follows(st0, st), NEW r \in Receipt, Truthful(r)
    PROVE  Follows(st0, ApplyReceipt(st, r))
<1> USE DEF Follows
<1>1. st \in Store /\ SequencesUnique(st) /\ r.event \in Event /\ r.next \in Nat
  BY DEF Receipt
<1>2. \A e \in Rows(st) : e \in Rows(st0)
  BY DEF Rows
<1>3. CASE r.status \in {"accepted", "duplicate"}
  <2>1. ApplyReceipt(st, r) = SetStatus(st, r.event, "deleted")
    BY <1>3 DEF ApplyReceipt
  <2>2. HeldByCore(r.event)
    BY <1>3 DEF Truthful
  <2> DEFINE new == SetStatus(st, r.event, "deleted")
  <2>3. /\ new \in Store /\ SequencesUnique(new) /\ new.asg = st.asg
        /\ new.status = [f \in Event |->
              IF f = r.event /\ r.event \in Rows(st) THEN "deleted" ELSE st.status[f]]
    BY <1>1, SetStatusOK
  <2> HIDE DEF new, HeldByCore
  <2>4. Follows(st0, new)
    BY <1>2, <2>2, <2>3
  <2> QED BY <2>1, <2>4 DEF new
<1>4. CASE r.status = "rejected"
  <2>1. ApplyReceipt(st, r) = SetStatus(st, r.event, "quarantined")
    BY <1>4 DEF ApplyReceipt
  <2>2. r.event \in Refused \/ HeldByCore(r.event)
    BY <1>4 DEF Truthful
  <2> DEFINE new == SetStatus(st, r.event, "quarantined")
  <2>3. /\ new \in Store /\ SequencesUnique(new) /\ new.asg = st.asg
        /\ new.status = [f \in Event |->
              IF f = r.event /\ r.event \in Rows(st) THEN "quarantined" ELSE st.status[f]]
    BY <1>1, SetStatusOK
  <2> HIDE DEF new, HeldByCore
  <2>4. Follows(st0, new)
    BY <1>2, <2>2, <2>3
  <2> QED BY <2>1, <2>4 DEF new
<1>5. CASE r.status = "conflict"
  <2>1. ApplyReceipt(st, r) = RenumberBehindCore(st, r.event, r.next)
    BY <1>5 DEF ApplyReceipt
  <2>2. st.asg[r.event] \in Assignment
    BY <1>1 DEF Store
  <2> QED BY <1>1, <2>1, <2>2, RenumberedOK DEF RenumberBehindCore
<1>6. CASE r.status = "retry"
  <2> DEFINE newDue == [f \in Event |-> st.due[f] /\ ~(f = r.event /\ st.status[f] = "pending")]
             new == ApplyReceipt(st, r)
  <2>1. new = [st EXCEPT !.due = newDue]
    BY <1>6 DEF ApplyReceipt
  <2>2. st = [status |-> st.status, asg |-> st.asg, seq |-> st.seq, created |-> st.created,
              due |-> st.due, next |-> st.next]
    BY <1>1 DEF Store
  <2>3. newDue \in [Event -> BOOLEAN]
    BY Zenon
  <2> HIDE DEF newDue, new
  <2>4. new = [status |-> st.status, asg |-> st.asg, seq |-> st.seq, created |-> st.created,
               due |-> newDue, next |-> st.next]
    BY <2>1, <2>2
  <2>5. new \in Store
    BY <1>1, <2>3, <2>4 DEF Store
  <2>6. Rows(new) = Rows(st) /\ SequencesUnique(new)
    BY <1>1, <2>4 DEF Rows, SequencesUnique
  <2>7. Follows(st0, new)
    BY <2>4, <2>5, <2>6
  <2> QED BY <2>7 DEF new
<1> QED BY <1>3, <1>4, <1>5, <1>6 DEF Receipt

\* The recursive function inside Applied exists for every sequence of
\* receipts: by induction on the length of the prefix.
LEMMA AppliedExists ==
    ASSUME NEW st, NEW rs \in Seq(Receipt)
    PROVE  \E f : f = [i \in 0 .. Len(rs) |-> IF i = 0 THEN st ELSE ApplyReceipt(f[i - 1], rs[i])]
<1> DEFINE Good(n) == \E f : f = [i \in 0 .. n |-> IF i = 0 THEN st ELSE ApplyReceipt(f[i - 1], rs[i])]
           Bad == {n \in Nat : ~ Good(n)}
<1>1. SUFFICES ASSUME Bad # {} PROVE FALSE
  <2>1. Len(rs) \in Nat
    OBVIOUS
  <2> QED BY <1>1, <2>1
<1>2. PICK n \in Bad : \A k \in Bad : n <= k
  BY <1>1, LeastNatural
<1>3. Good(0)
  <2> WITNESS [i \in {0} |-> st]
  <2> QED OBVIOUS
<1>4. n \in Nat /\ n # 0 /\ n - 1 \in Nat /\ Good(n - 1)
  <2> HIDE DEF Good
  <2>1. n \in Nat /\ n # 0
    BY <1>2, <1>3
  <2>2. n - 1 \in Nat /\ ~(n <= n - 1)
    BY <2>1
  <2> QED BY <1>2, <2>1, <2>2
<1>5. PICK f : f = [i \in 0 .. (n - 1) |-> IF i = 0 THEN st ELSE ApplyReceipt(f[i - 1], rs[i])]
  BY <1>4
<1> DEFINE g == [i \in 0 .. n |-> IF i = n THEN ApplyReceipt(f[n - 1], rs[n]) ELSE f[i]]
<1>6. \A i \in 0 .. n : g[i] = IF i = 0 THEN st ELSE ApplyReceipt(g[i - 1], rs[i])
  BY <1>4, <1>5
<1>7. g = [i \in 0 .. n |-> IF i = 0 THEN st ELSE ApplyReceipt(g[i - 1], rs[i])]
  BY <1>6
<1> QED BY <1>2, <1>7

\* A whole batch of truthful receipts, applied in one transaction.
LEMMA AppliedOK ==
    ASSUME NEW st \in Store, SequencesUnique(st),
           NEW rs \in Seq(Receipt), \A i \in DOMAIN rs : Truthful(rs[i])
    PROVE  Follows(st, Applied(st, rs))
<1> DEFINE after == CHOOSE f : f = [i \in 0 .. Len(rs) |->
                                      IF i = 0 THEN st ELSE ApplyReceipt(f[i - 1], rs[i])]
           Bad == {n \in 0 .. Len(rs) : ~ Follows(st, after[n])}
<1>1. after = [i \in 0 .. Len(rs) |-> IF i = 0 THEN st ELSE ApplyReceipt(after[i - 1], rs[i])]
  BY AppliedExists
<1>2. Applied(st, rs) = after[Len(rs)]
  BY DEF Applied
<1> HIDE DEF after
<1>3. SUFFICES ASSUME Bad # {} PROVE FALSE
  BY <1>2
<1>4. PICK n \in Bad : \A k \in Bad : n <= k
  <2>1. Bad \subseteq Nat
    OBVIOUS
  <2> HIDE DEF Bad
  <2> QED BY <1>3, <2>1, LeastNatural
<1>5. Follows(st, after[0])
  BY <1>1 DEF Follows
<1>6. n \in Nat /\ n # 0 /\ n - 1 \in 0 .. Len(rs) /\ n - 1 \notin Bad /\ n \in DOMAIN rs
  BY <1>4, <1>5
<1>7. Follows(st, after[n - 1])
  BY <1>6
<1>8. rs[n] \in Receipt /\ Truthful(rs[n])
  BY <1>6
<1>9. after[n] = ApplyReceipt(after[n - 1], rs[n])
  BY <1>1, <1>6
<1>10. Follows(st, after[n])
  BY <1>7, <1>8, <1>9, ApplyReceiptOK
<1> QED BY <1>4, <1>10

-----------------------------------------------------------------------------
(* The invariant.                                                          *)

\* The initial state: an empty outbox and an empty ledger.
LEMMA InitInv == Init => IndInv
<1> SUFFICES ASSUME Init PROVE IndInv
  OBVIOUS
<1> USE DEF Init
<1>1. store \in Store
  BY DEF Store, Status
<1>2. TypeOK
  BY <1>1 DEF TypeOK, Idle
<1>3. Rows(store) = {}
  BY DEF Rows
<1>4. LocalSequencesUnique
  BY <1>3 DEF LocalSequencesUnique, SequencesUnique
<1>5. DeletedOnlyWhenHeld /\ QuarantinedOnlyWhenSettled
  BY DEF DeletedOnlyWhenHeld, QuarantinedOnlyWhenSettled
<1>6. ReceiptsTruthful /\ LedgerUnique
  <2>1. DOMAIN request.receipts = {}
    BY DEF Idle
  <2> QED BY <2>1 DEF ReceiptsTruthful, LedgerUnique
<1> QED BY <1>2, <1>4, <1>5, <1>6 DEF IndInv

\* Core's ledger only grows while one event is ingested, the new row is
\* about that event, and the receipt tells the truth about the new ledger.
LEMMA IngestOneOK ==
    ASSUME TypeOK, LedgerUnique, NEW m \in Message, NEW receipt, IngestOne(m, receipt)
    PROVE  /\ core \subseteq core' /\ core' \subseteq core \cup {m}
           /\ core' \subseteq Message /\ faults' \in Nat
           /\ LedgerUnique'
           /\ m \in core' \ core => m.event \notin Refused
           /\ receipt \in Receipt /\ receipt.event = m.event
           /\ Truthful(receipt)'
<1>1. m.event \in Event /\ m.asg \in Assignment /\ m.seq \in Nat
  BY DEF Message
<1>2. CoreNext(m.asg) \in Nat
  <2> DEFINE used == {r.seq : r \in {x \in core : x.asg = m.asg}}
             Largest(n) == \A k \in used : k <= n
  <2>1. used \subseteq Nat
    BY DEF TypeOK, Message
  <2>2. CASE \E n \in used : Largest(n)
    <3> DEFINE max == CHOOSE n \in used : Largest(n)
    <3>1. max \in used
      BY <2>2, Zenon
    <3>2. CoreNext(m.asg) = 1 + max
      BY <2>2 DEF CoreNext
    <3> HIDE DEF used, Largest, max
    <3> QED BY <2>1, <3>1, <3>2
  <2>3. CASE ~ \E n \in used : Largest(n)
    BY <2>3 DEF CoreNext
  <2> QED BY <2>2, <2>3
<1>3. /\ core' = core \/ (core' = core \cup {m} /\ Verdict(m) = "accepted")
      /\ faults' \in Nat
  BY DEF IngestOne, TypeOK
<1>4. Verdict(m) = "accepted" => m.event \notin Refused /\ ~Held(m) /\ ~SequenceTaken(m)
  BY DEF Verdict
<1>5. LedgerUnique'
  BY <1>3, <1>4 DEF LedgerUnique, Held, SequenceTaken
<1>6. receipt = Answer(m, "retry") \/ (receipt = Answer(m, Verdict(m))
           /\ core' = IF Verdict(m) = "accepted" THEN core \cup {m} ELSE core)
  BY DEF IngestOne
<1>7. receipt \in Receipt /\ receipt.event = m.event
  BY <1>1, <1>2, <1>6 DEF Answer, Verdict, Receipt
<1>8. Truthful(receipt)'
  <2>1. CASE receipt = Answer(m, "retry")
    BY <2>1 DEF Answer, Truthful
  <2>2. CASE receipt = Answer(m, Verdict(m)) /\ core' = IF Verdict(m) = "accepted" THEN core \cup {m} ELSE core
    <3>1. receipt.status = Verdict(m)
      BY <2>2 DEF Answer
    <3> QED BY <2>2, <3>1, <1>7 DEF Verdict, Truthful, HeldByCore, Held
  <2> QED BY <1>6, <2>1, <2>2
<1> QED BY <1>3, <1>4, <1>5, <1>7, <1>8 DEF TypeOK

\* Queueing new events: consecutive numbers from the assignment's counter.
LEMMA EnqueueInv ==
    ASSUME IndInv, NEW a \in Assignment, NEW S \in SUBSET Event,
           NEW number \in Numberings(S, store.next[a]), Enqueue(a, S, number)
    PROVE  IndInv'
<1> USE DEF IndInv
<1>1. /\ store.status \in [Event -> Status] /\ store.asg \in [Event -> Assignment]
      /\ store.seq \in [Event -> Nat] /\ store.created \in [Event -> Nat]
      /\ store.due \in [Event -> BOOLEAN] /\ store.next \in [Assignment -> Nat]
      /\ clock \in Nat
  BY DEF TypeOK, Store
<1>2. Cardinality(S) \in Nat
  BY EventFinite, FS_Subset, FS_CardinalityType
<1>3. /\ \A e \in S : /\ number[e] \in Nat /\ store.next[a] <= number[e]
                     /\ number[e] < store.next[a] + Cardinality(S)
      /\ \A e, f \in S : number[e] = number[f] => e = f
  BY <1>1, <1>2 DEF Numberings
<1>4. /\ store'.status = [e \in Event |-> IF e \in S THEN "pending" ELSE store.status[e]]
      /\ store'.asg = store.asg
      /\ store'.seq = [e \in Event |-> IF e \in S THEN number[e] ELSE store.seq[e]]
      /\ store'.next = [store.next EXCEPT ![a] = @ + Cardinality(S)]
      /\ \A e \in S : store.status[e] = "new" /\ store.asg[e] = a
      /\ clock' = clock + 1 /\ UNCHANGED <<request, strays, core, faults, resets>>
  BY DEF Enqueue
<1>5. store' \in Store
  <2>1. store'.status \in [Event -> Status] /\ store'.seq \in [Event -> Nat] /\ store'.next \in [Assignment -> Nat]
    BY <1>1, <1>2, <1>3, <1>4 DEF Status
  <2>2. store'.created \in [Event -> Nat] /\ store'.due \in [Event -> BOOLEAN]
    BY <1>1 DEF Enqueue
  <2>3. store' = [status |-> store'.status, asg |-> store'.asg, seq |-> store'.seq,
                  created |-> store'.created, due |-> store'.due, next |-> store'.next]
    BY DEF Enqueue
  <2> QED BY <1>1, <1>4, <2>1, <2>2, <2>3 DEF Store
<1>6. LocalSequencesUnique'
  <2>1. \A e \in Rows(store') : e \in Event /\ (e \in S \/ (e \notin S /\ e \in Rows(store)))
    BY <1>1, <1>4 DEF Rows
  <2>2. \A e \in Rows(store) : store.seq[e] < store.next[store.asg[e]]
    BY DEF LocalSequencesUnique, SequencesUnique
  <2>3. \A e, f \in Rows(store) : store.asg[e] = store.asg[f] /\ store.seq[e] = store.seq[f] => e = f
    BY DEF LocalSequencesUnique, SequencesUnique
  <2>4. ASSUME NEW e \in Rows(store') PROVE store'.seq[e] < store'.next[store'.asg[e]]
    <3>1. CASE e \in S
      BY <3>1, <1>1, <1>2, <1>3, <1>4
    <3>2. CASE e \notin S
      BY <3>2, <1>1, <1>2, <1>4, <2>1, <2>2
    <3> QED BY <3>1, <3>2
  <2>5. ASSUME NEW e \in Rows(store'), NEW f \in Rows(store'),
               store'.asg[e] = store'.asg[f], store'.seq[e] = store'.seq[f]
        PROVE  e = f
    <3>1. CASE e \in S /\ f \in S
      BY <2>5, <3>1, <1>3, <1>4
    <3>2. CASE e \in S /\ f \notin S
      BY <2>5, <3>2, <1>1, <1>3, <1>4, <2>1, <2>2
    <3>3. CASE e \notin S /\ f \in S
      BY <2>5, <3>3, <1>1, <1>3, <1>4, <2>1, <2>2
    <3>4. CASE e \notin S /\ f \notin S
      BY <2>5, <3>4, <1>4, <2>1, <2>3
    <3> QED BY <3>1, <3>2, <3>3, <3>4
  <2> QED BY <2>4, <2>5 DEF LocalSequencesUnique, SequencesUnique
<1>7. DeletedOnlyWhenHeld' /\ QuarantinedOnlyWhenSettled'
  BY <1>1, <1>4 DEF DeletedOnlyWhenHeld, QuarantinedOnlyWhenSettled, HeldByCore
<1>8. ReceiptsTruthful' /\ LedgerUnique'
  BY <1>4 DEF ReceiptsTruthful, Truthful, LedgerUnique, HeldByCore
<1>9. TypeOK'
  BY <1>1, <1>4, <1>5 DEF TypeOK
<1> QED BY <1>6, <1>7, <1>8, <1>9

\* Steps that move requests and due times only: the rows' states, numbers
\* and counters and Core's ledger stay as they are.
LEMMA SameRowsInv ==
    ASSUME IndInv, store' \in Store,
           store'.status = store.status, store'.asg = store.asg,
           store'.seq = store.seq, store'.next = store.next,
           UNCHANGED <<core, clock, resets>>, faults' \in Nat,
           request' \in [todo : Seq(Message), receipts : Seq(Receipt)],
           strays' \subseteq Seq(Message) \ {<<>>},
           \A i \in DOMAIN request'.receipts : Truthful(request'.receipts[i])
    PROVE  IndInv'
<1> USE DEF IndInv
<1>1. TypeOK'
  BY DEF TypeOK
<1>2. LocalSequencesUnique'
  BY DEF LocalSequencesUnique, SequencesUnique, Rows
<1>3. DeletedOnlyWhenHeld' /\ QuarantinedOnlyWhenSettled' /\ LedgerUnique'
  BY DEF DeletedOnlyWhenHeld, QuarantinedOnlyWhenSettled, LedgerUnique, HeldByCore
<1>4. ReceiptsTruthful'
  BY DEF ReceiptsTruthful, Truthful, HeldByCore
<1> QED BY <1>1, <1>2, <1>3, <1>4

\* Giving up a request leaves nothing to apply.
LEMMA AbandonOK ==
    ASSUME TypeOK, Abandon
    PROVE  /\ request' \in [todo : Seq(Message), receipts : Seq(Receipt)]
           /\ DOMAIN request'.receipts = {}
           /\ strays' \subseteq Seq(Message) \ {<<>>}
<1>1. request' = Idle
  BY DEF Abandon
<1>2. strays' = strays \/ (request.todo # <<>> /\ strays' = strays \cup {request.todo})
  BY DEF Abandon
<1>3. request.todo \in Seq(Message)
  BY DEF TypeOK
<1> QED BY <1>1, <1>2, <1>3 DEF TypeOK, Idle

\* A message built from the outbox or taken from a request is a message.
LEMMA HeadTail ==
    ASSUME NEW q \in Seq(Message), q # <<>>
    PROVE  Head(q) \in Message /\ Tail(q) \in Seq(Message)
  OBVIOUS

\* Core ingests an event, of the request that is waited for or of a stray.
LEMMA IngestInv ==
    ASSUME IndInv, NEW m \in Message, NEW receipt, IngestOne(m, receipt),
           UNCHANGED <<store, clock, resets>>,
           strays' \subseteq Seq(Message) \ {<<>>},
           \/ request' = request
           \/ request' = [todo |-> Tail(request.todo), receipts |-> Append(request.receipts, receipt)]
              /\ request.todo # <<>>
    PROVE  IndInv'
<1> USE DEF IndInv
<1>1. /\ core \subseteq core' /\ core' \subseteq Message /\ faults' \in Nat /\ LedgerUnique'
      /\ receipt \in Receipt /\ Truthful(receipt)'
  BY IngestOneOK
<1>2. request.todo \in Seq(Message) /\ request.receipts \in Seq(Receipt)
  BY DEF TypeOK
<1>3. request' \in [todo : Seq(Message), receipts : Seq(Receipt)]
  <2>1. CASE request' = request
    BY <2>1 DEF TypeOK
  <2>2. CASE request' # request
    <3>1. Append(request.receipts, receipt) \in Seq(Receipt)
      BY <1>1, <1>2
    <3>2. Tail(request.todo) \in Seq(Message)
      BY <2>2, <1>2, HeadTail
    <3>3. request' = [todo |-> Tail(request.todo), receipts |-> Append(request.receipts, receipt)]
      BY <2>2
    <3> QED BY <3>1, <3>2, <3>3
  <2> QED BY <2>1, <2>2
<1>4. TypeOK'
  BY <1>1, <1>3 DEF TypeOK
<1>5. \A e : HeldByCore(e) => HeldByCore(e)'
  BY <1>1 DEF HeldByCore
<1>6. DeletedOnlyWhenHeld' /\ QuarantinedOnlyWhenSettled'
  BY <1>5 DEF DeletedOnlyWhenHeld, QuarantinedOnlyWhenSettled
<1>7. LocalSequencesUnique'
  BY DEF LocalSequencesUnique
<1>8. \A r \in Receipt : Truthful(r) => Truthful(r)'
  BY <1>5 DEF Truthful
<1>9. ReceiptsTruthful'
  <2>1. \A i \in DOMAIN request.receipts : \A r \in Receipt : r = request.receipts[i] => Truthful(r)'
    BY <1>8 DEF ReceiptsTruthful
  <2> SUFFICES ASSUME NEW i \in DOMAIN request'.receipts,
                      NEW r \in Receipt, r = request'.receipts[i]
               PROVE  Truthful(r)'
    BY <1>3 DEF ReceiptsTruthful
  <2>2. CASE request' = request
    BY <2>1, <2>2
  <2>3. CASE request'.receipts = Append(request.receipts, receipt)
    <3>1. (i \in DOMAIN request.receipts /\ r = request.receipts[i]) \/ r = receipt
      BY <1>1, <1>2, <2>3
    <3> QED BY <3>1, <2>1, <1>1
  <2> QED BY <2>2, <2>3
<1> QED BY <1>1, <1>4, <1>6, <1>7, <1>9

\* Every step preserves the invariant: one case per action of Next.
LEMMA NextInv == IndInv /\ [Next]_vars => IndInv'
<1> SUFFICES ASSUME IndInv, [Next]_vars PROVE IndInv'
  OBVIOUS
<1>0. /\ TypeOK /\ store \in Store
      /\ request \in [todo : Seq(Message), receipts : Seq(Receipt)]
      /\ strays \subseteq Seq(Message) \ {<<>>} /\ faults \in Nat
      /\ \A i \in DOMAIN request.receipts : Truthful(request.receipts[i])
  BY DEF IndInv, TypeOK, ReceiptsTruthful
<1>1. CASE EnqueueSome
  BY <1>1, EnqueueInv DEF EnqueueSome
<1>2. CASE SendSome
  <2>0. PICK n \in 1 .. BatchLimit : \E q \in [1 .. n -> Due] : Send(q)
    BY <1>2 DEF SendSome
  <2>1. PICK q \in [1 .. n -> Due] : Send(q)
    BY <2>0
  <2>2. n \in Nat /\ \A i \in 1 .. n : q[i] \in Event
    BY BoundsAreNaturals DEF Due
  <2>3. Len(q) = n
    BY <2>2
  <2> DEFINE todo == [i \in 1 .. n |-> [event |-> q[i], asg |-> store.asg[q[i]], seq |-> store.seq[q[i]]]]
  <2>4. todo \in [1 .. n -> Message]
    BY <1>0, <2>2 DEF Store, Message
  <2>5. todo \in Seq(Message)
    BY <2>2, <2>4
  <2>6. request' = [todo |-> todo, receipts |-> <<>>]
    BY <2>1, <2>3 DEF Send
  <2> HIDE DEF todo
  <2>7. request' \in [todo : Seq(Message), receipts : Seq(Receipt)] /\ DOMAIN request'.receipts = {}
    BY <2>5, <2>6
  <2>8. UNCHANGED <<store, strays, core, clock, faults, resets>>
    BY <2>1 DEF Send
  <2> QED BY <1>0, <2>7, <2>8, SameRowsInv
<1>3. CASE DeliveryFails
  <2> DEFINE newDue == [e \in Event |-> store.due[e] /\ ~(e \in RequestEvents /\ store.status[e] = "pending")]
  <2>1. store' = [store EXCEPT !.due = newDue] /\ faults' = faults + 1 /\ Abandon
        /\ UNCHANGED <<core, clock, resets>>
    BY <1>3 DEF DeliveryFails
  <2>2. newDue \in [Event -> BOOLEAN]
    BY Zenon
  <2> HIDE DEF newDue
  <2>3. /\ store' \in Store /\ store'.status = store.status /\ store'.asg = store.asg
        /\ store'.seq = store.seq /\ store'.next = store.next
    BY <1>0, <2>1, <2>2 DEF Store
  <2> QED BY <1>0, <2>1, <2>3, AbandonOK, SameRowsInv
<1>4. CASE Restart
  BY <1>0, <1>4, AbandonOK, SameRowsInv DEF Restart
<1>5. CASE \E e \in Event : BackoffElapses(e)
  <2>1. PICK e \in Event : BackoffElapses(e)
    BY <1>5
  <2>2. /\ store' \in Store /\ store'.status = store.status /\ store'.asg = store.asg
        /\ store'.seq = store.seq /\ store'.next = store.next
    BY <1>0, <2>1 DEF BackoffElapses, Store
  <2>3. UNCHANGED <<request, strays, core, clock, faults, resets>>
    BY <2>1 DEF BackoffElapses
  <2> QED BY <1>0, <2>2, <2>3, SameRowsInv
<1>6. CASE ResetState
  <2> DEFINE lost == [e \in Event |-> IF e \in Rows(store) THEN "lost" ELSE store.status[e]]
  <2>1. /\ store' = [store EXCEPT !.status = lost, !.next = [a \in Assignment |-> 1]]
        /\ resets' = resets + 1 /\ UNCHANGED <<core, clock, faults>>
        /\ Abandon \/ (request = Idle /\ UNCHANGED <<request, strays>>)
    BY <1>6 DEF ResetState
  <2>2. lost \in [Event -> Status] /\ \A e \in Event : lost[e] \notin {"pending", "quarantined"}
    BY <1>0 DEF Store, Status, Rows
  <2>3. \A e \in Event : lost[e] = "deleted" => store.status[e] = "deleted"
    OBVIOUS
  <2> HIDE DEF lost
  <2>4. store' \in Store /\ store'.status = lost
    BY <1>0, <2>1, <2>2 DEF Store
  <2>5. Rows(store') = {}
    BY <2>2, <2>4 DEF Rows
  <2>6. LocalSequencesUnique'
    BY <2>5 DEF LocalSequencesUnique, SequencesUnique
  <2>7. /\ request' \in [todo : Seq(Message), receipts : Seq(Receipt)]
        /\ strays' \subseteq Seq(Message) \ {<<>>}
        /\ DOMAIN request'.receipts = {}
    <3>1. CASE Abandon
      BY <1>0, <3>1, AbandonOK
    <3>2. CASE request = Idle /\ UNCHANGED <<request, strays>>
      <4>1. DOMAIN request.receipts = {}
        BY <3>2 DEF Idle
      <4> QED BY <1>0, <3>2, <4>1
    <3> QED BY <2>1, <3>1, <3>2
  <2>8. DeletedOnlyWhenHeld' /\ QuarantinedOnlyWhenSettled'
    BY <2>1, <2>2, <2>3, <2>4 DEF IndInv, DeletedOnlyWhenHeld, QuarantinedOnlyWhenSettled, HeldByCore
  <2>9. TypeOK' /\ ReceiptsTruthful' /\ LedgerUnique'
    BY <2>1, <2>4, <2>7 DEF IndInv, TypeOK, ReceiptsTruthful, LedgerUnique
  <2> QED BY <2>6, <2>8, <2>9 DEF IndInv
<1>7. CASE IngestSome
  <2>1. PICK receipt \in Receipts(Head(request.todo)) : Ingest(receipt)
    BY <1>7 DEF IngestSome
  <2>2. request.todo # <<>> /\ IngestOne(Head(request.todo), receipt)
        /\ request' = [todo |-> Tail(request.todo), receipts |-> Append(request.receipts, receipt)]
        /\ UNCHANGED <<store, strays, clock, resets>>
    BY <2>1 DEF Ingest
  <2>3. Head(request.todo) \in Message
    BY <1>0, <2>2, HeadTail
  <2> QED BY <1>0, <2>2, <2>3, IngestInv
<1>8. CASE IngestStraySome
  <2>0. PICK t \in strays : \E receipt \in Receipts(Head(t)) : IngestStray(t, receipt)
    BY <1>8 DEF IngestStraySome
  <2>1. PICK receipt \in Receipts(Head(t)) : IngestStray(t, receipt)
    BY <2>0
  <2>2. t \in Seq(Message) /\ t # <<>>
    BY <1>0
  <2>3. Head(t) \in Message /\ Tail(t) \in Seq(Message)
    BY <2>2, HeadTail
  <2>4. strays' \subseteq Seq(Message) \ {<<>>}
    BY <1>0, <2>1, <2>3 DEF IngestStray
  <2>5. IngestOne(Head(t), receipt) /\ UNCHANGED <<store, request, clock, resets>>
    BY <2>1 DEF IngestStray
  <2> QED BY <2>3, <2>4, <2>5, IngestInv
<1>9. CASE ApplyReceipts
  <2>1. /\ store' = Applied(store, request.receipts) /\ request' = Idle
        /\ UNCHANGED <<strays, core, clock, faults, resets>>
    BY <1>9 DEF ApplyReceipts
  <2>2. Follows(store, store')
    BY <1>0, <2>1, AppliedOK DEF IndInv, LocalSequencesUnique
  <2>3. TypeOK' /\ ReceiptsTruthful' /\ LedgerUnique'
    <3>1. Idle \in [todo : Seq(Message), receipts : Seq(Receipt)] /\ DOMAIN Idle.receipts = {}
      BY DEF Idle
    <3> QED BY <2>1, <2>2, <3>1 DEF IndInv, TypeOK, Follows, ReceiptsTruthful, LedgerUnique
  <2>4. LocalSequencesUnique'
    BY <2>2 DEF Follows, LocalSequencesUnique
  <2>5. DeletedOnlyWhenHeld' /\ QuarantinedOnlyWhenSettled'
    <3>1. \A e : HeldByCore(e)' <=> HeldByCore(e)
      BY <2>1 DEF HeldByCore
    <3> HIDE DEF HeldByCore
    <3> QED BY <2>2, <3>1 DEF IndInv, Follows, DeletedOnlyWhenHeld, QuarantinedOnlyWhenSettled
  <2> QED BY <2>3, <2>4, <2>5 DEF IndInv
<1>10. CASE UNCHANGED vars
  <2>1. /\ UNCHANGED <<store, request, strays, core, clock, faults, resets>>
    BY <1>10 DEF vars
  <2> QED BY <1>0, <2>1, SameRowsInv
<1> QED BY <1>1, <1>2, <1>3, <1>4, <1>5, <1>6, <1>7, <1>8, <1>9, <1>10 DEF Next

\* The invariant holds in every reachable state, for every set of events and
\* assignments, every batch and queue limit and any number of faults.
THEOREM Invariant == Spec => []IndInv
<1> QED BY InitInv, NextInv, PTL DEF Spec

\* Type correctness of the outbox, the request and Core's ledger.
THEOREM TypeCorrect == Spec => []TypeOK
<1>1. IndInv => TypeOK
  BY DEF IndInv
<1> QED BY <1>1, Invariant, PTL

\* Enqueue and renumberBehindCore never hand out a local sequence twice.
THEOREM SequencesNeverCollide == Spec => []LocalSequencesUnique
<1>1. IndInv => LocalSequencesUnique
  BY DEF IndInv
<1> QED BY <1>1, Invariant, PTL

\* ApplyReceipts deletes an event only if Core holds it.
THEOREM NothingDeletedEarly == Spec => []DeletedOnlyWhenHeld
<1>1. IndInv => DeletedOnlyWhenHeld
  BY DEF IndInv
<1> QED BY <1>1, Invariant, PTL

\* ApplyReceipts quarantines an event only if Core refuses it or holds it.
THEOREM NothingGivenUp == Spec => []QuarantinedOnlyWhenSettled
<1>1. IndInv => QuarantinedOnlyWhenSettled
  BY DEF IndInv
<1> QED BY <1>1, Invariant, PTL

\* ingestOne stores an event once and a sequence of an assignment once.
THEOREM LedgerHasNoDuplicates == Spec => []LedgerUnique
<1>1. IndInv => LedgerUnique
  BY DEF IndInv
<1> QED BY <1>1, Invariant, PTL

-----------------------------------------------------------------------------
(* While the connector keeps its state volume.                             *)

\* An adapter queued the event.
Queued(e) == store.status[e] # "new"

\* The message says of its event what the outbox says, or said before the
\* event was settled.
InPlace(m) == Queued(m.event) /\ m.asg = store.asg[m.event] /\ m.seq = store.seq[m.event]

\* So do all messages in Core's ledger and on their way there.
AllInPlace ==
    /\ \A m \in core : InPlace(m)
    /\ \A i \in DOMAIN request.todo : InPlace(request.todo[i])
    /\ \A t \in strays : \A i \in DOMAIN t : InPlace(t[i])

\* No two events of an assignment ever got the same number, settled ones
\* included: more than LocalSequencesUnique, which is about the rows that are
\* left.
NumberedOnce ==
    /\ \A e \in Event : Queued(e) => store.seq[e] < store.next[store.asg[e]]
    /\ \A e, f \in Event :
          Queued(e) /\ Queued(f) /\ store.asg[e] = store.asg[f] /\ store.seq[e] = store.seq[f] => e = f

\* A receipt that renumbers nothing and rejects only what Core's validation
\* refuses.
Harmless(r) == r.status # "conflict" /\ (r.status = "rejected" => r.event \in Refused)

\* The receipts about to be applied are harmless.
ReceiptsHarmless == \A i \in DOMAIN request.receipts : Harmless(request.receipts[i])

\* OnlyRefusedQuarantined, of any state.
RefusedQuarantined == \A e \in Event : store.status[e] = "quarantined" => e \in Refused

\* What holds as long as the state volume was never reset.
\* QuarantinedOnlyWhenSettled alone is no help here: that a known event is not
\* rejected takes its number in Core and in the outbox to be the same, and
\* that takes Core to answer no conflict, hence numbers that are never used
\* twice.
Undisturbed == resets = 0 => AllInPlace /\ NumberedOnce /\ ReceiptsHarmless /\ RefusedQuarantined

\* A store st that applying harmless receipts can lead to from st0.
Settles(st0, st) ==
    /\ st \in Store
    /\ st.seq = st0.seq /\ st.asg = st0.asg /\ st.next = st0.next
    /\ \A e \in Event :
          \/ st.status[e] = st0.status[e]
          \/ st0.status[e] # "new" /\ st.status[e] = "deleted"
          \/ st0.status[e] # "new" /\ st.status[e] = "quarantined" /\ e \in Refused

\* One harmless receipt settles its event or leaves the table alone.
LEMMA HarmlessSettles ==
    ASSUME NEW st0 \in Store, NEW st, Settles(st0, st), NEW r \in Receipt, Harmless(r)
    PROVE  Settles(st0, ApplyReceipt(st, r))
<1> DEFINE new == ApplyReceipt(st, r)
<1>1. /\ st \in Store /\ r.event \in Event
      /\ st = [status |-> st.status, asg |-> st.asg, seq |-> st.seq, created |-> st.created,
               due |-> st.due, next |-> st.next]
  BY DEF Settles, Receipt, Store
<1>2. ASSUME NEW s \in {"deleted", "quarantined"}, s = "quarantined" => r.event \in Refused,
             new = SetStatus(st, r.event, s)
      PROVE  Settles(st0, new)
  <2> DEFINE status == [f \in Event |-> IF f = r.event /\ r.event \in Rows(st) THEN s ELSE st.status[f]]
  <2>1. new = [st EXCEPT !.status = status]
    BY <1>2 DEF SetStatus
  <2>2. status \in [Event -> Status]
    BY <1>1, <1>2 DEF Store, Status
  <2>3. \A f \in Event : \/ status[f] = st.status[f]
                         \/ f = r.event /\ status[f] = s /\ st.status[f] # "new"
    BY DEF Rows
  <2> HIDE DEF new, status
  <2>4. new = [status |-> status, asg |-> st.asg, seq |-> st.seq, created |-> st.created,
               due |-> st.due, next |-> st.next]
    BY <1>1, <2>1
  <2>5. new \in Store
    BY <1>1, <2>2, <2>4 DEF Store
  <2>6. \A e \in Event : \/ new.status[e] = st0.status[e]
                         \/ st0.status[e] # "new" /\ new.status[e] = "deleted"
                         \/ st0.status[e] # "new" /\ new.status[e] = "quarantined" /\ e \in Refused
    BY <1>2, <2>3, <2>4 DEF Settles
  <2> QED BY <2>4, <2>5, <2>6 DEF Settles
<1>3. CASE r.status \in {"accepted", "duplicate"}
  BY <1>2, <1>3 DEF ApplyReceipt
<1>4. CASE r.status = "rejected"
  BY <1>2, <1>4 DEF ApplyReceipt, Harmless
<1>5. CASE r.status = "retry"
  <2> DEFINE due == [f \in Event |-> st.due[f] /\ ~(f = r.event /\ st.status[f] = "pending")]
  <2>1. new = [st EXCEPT !.due = due]
    BY <1>5 DEF ApplyReceipt
  <2>2. due \in [Event -> BOOLEAN]
    BY Zenon
  <2> HIDE DEF new, due
  <2>3. new = [status |-> st.status, asg |-> st.asg, seq |-> st.seq, created |-> st.created,
               due |-> due, next |-> st.next]
    BY <1>1, <2>1
  <2>4. new \in Store
    BY <1>1, <2>2, <2>3 DEF Store
  <2>5. new.status = st.status /\ new.asg = st.asg /\ new.seq = st.seq /\ new.next = st.next
    BY <2>3
  <2>6. Settles(st0, new)
    BY <2>4, <2>5 DEF Settles
  <2> QED BY <2>6 DEF new
<1>6. CASE r.status = "conflict"
  BY <1>6 DEF Harmless
<1> QED BY <1>3, <1>4, <1>5, <1>6 DEF Receipt

\* A batch of harmless receipts, applied in one transaction.
LEMMA AppliedSettles ==
    ASSUME NEW st \in Store, NEW rs \in Seq(Receipt), \A i \in DOMAIN rs : Harmless(rs[i])
    PROVE  Settles(st, Applied(st, rs))
<1> DEFINE after == CHOOSE f : f = [i \in 0 .. Len(rs) |->
                                      IF i = 0 THEN st ELSE ApplyReceipt(f[i - 1], rs[i])]
           Bad == {n \in 0 .. Len(rs) : ~ Settles(st, after[n])}
<1>1. after = [i \in 0 .. Len(rs) |-> IF i = 0 THEN st ELSE ApplyReceipt(after[i - 1], rs[i])]
  BY AppliedExists
<1>2. Applied(st, rs) = after[Len(rs)]
  BY DEF Applied
<1> HIDE DEF after
<1>3. SUFFICES ASSUME Bad # {} PROVE FALSE
  BY <1>2
<1>4. PICK n \in Bad : \A k \in Bad : n <= k
  <2>1. Bad \subseteq Nat
    OBVIOUS
  <2> HIDE DEF Bad
  <2> QED BY <1>3, <2>1, LeastNatural
<1>5. Settles(st, after[0])
  BY <1>1 DEF Settles
<1>6. n \in Nat /\ n # 0 /\ n - 1 \in 0 .. Len(rs) /\ n - 1 \notin Bad /\ n \in DOMAIN rs
  BY <1>4, <1>5
<1>7. Settles(st, after[n - 1])
  BY <1>6
<1>8. rs[n] \in Receipt /\ Harmless(rs[n])
  BY <1>6
<1>9. after[n] = ApplyReceipt(after[n - 1], rs[n])
  BY <1>1, <1>6
<1>10. Settles(st, after[n])
  BY <1>7, <1>8, <1>9, HarmlessSettles
<1> QED BY <1>4, <1>10

\* Core's answer about a message that is in place is harmless: a known event
\* has the number Core knows, and a known number belongs to this event.
LEMMA AnswerHarmless ==
    ASSUME TypeOK, AllInPlace, NumberedOnce, NEW m \in Message, InPlace(m),
           NEW receipt, IngestOne(m, receipt)
    PROVE  Harmless(receipt)
<1>1. CASE receipt = Answer(m, "retry")
  BY <1>1 DEF Answer, Harmless
<1>2. CASE receipt = Answer(m, Verdict(m))
  <2>1. \A r \in core : r \in Message /\ InPlace(r)
    BY DEF TypeOK, AllInPlace
  <2>2. Held(m) => m \in core
    <3> SUFFICES ASSUME NEW r \in core, r.event = m.event PROVE r = m
      BY DEF Held
    <3> QED BY <2>1 DEF InPlace, Message
  <2>3. SequenceTaken(m) => Held(m)
    <3> SUFFICES ASSUME NEW r \in core, r.asg = m.asg, r.seq = m.seq PROVE r.event = m.event
      BY DEF SequenceTaken, Held
    <3>1. r.event \in Event /\ m.event \in Event
      BY <2>1 DEF Message
    <3> QED BY <2>1, <3>1 DEF InPlace, NumberedOnce
  <2>4. Verdict(m) # "conflict" /\ (Verdict(m) = "rejected" => m.event \in Refused)
    BY <2>2, <2>3 DEF Verdict
  <2> QED BY <1>2, <2>4 DEF Answer, Harmless
<1> QED BY <1>1, <1>2 DEF IngestOne

\* Steps that take messages away and let queued events be leave all messages
\* in place.
LEMMA StaysInPlace ==
    ASSUME TypeOK, AllInPlace,
           \A e \in Event : Queued(e) =>
              store'.status[e] # "new" /\ store'.asg[e] = store.asg[e] /\ store'.seq[e] = store.seq[e],
           core' \subseteq core,
           request'.todo = <<>> \/ request'.todo = request.todo,
           \A t \in strays' : t \in strays \/ t = request.todo
    PROVE  AllInPlace'
<1>1. ASSUME NEW m \in Message, InPlace(m) PROVE InPlace(m)'
  BY <1>1 DEF Message, InPlace, Queued
<1>2. request.todo \in Seq(Message) /\ strays \subseteq Seq(Message) /\ core \subseteq Message
  BY DEF TypeOK
<1>3. \A i \in DOMAIN request.todo : request.todo[i] \in Message /\ InPlace(request.todo[i])
  BY <1>2 DEF AllInPlace
<1>4. \A t \in strays : \A i \in DOMAIN t : t[i] \in Message /\ InPlace(t[i])
  BY <1>2 DEF AllInPlace
<1>5. \A m \in core' : m \in Message /\ InPlace(m)
  BY <1>2 DEF AllInPlace
<1>6. \A i \in DOMAIN request'.todo : request'.todo[i] \in Message /\ InPlace(request'.todo[i])
  BY <1>3
<1>7. \A t \in strays' : \A i \in DOMAIN t : t[i] \in Message /\ InPlace(t[i])
  BY <1>3, <1>4
<1> HIDE DEF InPlace
<1> QED BY <1>1, <1>5, <1>6, <1>7 DEF AllInPlace

\* Steps that change no state and no number of an event.
LEMMA SameNumbersStep ==
    ASSUME TypeOK, NumberedOnce, RefusedQuarantined,
           store'.status = store.status, store'.asg = store.asg,
           store'.seq = store.seq, store'.next = store.next
    PROVE  NumberedOnce' /\ RefusedQuarantined'
BY DEF NumberedOnce, RefusedQuarantined, Queued

\* Enqueue hands out numbers no event ever had.
LEMMA EnqueueNumbers ==
    ASSUME IndInv, NumberedOnce, RefusedQuarantined, NEW a \in Assignment, NEW S \in SUBSET Event,
           NEW number \in Numberings(S, store.next[a]), Enqueue(a, S, number)
    PROVE  /\ NumberedOnce' /\ RefusedQuarantined'
           /\ \A e \in Event : Queued(e) =>
                 store'.status[e] # "new" /\ store'.asg[e] = store.asg[e] /\ store'.seq[e] = store.seq[e]
<1>1. /\ store.status \in [Event -> Status] /\ store.asg \in [Event -> Assignment]
      /\ store.seq \in [Event -> Nat] /\ store.next \in [Assignment -> Nat]
  BY DEF IndInv, TypeOK, Store
<1>2. Cardinality(S) \in Nat
  BY EventFinite, FS_Subset, FS_CardinalityType
<1>3. /\ \A e \in S : /\ number[e] \in Nat /\ store.next[a] <= number[e]
                     /\ number[e] < store.next[a] + Cardinality(S)
      /\ \A e, f \in S : number[e] = number[f] => e = f
  BY <1>1, <1>2 DEF Numberings
<1>4. /\ store'.status = [e \in Event |-> IF e \in S THEN "pending" ELSE store.status[e]]
      /\ store'.asg = store.asg
      /\ store'.seq = [e \in Event |-> IF e \in S THEN number[e] ELSE store.seq[e]]
      /\ store'.next = [store.next EXCEPT ![a] = @ + Cardinality(S)]
      /\ \A e \in S : store.status[e] = "new" /\ store.asg[e] = a
  BY DEF Enqueue
<1>5. \A e \in Event : Queued(e)' <=> e \in S \/ Queued(e)
  BY <1>4 DEF Queued
<1>6. \A e \in Event : Queued(e) => store.seq[e] < store.next[store.asg[e]] /\ e \notin S
  BY <1>4 DEF NumberedOnce, Queued
<1>7. ASSUME NEW e \in Event, Queued(e)' PROVE store'.seq[e] < store'.next[store'.asg[e]]
  <2>1. CASE e \in S
    BY <2>1, <1>1, <1>2, <1>3, <1>4
  <2>2. CASE e \notin S
    BY <2>2, <1>1, <1>2, <1>4, <1>5, <1>6, <1>7
  <2> QED BY <2>1, <2>2
<1>8. ASSUME NEW e \in Event, NEW f \in Event, Queued(e)', Queued(f)',
             store'.asg[e] = store'.asg[f], store'.seq[e] = store'.seq[f]
      PROVE  e = f
  <2>1. CASE e \in S /\ f \in S
    BY <1>8, <2>1, <1>3, <1>4
  <2>2. CASE e \in S /\ f \notin S
    BY <1>8, <2>2, <1>1, <1>3, <1>4, <1>5, <1>6
  <2>3. CASE e \notin S /\ f \in S
    BY <1>8, <2>3, <1>1, <1>3, <1>4, <1>5, <1>6
  <2>4. CASE e \notin S /\ f \notin S
    BY <1>8, <2>4, <1>4, <1>5 DEF NumberedOnce
  <2> QED BY <2>1, <2>2, <2>3, <2>4
<1>9. RefusedQuarantined'
  BY <1>4 DEF RefusedQuarantined
<1> HIDE DEF Queued
<1>10. NumberedOnce'
  BY <1>7, <1>8 DEF NumberedOnce
<1> QED BY <1>4, <1>6, <1>9, <1>10 DEF Queued

\* Core ingests an event, of the request that is waited for or of a stray.
LEMMA IngestUndisturbed ==
    ASSUME IndInv, Undisturbed, resets = 0, NEW m \in Message, InPlace(m), NEW receipt, IngestOne(m, receipt),
           UNCHANGED <<store, resets>>,
           \A t \in strays' : \A i \in DOMAIN t : InPlace(t[i]),
           \A i \in DOMAIN request'.todo : InPlace(request'.todo[i]),
           request'.receipts = request.receipts \/ request'.receipts = Append(request.receipts, receipt)
    PROVE  Undisturbed'
<1>1. core' \subseteq core \cup {m} /\ receipt \in Receipt
  BY IngestOneOK DEF IndInv
<1>2. Harmless(receipt)
  BY AnswerHarmless DEF IndInv, Undisturbed
<1>3. \A x : InPlace(x)' <=> InPlace(x)
  BY DEF InPlace, Queued
<1>4. AllInPlace'
  <2>1. \A x \in core' : InPlace(x)
    BY <1>1 DEF Undisturbed, AllInPlace
  <2> HIDE DEF InPlace
  <2> QED BY <1>3, <2>1 DEF AllInPlace
<1>5. NumberedOnce' /\ RefusedQuarantined'
  BY DEF Undisturbed, NumberedOnce, RefusedQuarantined, Queued
<1>6. ReceiptsHarmless'
  <2>1. request.receipts \in Seq(Receipt) /\ \A i \in DOMAIN request.receipts : Harmless(request.receipts[i])
    BY DEF IndInv, TypeOK, Undisturbed, ReceiptsHarmless
  <2>2. CASE request'.receipts = request.receipts
    BY <2>1, <2>2 DEF ReceiptsHarmless
  <2>3. CASE request'.receipts = Append(request.receipts, receipt)
    <3>1. \A i \in DOMAIN request'.receipts :
             \/ i \in DOMAIN request.receipts /\ request'.receipts[i] = request.receipts[i]
             \/ request'.receipts[i] = receipt
      BY <1>1, <2>1, <2>3
    <3> QED BY <1>2, <2>1, <3>1 DEF ReceiptsHarmless
  <2> QED BY <2>2, <2>3
<1> QED BY <1>4, <1>5, <1>6 DEF Undisturbed

\* Every step preserves Undisturbed; after a reset nothing is claimed.
LEMMA UndisturbedStep ==
    IndInv /\ Undisturbed /\ [Next]_vars => Undisturbed'
<1> SUFFICES ASSUME IndInv, Undisturbed, [Next]_vars, resets' = 0
             PROVE  AllInPlace' /\ NumberedOnce' /\ ReceiptsHarmless' /\ RefusedQuarantined'
  BY DEF Undisturbed
<1>0. /\ TypeOK /\ store \in Store /\ resets \in Nat
      /\ request \in [todo : Seq(Message), receipts : Seq(Receipt)]
      /\ strays \subseteq Seq(Message) \ {<<>>}
  BY DEF IndInv, TypeOK
<1>1. CASE ResetState
  BY <1>0, <1>1 DEF ResetState
<1>2. CASE ~ResetState
  <2>0. resets = 0
    BY <1>2 DEF Next, vars, EnqueueSome, Enqueue, SendSome, Send, DeliveryFails, Restart, BackoffElapses,
                IngestSome, Ingest, IngestStraySome, IngestStray, ApplyReceipts
  <2>1. AllInPlace /\ NumberedOnce /\ ReceiptsHarmless /\ RefusedQuarantined
    BY <2>0 DEF Undisturbed
  <2>2. ASSUME store'.status = store.status, store'.asg = store.asg,
               store'.seq = store.seq, store'.next = store.next, core' = core,
               DOMAIN request'.receipts = {} \/ request' = request,
               request'.todo = <<>> \/ request'.todo = request.todo,
               \A t \in strays' : t \in strays \/ t = request.todo
        PROVE  AllInPlace' /\ NumberedOnce' /\ ReceiptsHarmless' /\ RefusedQuarantined'
    <3>1. AllInPlace'
      BY <1>0, <2>1, <2>2, StaysInPlace DEF Queued
    <3>2. NumberedOnce' /\ RefusedQuarantined'
      BY <1>0, <2>1, <2>2, SameNumbersStep
    <3>3. ReceiptsHarmless'
      BY <2>1, <2>2 DEF ReceiptsHarmless
    <3> QED BY <3>1, <3>2, <3>3
  <2>3. CASE EnqueueSome
    <3>1. PICK a \in Assignment, S \in (SUBSET Event) \ {{}} :
             \E number \in Numberings(S, store.next[a]) : Enqueue(a, S, number)
      BY <2>3 DEF EnqueueSome
    <3>2. PICK number \in Numberings(S, store.next[a]) : Enqueue(a, S, number)
      BY <3>1
    <3>3. UNCHANGED <<request, strays, core>>
      BY <3>2 DEF Enqueue
    <3>4. /\ NumberedOnce' /\ RefusedQuarantined'
          /\ \A e \in Event : Queued(e) =>
                store'.status[e] # "new" /\ store'.asg[e] = store.asg[e] /\ store'.seq[e] = store.seq[e]
      BY <2>1, <3>2, EnqueueNumbers
    <3>5. AllInPlace'
      BY <1>0, <2>1, <3>3, <3>4, StaysInPlace
    <3>6. ReceiptsHarmless'
      BY <2>1, <3>3 DEF ReceiptsHarmless
    <3> QED BY <3>4, <3>5, <3>6
  <2>4. CASE SendSome
    <3>0. PICK n \in 1 .. BatchLimit : \E q \in [1 .. n -> Due] : Send(q)
      BY <2>4 DEF SendSome
    <3>1. PICK q \in [1 .. n -> Due] : Send(q)
      BY <3>0
    <3>2. /\ n \in Nat /\ Len(q) = n
          /\ \A i \in 1 .. n : q[i] \in Event /\ store.status[q[i]] = "pending"
      BY BoundsAreNaturals DEF Due
    <3> DEFINE todo == [i \in 1 .. n |-> [event |-> q[i], asg |-> store.asg[q[i]], seq |-> store.seq[q[i]]]]
    <3>3. request' = [todo |-> todo, receipts |-> <<>>] /\ UNCHANGED <<store, strays, core>>
      BY <3>1, <3>2 DEF Send
    <3>4. DOMAIN todo = 1 .. n /\ \A i \in 1 .. n : InPlace(todo[i])
      BY <3>2 DEF InPlace, Queued
    <3> HIDE DEF todo
    <3>5. request'.todo = todo /\ DOMAIN request'.receipts = {}
      BY <3>3
    <3>6. \A x : InPlace(x)' <=> InPlace(x)
      BY <3>3 DEF InPlace, Queued
    <3>7. AllInPlace'
      <4> HIDE DEF InPlace
      <4> QED BY <2>1, <3>3, <3>4, <3>5, <3>6 DEF AllInPlace
    <3>8. NumberedOnce' /\ RefusedQuarantined'
      BY <1>0, <2>1, <3>3, SameNumbersStep
    <3> QED BY <3>5, <3>7, <3>8 DEF ReceiptsHarmless
  <2>5. CASE DeliveryFails
    <3>1. /\ store'.status = store.status /\ store'.asg = store.asg
          /\ store'.seq = store.seq /\ store'.next = store.next
      BY <1>0, <2>5 DEF DeliveryFails, Store
    <3>2. DOMAIN request'.receipts = {}
      BY <1>0, <2>5, AbandonOK DEF DeliveryFails
    <3> QED BY <2>2, <2>5, <3>1, <3>2 DEF DeliveryFails, Abandon, Idle
  <2>6. CASE Restart
    <3>1. DOMAIN request'.receipts = {}
      BY <1>0, <2>6, AbandonOK DEF Restart
    <3> QED BY <2>2, <2>6, <3>1 DEF Restart, Abandon, Idle
  <2>7. CASE \E e \in Event : BackoffElapses(e)
    <3>1. PICK e \in Event : BackoffElapses(e)
      BY <2>7
    <3>2. /\ store'.status = store.status /\ store'.asg = store.asg
          /\ store'.seq = store.seq /\ store'.next = store.next
          /\ UNCHANGED <<request, strays, core>>
      BY <1>0, <3>1 DEF BackoffElapses, Store
    <3> QED BY <2>2, <3>2
  <2>8. CASE IngestSome
    <3>1. PICK receipt \in Receipts(Head(request.todo)) : Ingest(receipt)
      BY <2>8 DEF IngestSome
    <3>2. request.todo # <<>> /\ request.todo \in Seq(Message)
      BY <1>0, <3>1 DEF Ingest
    <3>3. Head(request.todo) \in Message /\ InPlace(Head(request.todo))
      <4>1. Head(request.todo) = request.todo[1] /\ 1 \in DOMAIN request.todo
        BY <3>2
      <4> QED BY <2>1, <3>2, <4>1 DEF AllInPlace
    <3>4. \A i \in DOMAIN Tail(request.todo) : InPlace(Tail(request.todo)[i])
      <4> SUFFICES ASSUME NEW i \in DOMAIN Tail(request.todo) PROVE InPlace(Tail(request.todo)[i])
        OBVIOUS
      <4>1. i + 1 \in DOMAIN request.todo /\ Tail(request.todo)[i] = request.todo[i + 1]
        BY <3>2
      <4> QED BY <2>1, <4>1 DEF AllInPlace
    <3>5. /\ request'.todo = Tail(request.todo) /\ request'.receipts = Append(request.receipts, receipt)
          /\ UNCHANGED <<store, strays, resets>> /\ IngestOne(Head(request.todo), receipt)
      BY <3>1 DEF Ingest
    <3>6. \A t \in strays' : \A i \in DOMAIN t : InPlace(t[i])
      BY <2>1, <3>5 DEF AllInPlace
    <3>7. Undisturbed'
      BY <2>0, <3>3, <3>4, <3>5, <3>6, IngestUndisturbed
    <3> QED BY <3>7 DEF Undisturbed
  <2>9. CASE IngestStraySome
    <3>0. PICK t \in strays : \E receipt \in Receipts(Head(t)) : IngestStray(t, receipt)
      BY <2>9 DEF IngestStraySome
    <3>1. PICK receipt \in Receipts(Head(t)) : IngestStray(t, receipt)
      BY <3>0
    <3>2. t # <<>> /\ t \in Seq(Message)
      BY <1>0
    <3>3. Head(t) \in Message /\ InPlace(Head(t))
      <4>1. Head(t) = t[1] /\ 1 \in DOMAIN t
        BY <3>2
      <4> QED BY <2>1, <3>2, <4>1 DEF AllInPlace
    <3>4. \A i \in DOMAIN Tail(t) : InPlace(Tail(t)[i])
      <4> SUFFICES ASSUME NEW i \in DOMAIN Tail(t) PROVE InPlace(Tail(t)[i])
        OBVIOUS
      <4>1. i + 1 \in DOMAIN t /\ Tail(t)[i] = t[i + 1]
        BY <3>2
      <4> QED BY <2>1, <4>1 DEF AllInPlace
    <3>5. /\ strays' = (strays \ {t}) \cup ({Tail(t)} \ {<<>>})
          /\ UNCHANGED <<store, request, resets>> /\ IngestOne(Head(t), receipt)
      BY <3>1 DEF IngestStray
    <3>6. \A u \in strays' : \A i \in DOMAIN u : InPlace(u[i])
      BY <2>1, <3>4, <3>5 DEF AllInPlace
    <3>7. \A i \in DOMAIN request'.todo : InPlace(request'.todo[i])
      BY <2>1, <3>5 DEF AllInPlace
    <3>8. Undisturbed'
      BY <2>0, <3>3, <3>5, <3>6, <3>7, IngestUndisturbed
    <3> QED BY <3>8 DEF Undisturbed
  <2>10. CASE ApplyReceipts
    <3>1. store' = Applied(store, request.receipts) /\ request' = Idle /\ UNCHANGED <<strays, core>>
      BY <2>10 DEF ApplyReceipts
    <3>2. Settles(store, store')
      BY <1>0, <2>1, <3>1, AppliedSettles DEF ReceiptsHarmless
    <3>3. \A e \in Event : /\ Queued(e)' <=> Queued(e)
                          /\ store'.asg[e] = store.asg[e] /\ store'.seq[e] = store.seq[e]
      BY <3>2 DEF Settles, Queued
    <3>4. AllInPlace'
      BY <1>0, <2>1, <3>1, <3>3, StaysInPlace DEF Queued, Idle
    <3>5. NumberedOnce'
      BY <2>1, <3>2, <3>3 DEF NumberedOnce, Settles
    <3>6. RefusedQuarantined'
      BY <2>1, <3>2 DEF RefusedQuarantined, Settles
    <3>7. ReceiptsHarmless'
      BY <3>1 DEF ReceiptsHarmless, Idle
    <3> QED BY <3>4, <3>5, <3>6, <3>7
  <2>11. CASE UNCHANGED vars
    BY <2>2, <2>11 DEF vars
  <2> QED BY <1>2, <2>3, <2>4, <2>5, <2>6, <2>7, <2>8, <2>9, <2>10, <2>11 DEF Next
<1> QED BY <1>1, <1>2

\* ApplyReceipts quarantines only events that Core's validation refuses, as
\* long as the connector keeps its state volume, whatever requests and answers
\* are lost, late or repeated (OnlyRefusedQuarantined).
THEOREM OnlyRefusalsQuarantine == Spec => []OnlyRefusedQuarantined
<1>1. Init => Undisturbed
  BY DEF Init, Undisturbed, AllInPlace, NumberedOnce, ReceiptsHarmless, RefusedQuarantined, Queued, Idle
<1>2. Undisturbed => OnlyRefusedQuarantined
  BY DEF Undisturbed, RefusedQuarantined, OnlyRefusedQuarantined
<1> QED BY <1>1, <1>2, UndisturbedStep, Invariant, PTL DEF Spec

-----------------------------------------------------------------------------
(* The refinement of EventLedger.                                          *)

\* Nothing of an event reaches Core before an adapter queued it.
LEMMA OnlyQueuedSentStep ==
    IndInv /\ OnlyQueuedSent /\ [Next]_vars => OnlyQueuedSent'
<1> SUFFICES ASSUME IndInv, OnlyQueuedSent, [Next]_vars PROVE OnlyQueuedSent'
  OBVIOUS
<1>0. /\ store \in Store /\ core \subseteq Message
      /\ request \in [todo : Seq(Message), receipts : Seq(Receipt)]
      /\ strays \subseteq Seq(Message) \ {<<>>}
  BY DEF IndInv, TypeOK
<1> DEFINE Sent(m) == store.status[m.event] # "new"
<1>a. /\ \A m \in core : Sent(m)
      /\ \A i \in DOMAIN request.todo : Sent(request.todo[i])
      /\ \A t \in strays : \A i \in DOMAIN t : Sent(t[i])
  BY DEF OnlyQueuedSent
<1>b. ASSUME \A e \in Event : store.status[e] # "new" => store'.status[e] # "new",
             core' \subseteq core,
             \/ request'.todo = <<>>
             \/ request'.todo = request.todo,
             \A t \in strays' : t \in strays \/ t = request.todo
      PROVE  OnlyQueuedSent'
  <2>1. \A m \in Message : Sent(m) => store'.status[m.event] # "new"
    BY <1>b DEF Message
  <2>2. \A i \in DOMAIN request.todo : request.todo[i] \in Message
    BY <1>0
  <2>3. \A t \in strays' : \A i \in DOMAIN t : t[i] \in Message /\ Sent(t[i])
    BY <1>0, <1>a, <1>b, <2>2
  <2>4. \A i \in DOMAIN request'.todo : request'.todo[i] \in Message /\ Sent(request'.todo[i])
    BY <1>a, <1>b, <2>2
  <2>5. \A m \in core' : m \in Message /\ Sent(m)
    BY <1>0, <1>a, <1>b
  <2> HIDE DEF Sent
  <2> QED BY <2>1, <2>3, <2>4, <2>5 DEF OnlyQueuedSent
<1>c. ASSUME NEW m \in Message, Sent(m), NEW receipt, IngestOne(m, receipt), store' = store,
             \A i \in DOMAIN request'.todo : request'.todo[i] \in Message /\ Sent(request'.todo[i]),
             \A t \in strays' : \A i \in DOMAIN t : Sent(t[i])
      PROVE  OnlyQueuedSent'
  <2>1. core' \subseteq core \cup {m}
    BY <1>c, IngestOneOK DEF IndInv
  <2> QED BY <1>a, <1>c, <2>1 DEF OnlyQueuedSent
<1>1. CASE EnqueueSome
  <2>1. PICK a \in Assignment, S \in (SUBSET Event) \ {{}} :
           \E number \in Numberings(S, store.next[a]) : Enqueue(a, S, number)
    BY <1>1 DEF EnqueueSome
  <2>2. PICK number : Enqueue(a, S, number)
    BY <2>1
  <2>3. /\ store'.status = [e \in Event |-> IF e \in S THEN "pending" ELSE store.status[e]]
        /\ UNCHANGED <<request, strays, core>>
    BY <2>2 DEF Enqueue
  <2> QED BY <1>b, <2>3
<1>2. CASE SendSome
  <2>0. PICK n \in 1 .. BatchLimit : \E q \in [1 .. n -> Due] : Send(q)
    BY <1>2 DEF SendSome
  <2>1. PICK q \in [1 .. n -> Due] : Send(q)
    BY <2>0
  <2>2. /\ n \in Nat /\ Len(q) = n
        /\ \A i \in 1 .. n : q[i] \in Event /\ store.status[q[i]] = "pending"
    BY BoundsAreNaturals DEF Due
  <2> DEFINE todo == [i \in 1 .. n |-> [event |-> q[i], asg |-> store.asg[q[i]], seq |-> store.seq[q[i]]]]
  <2>3. request'.todo = todo /\ UNCHANGED <<store, strays, core>>
    BY <2>1, <2>2 DEF Send
  <2>4. DOMAIN todo = 1 .. n /\ \A i \in 1 .. n : todo[i].event = q[i]
    OBVIOUS
  <2> HIDE DEF todo
  <2> QED BY <1>a, <2>2, <2>3, <2>4 DEF OnlyQueuedSent
<1>3. CASE DeliveryFails
  <2>1. store'.status = store.status
    BY <1>0, <1>3 DEF DeliveryFails, Store
  <2> QED BY <1>3, <1>b, <2>1 DEF DeliveryFails, Abandon, Idle
<1>4. CASE Restart
  BY <1>4, <1>b DEF Restart, Abandon, Idle
<1>5. CASE \E e \in Event : BackoffElapses(e)
  <2>1. PICK e \in Event : BackoffElapses(e)
    BY <1>5
  <2>2. store'.status = store.status /\ UNCHANGED <<request, strays, core>>
    BY <1>0, <2>1 DEF BackoffElapses, Store
  <2> QED BY <1>b, <2>2
<1>6. CASE ResetState
  <2>1. store'.status = [e \in Event |-> IF e \in Rows(store) THEN "lost" ELSE store.status[e]]
    BY <1>0, <1>6 DEF ResetState, Store
  <2>2. \A e \in Event : store.status[e] # "new" => store'.status[e] # "new"
    BY <2>1
  <2> QED BY <1>6, <1>b, <2>2 DEF ResetState, Abandon, Idle
<1>7. CASE IngestSome
  <2>1. PICK receipt \in Receipts(Head(request.todo)) : Ingest(receipt)
    BY <1>7 DEF IngestSome
  <2>2. request.todo # <<>> /\ request.todo \in Seq(Message)
    BY <1>0, <2>1 DEF Ingest
  <2>3. Head(request.todo) \in Message /\ Sent(Head(request.todo))
    <3>1. Head(request.todo) = request.todo[1] /\ 1 \in DOMAIN request.todo
      BY <2>2
    <3> QED BY <1>a, <2>2, <3>1
  <2>4. \A i \in DOMAIN Tail(request.todo) :
          Tail(request.todo)[i] \in Message /\ Sent(Tail(request.todo)[i])
    <3> SUFFICES ASSUME NEW i \in DOMAIN Tail(request.todo)
                 PROVE  Tail(request.todo)[i] \in Message /\ Sent(Tail(request.todo)[i])
      OBVIOUS
    <3>1. i + 1 \in DOMAIN request.todo /\ Tail(request.todo)[i] = request.todo[i + 1]
      BY <2>2
    <3> QED BY <1>a, <2>2, <3>1
  <2>5. request'.todo = Tail(request.todo) /\ store' = store /\ strays' = strays
        /\ IngestOne(Head(request.todo), receipt)
    BY <2>1 DEF Ingest
  <2> HIDE DEF Sent
  <2> QED BY <1>a, <1>c, <2>3, <2>4, <2>5
<1>8. CASE IngestStraySome
  <2>0. PICK t \in strays : \E receipt \in Receipts(Head(t)) : IngestStray(t, receipt)
    BY <1>8 DEF IngestStraySome
  <2>1. PICK receipt \in Receipts(Head(t)) : IngestStray(t, receipt)
    BY <2>0
  <2>2. t # <<>> /\ t \in Seq(Message)
    BY <1>0
  <2>3. Head(t) \in Message /\ Sent(Head(t))
    <3>1. Head(t) = t[1] /\ 1 \in DOMAIN t
      BY <2>2
    <3> QED BY <1>a, <2>2, <3>1
  <2>4. \A i \in DOMAIN Tail(t) : Sent(Tail(t)[i])
    <3> SUFFICES ASSUME NEW i \in DOMAIN Tail(t) PROVE Sent(Tail(t)[i])
      OBVIOUS
    <3>1. i + 1 \in DOMAIN t /\ Tail(t)[i] = t[i + 1]
      BY <2>2
    <3> QED BY <1>a, <3>1
  <2>5. request' = request /\ store' = store
        /\ strays' = (strays \ {t}) \cup ({Tail(t)} \ {<<>>})
        /\ IngestOne(Head(t), receipt)
    BY <2>1 DEF IngestStray
  <2>6. \A i \in DOMAIN request.todo : request.todo[i] \in Message
    BY <1>0
  <2> HIDE DEF Sent
  <2>7. \A u \in strays' : \A i \in DOMAIN u : Sent(u[i])
    BY <1>a, <2>4, <2>5
  <2> QED BY <1>a, <1>c, <2>3, <2>5, <2>6, <2>7
<1>9. CASE ApplyReceipts
  <2>1. Follows(store, store')
    BY <1>0, <1>9, AppliedOK DEF ApplyReceipts, IndInv, LocalSequencesUnique, ReceiptsTruthful
  <2>2. \A e \in Event : store.status[e] # "new" => store'.status[e] # "new"
    BY <2>1 DEF Follows
  <2> QED BY <1>9, <1>b, <2>2 DEF ApplyReceipts, Idle
<1>10. CASE UNCHANGED vars
  BY <1>10, <1>b DEF vars
<1> QED BY <1>1, <1>2, <1>3, <1>4, <1>5, <1>6, <1>7, <1>8, <1>9, <1>10 DEF Next

\* The value of the refinement mapping, case by case.
LEMMA FateValue ==
    ASSUME NEW e \in Event, store \in Store
    PROVE  /\ HeldByCore(e) => Fate[e] = "recorded"
           /\ ~HeldByCore(e) =>
                /\ store.status[e] = "new" <=> Fate[e] = "new"
                /\ store.status[e] = "pending" <=> Fate[e] = "owed"
                /\ store.status[e] = "quarantined" <=> Fate[e] = "refused"
                /\ store.status[e] = "lost" <=> Fate[e] = "lost"
                /\ store.status[e] = "deleted" <=> Fate[e] = "vanished"
<1>1. store.status[e] \in {"new", "pending", "quarantined", "deleted", "lost"}
  BY DEF Store, Status
<1>2. Fate[e] = IF HeldByCore(e) THEN "recorded" ELSE FateOf(store.status[e])
  BY DEF Fate
<1> HIDE DEF HeldByCore
<1> QED BY <1>1, <1>2 DEF FateOf

\* A step that keeps the rows' states and the ledger is a stutter.
LEMMA SameFate ==
    ASSUME store'.status = store.status, core' = core
    PROVE  Fate' = Fate
  BY DEF Fate, HeldByCore

\* Storing one accepted event records it.
LEMMA IngestRecords ==
    ASSUME IndInv, OnlyQueuedSent, NEW m \in Message, store.status[m.event] # "new",
           NEW receipt, IngestOne(m, receipt), store' = store
    PROVE  [Ledger!Next]_Fate
<1>1. CASE core' = core
  BY <1>1, SameFate
<1>2. CASE core' # core
  <2>1. core' = core \cup {m} /\ Verdict(m) = "accepted"
    BY <1>2 DEF IngestOne
  <2>2. m.event \notin Refused /\ ~HeldByCore(m.event)
    BY <2>1 DEF Verdict, Held, HeldByCore
  <2>3. store \in Store /\ m.event \in Event
    BY DEF IndInv, TypeOK, Message
  <2>4. store.status[m.event] \in {"pending", "lost"}
    <3>1. store.status[m.event] \in {"new", "pending", "quarantined", "deleted", "lost"}
      BY <2>3 DEF Store, Status
    <3>2. store.status[m.event] # "deleted" /\ store.status[m.event] # "quarantined"
      BY <2>2, <2>3 DEF IndInv, DeletedOnlyWhenHeld, QuarantinedOnlyWhenSettled
    <3> QED BY <3>1, <3>2
  <2>5. Fate[m.event] \in {"owed", "lost"}
    BY <2>2, <2>3, <2>4, FateValue
  <2>6. \A e : HeldByCore(e)' <=> (HeldByCore(e) \/ e = m.event)
    BY <2>1 DEF HeldByCore
  <2>7. Fate' = [e \in Event |-> IF e \in {m.event} THEN "recorded" ELSE Fate[e]]
    <3>1. \A e \in Event : Fate'[e] = IF e \in {m.event} THEN "recorded" ELSE Fate[e]
      <4> TAKE e \in Event
      <4>1. Fate[e] = IF HeldByCore(e) THEN "recorded" ELSE FateOf(store.status[e])
        BY DEF Fate
      <4>2. Fate'[e] = IF HeldByCore(e)' THEN "recorded" ELSE FateOf(store'.status[e])
        BY DEF Fate
      <4> HIDE DEF HeldByCore
      <4> QED BY <2>6, <4>1, <4>2
    <3>2. Fate' = [e \in Event |-> Fate'[e]]
      BY DEF Fate
    <3> HIDE DEF Fate
    <3> QED BY <3>1, <3>2
  <2>8. Ledger!Record(m.event)
    BY <2>2, <2>5, <2>7 DEF Ledger!Record, Ledger!Become
  <2> QED BY <2>3, <2>8 DEF Ledger!Next
<1> QED BY <1>1, <1>2

\* Every step of the delivery is a step of the ledger or a stutter.
LEMMA LedgerStep ==
    IndInv /\ IndInv' /\ OnlyQueuedSent /\ [Next]_vars => [Ledger!Next]_Fate
<1> SUFFICES ASSUME IndInv, IndInv', OnlyQueuedSent, [Next]_vars PROVE [Ledger!Next]_Fate
  OBVIOUS
<1>0. /\ store \in Store /\ store' \in Store /\ core \subseteq Message
      /\ request \in [todo : Seq(Message), receipts : Seq(Receipt)]
      /\ strays \subseteq Seq(Message) \ {<<>>}
  BY DEF IndInv, TypeOK
<1>1. CASE EnqueueSome
  <2>1. PICK a \in Assignment, S \in (SUBSET Event) \ {{}} :
           \E number \in Numberings(S, store.next[a]) : Enqueue(a, S, number)
    BY <1>1 DEF EnqueueSome
  <2>2. PICK number : Enqueue(a, S, number)
    BY <2>1
  <2>3. /\ store'.status = [e \in Event |-> IF e \in S THEN "pending" ELSE store.status[e]]
        /\ \A e \in S : store.status[e] = "new"
        /\ core' = core
    BY <2>2 DEF Enqueue
  <2>4. \A e \in S : ~HeldByCore(e)
    BY <2>3 DEF OnlyQueuedSent, HeldByCore
  <2>5. \A e : HeldByCore(e)' <=> HeldByCore(e)
    BY <2>3 DEF HeldByCore
  <2>6. \A e \in S : Fate[e] = "new"
    BY <1>0, <2>3, <2>4, FateValue
  <2>7. Fate' = [e \in Event |-> IF e \in S THEN "owed" ELSE Fate[e]]
    <3>1. \A e \in Event : Fate'[e] = IF e \in S THEN "owed" ELSE Fate[e]
      <4> TAKE e \in Event
      <4>1. Fate[e] = IF HeldByCore(e) THEN "recorded" ELSE FateOf(store.status[e])
        BY DEF Fate
      <4>2. Fate'[e] = IF HeldByCore(e)' THEN "recorded" ELSE FateOf(store'.status[e])
        BY DEF Fate
      <4>3. FateOf("pending") = "owed"
        BY DEF FateOf
      <4> QED BY <2>3, <2>4, <2>5, <4>1, <4>2, <4>3
    <3>2. Fate' = [e \in Event |-> Fate'[e]]
      BY DEF Fate
    <3> HIDE DEF Fate
    <3> QED BY <3>1, <3>2
  <2>8. Ledger!Produce(S)
    BY <2>1, <2>6, <2>7 DEF Ledger!Produce, Ledger!Become
  <2> QED BY <2>8 DEF Ledger!Next
<1>2. CASE SendSome \/ Restart \/ UNCHANGED vars
  BY <1>2, SameFate DEF SendSome, Send, Restart, vars
<1>3. CASE DeliveryFails
  <2>1. store'.status = store.status /\ core' = core
    BY <1>0, <1>3 DEF DeliveryFails, Store
  <2> QED BY <2>1, SameFate
<1>4. CASE \E e \in Event : BackoffElapses(e)
  <2>1. PICK e \in Event : BackoffElapses(e)
    BY <1>4
  <2>2. store'.status = store.status /\ core' = core
    BY <1>0, <2>1 DEF BackoffElapses, Store
  <2> QED BY <2>2, SameFate
<1>5. CASE ResetState
  <2> DEFINE L == {e \in Rows(store) : ~HeldByCore(e)}
  <2>1. store'.status = [e \in Event |-> IF e \in Rows(store) THEN "lost" ELSE store.status[e]]
        /\ core' = core
    BY <1>0, <1>5 DEF ResetState, Store
  <2>2. \A e : HeldByCore(e)' <=> HeldByCore(e)
    BY <2>1 DEF HeldByCore
  <2> HIDE DEF HeldByCore
  <2>3. \A e \in L : e \in Event /\ Fate[e] \in {"owed", "refused"}
    BY <1>0, FateValue DEF Rows
  <2>4. Fate' = [e \in Event |-> IF e \in L THEN "lost" ELSE Fate[e]]
    <3>1. \A e \in Event : Fate'[e] = IF e \in L THEN "lost" ELSE Fate[e]
      <4> TAKE e \in Event
      <4>1. Fate[e] = IF HeldByCore(e) THEN "recorded" ELSE FateOf(store.status[e])
        BY DEF Fate
      <4>2. Fate'[e] = IF HeldByCore(e)' THEN "recorded" ELSE FateOf(store'.status[e])
        BY DEF Fate
      <4>3. FateOf("lost") = "lost"
        BY DEF FateOf
      <4> QED BY <2>1, <2>2, <4>1, <4>2, <4>3
    <3>2. Fate' = [e \in Event |-> Fate'[e]]
      BY DEF Fate
    <3> HIDE DEF Fate
    <3> QED BY <3>1, <3>2
  <2> HIDE DEF L
  <2>5. CASE L = {}
    <3>1. Fate = [e \in Event |-> Fate[e]]
      BY DEF Fate
    <3> QED BY <2>4, <2>5, <3>1
  <2>6. CASE L # {}
    <3>1. Ledger!Lose(L) /\ L \in SUBSET Event
      BY <2>3, <2>4, <2>6 DEF Ledger!Lose, Ledger!Become
    <3> QED BY <3>1 DEF Ledger!Next
  <2> QED BY <2>5, <2>6
<1>6. CASE IngestSome
  <2>1. PICK receipt \in Receipts(Head(request.todo)) : Ingest(receipt)
    BY <1>6 DEF IngestSome
  <2>2. request.todo # <<>> /\ request.todo \in Seq(Message)
    BY <1>0, <2>1 DEF Ingest
  <2>3. Head(request.todo) = request.todo[1] /\ 1 \in DOMAIN request.todo
    BY <2>2
  <2>4. Head(request.todo) \in Message /\ store.status[Head(request.todo).event] # "new"
    BY <2>2, <2>3 DEF OnlyQueuedSent
  <2>5. IngestOne(Head(request.todo), receipt) /\ store' = store
    BY <2>1 DEF Ingest
  <2> QED BY <2>4, <2>5, IngestRecords
<1>7. CASE IngestStraySome
  <2>0. PICK t \in strays : \E receipt \in Receipts(Head(t)) : IngestStray(t, receipt)
    BY <1>7 DEF IngestStraySome
  <2>1. PICK receipt \in Receipts(Head(t)) : IngestStray(t, receipt)
    BY <2>0
  <2>2. t # <<>> /\ t \in Seq(Message)
    BY <1>0
  <2>3. Head(t) = t[1] /\ 1 \in DOMAIN t
    BY <2>2
  <2>4. Head(t) \in Message /\ store.status[Head(t).event] # "new"
    BY <2>2, <2>3 DEF OnlyQueuedSent
  <2>5. IngestOne(Head(t), receipt) /\ store' = store
    BY <2>1 DEF IngestStray
  <2> QED BY <2>4, <2>5, IngestRecords
<1>8. CASE ApplyReceipts
  <2> DEFINE R == {e \in Event : ~HeldByCore(e) /\ store'.status[e] # store.status[e]}
  <2>1. Follows(store, store') /\ core' = core
    BY <1>0, <1>8, AppliedOK DEF ApplyReceipts, IndInv, LocalSequencesUnique, ReceiptsTruthful
  <2>2. \A e : HeldByCore(e)' <=> HeldByCore(e)
    BY <2>1 DEF HeldByCore
  <2> HIDE DEF HeldByCore
  <2>3. \A e \in R : store.status[e] = "pending" /\ store'.status[e] = "quarantined" /\ e \in Refused
    BY <2>1 DEF Follows, Rows
  <2>4. \A e \in R : Fate[e] = "owed"
    BY <1>0, <2>3, FateValue
  <2>5. Fate' = [e \in Event |-> IF e \in R THEN "refused" ELSE Fate[e]]
    <3>1. \A e \in Event : Fate'[e] = IF e \in R THEN "refused" ELSE Fate[e]
      <4> TAKE e \in Event
      <4>1. Fate[e] = IF HeldByCore(e) THEN "recorded" ELSE FateOf(store.status[e])
        BY DEF Fate
      <4>2. Fate'[e] = IF HeldByCore(e)' THEN "recorded" ELSE FateOf(store'.status[e])
        BY DEF Fate
      <4>3. FateOf("quarantined") = "refused"
        BY DEF FateOf
      <4> QED BY <2>2, <2>3, <4>1, <4>2, <4>3
    <3>2. Fate' = [e \in Event |-> Fate'[e]]
      BY DEF Fate
    <3> HIDE DEF Fate
    <3> QED BY <3>1, <3>2
  <2>6. R \in SUBSET Event
    OBVIOUS
  <2> HIDE DEF R
  <2>7. CASE R = {}
    <3>1. Fate = [e \in Event |-> Fate[e]]
      BY DEF Fate
    <3> QED BY <2>5, <2>7, <3>1
  <2>8. CASE R # {}
    <3>1. Ledger!Refuse(R)
      BY <2>3, <2>4, <2>5, <2>8 DEF Ledger!Refuse, Ledger!Become
    <3> QED BY <2>6, <3>1 DEF Ledger!Next
  <2> QED BY <2>7, <2>8
<1> QED BY <1>1, <1>2, <1>3, <1>4, <1>5, <1>6, <1>7, <1>8 DEF Next

\* The delivery implements the exactly-once ledger, for every set of events
\* and any number of faults and resets.
THEOREM DeliveryImplementsLedger == Spec => ImplementsLedger
<1>1. Init => OnlyQueuedSent
  <2> SUFFICES ASSUME Init PROVE OnlyQueuedSent
    OBVIOUS
  <2>1. core = {} /\ strays = {} /\ DOMAIN request.todo = {}
    BY DEF Init, Idle
  <2> QED BY <2>1 DEF OnlyQueuedSent
<1>2. Init => Ledger!Init
  <2> SUFFICES ASSUME Init PROVE Fate = [e \in Event |-> "new"]
    BY DEF Ledger!Init
  <2>1. \A e : ~HeldByCore(e)
    BY DEF Init, HeldByCore
  <2>2. \A e \in Event : store.status[e] = "new"
    BY DEF Init
  <2>3. FateOf("new") = "new"
    BY DEF FateOf
  <2> HIDE DEF HeldByCore
  <2> QED BY <2>1, <2>2, <2>3 DEF Fate
<1>3. Spec => [](IndInv /\ OnlyQueuedSent)
  BY <1>1, OnlyQueuedSentStep, Invariant, PTL DEF Spec
<1>4. Spec => Ledger!Spec
  BY <1>2, <1>3, LedgerStep, PTL DEF Spec, Ledger!Spec
<1> QED BY <1>4 DEF ImplementsLedger
=============================================================================
