------------------------- MODULE LocalUpdaterProofs -------------------------
(***************************************************************************)
(* Proofs about LocalUpdater for any number of releases, requests,         *)
(* heartbeats and faults. Two arguments: requests pass from Core to the    *)
(* connector, to the request file, to the updater and into the result file *)
(* in the order of their IDs, so a request whose result was replaced by a  *)
(* newer one is never handed over again; and whatever is in .env while the *)
(* updater is at rest has run or was left there by an update that did not  *)
(* finish.                                                                 *)
(***************************************************************************)
EXTENDS LocalUpdater, FiniteSetTheorems, TLAPS

-----------------------------------------------------------------------------
(* The inductive invariant *)

\* The request that the result file answers; 0 if none or if it answers an
\* unreadable file.
ResultId == IF exchange.result.id = Alien THEN 0 ELSE exchange.result.id

\* Of two requests that are both there, the first is not newer.
Before(i, j) == i > 0 /\ j > 0 => i <= j

\* Result file, updater, request file, connector and Core hold requests in the
\* order of their IDs. This is what Submit and the one pending offer of the
\* connector give: an older request never follows a newer one.
Handover ==
    /\ Before(ResultId, updater.request.id) /\ Before(ResultId, exchange.request.id)
    /\ Before(ResultId, offer.id) /\ ResultId <= core.id
    /\ Before(updater.request.id, exchange.request.id)
    /\ Before(updater.request.id, offer.id) /\ updater.request.id <= core.id
    /\ Before(exchange.request.id, offer.id) /\ exchange.request.id <= core.id
    /\ offer.id <= core.id
    /\ \A beat \in beats : beat.result.id <= core.id \/ beat.result.id = Alien
    /\ updater.request.id > 0 <=> updater.pc \notin {"down", "idle"}

\* Request r is past: what is anywhere on the way is newer.
Over(r) ==
    /\ r < core.id
    /\ offer.id > 0 => r < offer.id
    /\ exchange.request.id > 0 => r < exchange.request.id
    /\ updater.request.id > 0 => r < updater.request.id

\* A request .env was rewritten for is the one in the result file, or past,
\* unless the result was replaced by the answer to an unreadable file; before
\* the rewriting the result file says in_progress. Without Over this is not
\* inductive: the result file alone forgets r when the next request is
\* answered.
Attempts ==
    /\ \A r \in RequestId \ past.overwritten :
          /\ past.attempts[r] <= 1
          /\ past.attempts[r] > 0 => ResultId = r \/ Over(r)
    /\ updater.pc = "rewrite" =>
          /\ exchange.result.id = updater.request.id
          /\ updater.request.id \in past.overwritten \/ past.attempts[updater.request.id] = 0

\* The release has run, or an unfinished update left it in .env.
Explained(v) == v \in past.ran \cup past.leftInEnv

\* What .env names is explained, or is the release being installed, and then
\* the one to go back to is.
EnvExplained ==
    /\ bundle.running \in past.ran
    /\ updater.pc \in {"rewrite", "pull", "up"} => Explained(updater.original)
    /\ IF updater.pc \in {"pull", "up"} THEN bundle.env = updater.request.version ELSE Explained(bundle.env)

\* Wherever Core's current request is, it asks for Core's target.
Targets ==
    /\ core.id = 0 => core.target = 0
    /\ core.state # "none" => core.id > 0 /\ core.target > 0
    /\ offer.id = core.id => offer.version = core.target
    /\ exchange.request.id = core.id => exchange.request.version = core.target
    /\ updater.request.id = core.id => updater.request.version = core.target

\* An outcome of success is about an explained release.
OutcomeExplained == updater.outcome = "succeeded" => Explained(updater.request.version)

\* Success is about an explained release in the updater, in the result file,
\* in a heartbeat and in Core; a heartbeat reports a release that has run.
SuccessExplained ==
    /\ OutcomeExplained
    /\ exchange.result.id = core.id /\ exchange.result.status = "succeeded" => Explained(core.target)
    /\ \A beat \in beats :
          /\ beat.running \in past.ran
          /\ beat.result.id = core.id /\ beat.result.status = "succeeded" => Explained(core.target)
    /\ core.state = "succeeded" => Explained(core.target)

\* The inductive invariant.
IndInv ==
    /\ TypeOK /\ IsFiniteSet(beats)
    /\ Handover /\ Attempts
    /\ EnvExplained /\ Targets /\ SuccessExplained

-----------------------------------------------------------------------------
(* Types and helpers *)

\* The types of the fields.
LEMMA Fields ==
    ASSUME TypeOK
    PROVE  /\ core.release \in Version /\ core.running \in Version /\ core.available \in BOOLEAN
           /\ core.id \in 0 .. MaxRequests /\ core.target \in 0 .. MaxVersion
           /\ core.state \in {"none", "requested"} \cup Status
           /\ offer.id \in 0 .. MaxRequests /\ offer.version \in 0 .. MaxVersion
           /\ exchange.request.id \in {-1} \cup 0 .. MaxRequests /\ exchange.request.version \in 0 .. MaxVersion
           /\ exchange.result.id \in 0 .. MaxRequests + 1 /\ exchange.result.status \in Status
           /\ exchange.result \in Result \cup {NoResult}
           /\ exchange.request \in Request \cup {NoRequest, Damaged}
           /\ exchange.present \in BOOLEAN
           /\ bundle.env \in Version /\ bundle.running \in Version
           /\ updater.pc \in {"down", "idle", "rewrite", "pull", "up", "up_again", "answer"}
           /\ updater.handled \in SUBSET RequestId /\ updater.rejected \in BOOLEAN
           /\ updater.request \in Request \cup {NoRequest}
           /\ updater.request.id \in 0 .. MaxRequests /\ updater.request.version \in 0 .. MaxVersion
           /\ updater.original \in 0 .. MaxVersion /\ updater.outcome \in Status
           /\ past.attempts \in [RequestId -> Nat] /\ past.ran \subseteq Version
           /\ past.leftInEnv \subseteq Version /\ past.unanswered \subseteq RequestId
           /\ past.overwritten \subseteq RequestId
           /\ \A beat \in beats : /\ beat \in Heartbeat /\ beat.running \in Version /\ beat.available \in BOOLEAN
                                  /\ beat.result.id \in 0 .. MaxRequests + 1 /\ beat.result.status \in Status
<1> USE UpdaterAssumption
<1>1. /\ core.release \in Version /\ core.running \in Version /\ core.available \in BOOLEAN
      /\ core.id \in 0 .. MaxRequests /\ core.target \in 0 .. MaxVersion
      /\ core.state \in {"none", "requested"} \cup Status
  BY DEF TypeOK
<1>2. \A q \in Request \cup {NoRequest} : q.id \in 0 .. MaxRequests /\ q.version \in 0 .. MaxVersion
  BY DEF Request, NoRequest, RequestId, Version
<1>3. \A q \in Request \cup {NoRequest, Damaged} :
         q.id \in {-1} \cup 0 .. MaxRequests /\ q.version \in 0 .. MaxVersion
  BY <1>2 DEF Damaged
<1>4. \A x \in Result \cup {NoResult} : x.id \in 0 .. MaxRequests + 1 /\ x.status \in Status
  BY DEF Result, NoResult, RequestId, Alien, Status
<1>5. /\ exchange.result \in Result \cup {NoResult}
      /\ exchange.request \in Request \cup {NoRequest, Damaged}
      /\ exchange.present \in BOOLEAN
  BY DEF TypeOK
<1>6. bundle.env \in Version /\ bundle.running \in Version
  BY DEF TypeOK
<1>7. /\ updater.pc \in {"down", "idle", "rewrite", "pull", "up", "up_again", "answer"}
      /\ updater.handled \in SUBSET RequestId /\ updater.rejected \in BOOLEAN
      /\ updater.request \in Request \cup {NoRequest}
      /\ updater.original \in 0 .. MaxVersion /\ updater.outcome \in Status
  BY DEF TypeOK
<1>8. /\ past.attempts \in [RequestId -> Nat] /\ past.ran \subseteq Version
      /\ past.leftInEnv \subseteq Version /\ past.unanswered \subseteq RequestId
      /\ past.overwritten \subseteq RequestId
  BY DEF TypeOK
<1>9. \A beat \in beats : /\ beat \in Heartbeat /\ beat.running \in Version /\ beat.available \in BOOLEAN
                          /\ beat.result \in Result \cup {NoResult}
  BY DEF TypeOK, Heartbeat
<1>10. offer \in Request \cup {NoRequest}
  BY DEF TypeOK
<1> QED BY <1>1, <1>2, <1>3, <1>4, <1>5, <1>6, <1>7, <1>8, <1>9, <1>10

\* A request is there if and only if its ID is positive.
LEMMA Present ==
    ASSUME TypeOK
    PROVE  /\ offer # NoRequest <=> offer.id > 0
           /\ exchange.request \in Request <=> exchange.request.id > 0
           /\ updater.request # NoRequest <=> updater.request.id > 0
           /\ exchange.request = Damaged => exchange.request.id = -1
<1> USE UpdaterAssumption
<1>1. \A q \in Request : q.id > 0
  BY DEF Request, RequestId
<1>2. NoRequest.id = 0 /\ Damaged.id = -1
  BY DEF NoRequest, Damaged
<1> QED BY <1>1, <1>2 DEF TypeOK

\* A heartbeat more is within the bound.
LEMMA AddHeartbeat ==
    ASSUME TypeOK, IsFiniteSet(beats), SendHeartbeat
    PROVE  IsFiniteSet(beats') /\ Cardinality(beats') <= MaxBeats
<1>1. Cardinality(beats) \in Nat /\ Cardinality(beats) < MaxBeats
  BY FS_CardinalityType DEF SendHeartbeat
<1> DEFINE b == [running |-> bundle.running, available |-> exchange.present, result |-> exchange.result]
<1>2. beats' = beats \cup {b}
  BY DEF SendHeartbeat
<1> HIDE DEF b
<1>3. IsFiniteSet(beats') /\ Cardinality(beats') \in {Cardinality(beats), Cardinality(beats) + 1}
  BY <1>2, FS_AddElement
<1> QED BY <1>1, <1>3, UpdaterAssumption

\* A heartbeat less is within the bound.
LEMMA RemoveHeartbeat ==
    ASSUME TypeOK, IsFiniteSet(beats), NEW beat \in beats, beats' = beats \ {beat}
    PROVE  IsFiniteSet(beats') /\ Cardinality(beats') <= MaxBeats
<1>1. Cardinality(beats) \in Nat /\ Cardinality(beats) <= MaxBeats
  BY FS_CardinalityType DEF TypeOK
<1>2. IsFiniteSet(beats') /\ Cardinality(beats') = Cardinality(beats) - 1
  BY FS_RemoveElement
<1> QED BY <1>1, <1>2, UpdaterAssumption

\* The variables' types, named.
CoreRow == [release : Version, running : Version, available : BOOLEAN, id : 0..MaxRequests,
            target : 0..MaxVersion, state : {"none", "requested"} \cup Status]
\* See CoreRow.
Files == [request : Request \cup {NoRequest, Damaged}, result : Result \cup {NoResult}, present : BOOLEAN]
\* See CoreRow.
Bundle == [env : Version, running : Version]
\* See CoreRow.
Pc == {"down", "idle", "rewrite", "pull", "up", "up_again", "answer"}
\* See CoreRow.
Process == [pc : Pc, handled : SUBSET RequestId, rejected : BOOLEAN,
            request : Request \cup {NoRequest}, original : 0..MaxVersion, outcome : Status]
\* See CoreRow.
History == [attempts : [RequestId -> Nat], ran : SUBSET Version, leftInEnv : SUBSET Version,
            unanswered : SUBSET RequestId, overwritten : SUBSET RequestId]

\* TypeOK, by variable.
LEMMA TypeParts ==
    TypeOK <=> /\ core \in CoreRow /\ offer \in Request \cup {NoRequest}
               /\ beats \subseteq Heartbeat /\ Cardinality(beats) <= MaxBeats
               /\ exchange \in Files /\ bundle \in Bundle /\ updater \in Process
               /\ faults \in 0..MaxFaults /\ past \in History
BY DEF TypeOK, CoreRow, Files, Bundle, Pc, Process, History

\* What Poll does to the process when it takes a request.
LEMMA TakenEffect ==
    ASSUME updater \in Process, exchange.request \in Request, bundle.env \in 0..MaxVersion,
           NEW pc \in Pc, NEW outcome \in Status, updater' = Taken(pc, outcome)
    PROVE  /\ updater' \in Process /\ updater'.pc = pc /\ updater'.outcome = outcome
           /\ updater'.request = exchange.request /\ updater'.original = bundle.env
<1>1. exchange.request.id \in RequestId
  BY DEF Request
<1> QED BY <1>1 DEF Taken, Process

-----------------------------------------------------------------------------
(* The effects of the steps, by field *)

\* The updater process does not move.
SameUpdater ==
    /\ updater' \in Process /\ updater'.pc = updater.pc /\ updater'.request = updater.request
    /\ updater'.original = updater.original /\ updater'.outcome = updater.outcome

\* Core is released.
CoreMoves ==
    /\ core' \in CoreRow /\ core'.id = core.id /\ core'.target = core.target /\ core'.state = core.state
    /\ UNCHANGED <<offer, beats, exchange, bundle, updater, faults, past>>

\* Staff request an update.
Requested ==
    /\ core.id < MaxRequests
    /\ core' \in CoreRow /\ core'.id = core.id + 1 /\ core'.state = "requested" /\ core'.target > 0
    /\ UNCHANGED <<offer, beats, exchange, bundle, updater, faults, past>>

\* A heartbeat arrives or is lost.
Heard(beat) ==
    /\ core' \in CoreRow /\ core'.id = core.id /\ core'.target = core.target
    /\ core'.state \in {core.state, Settled(core.state, core.id, core.target, beat)}
    /\ beats' = beats \ {beat} /\ faults' \in 0..MaxFaults
    /\ UNCHANGED <<offer, exchange, bundle, updater, past>>

\* A heartbeat is sent.
Sent ==
    /\ \E beat \in Heartbeat :
          beats' = beats \cup {beat} /\ beat.running = bundle.running /\ beat.result = exchange.result
    /\ IsFiniteSet(beats') /\ Cardinality(beats') <= MaxBeats
    /\ UNCHANGED <<core, offer, exchange, bundle, updater, faults, past>>

\* The connector reads its configuration.
Read ==
    /\ offer.id = 0 /\ core.id > 0
    /\ offer' \in Request /\ offer'.id = core.id /\ offer'.version = core.target
    /\ UNCHANGED <<core, beats, exchange, bundle, updater, faults, past>>

\* Submit hands the request over, or drops it.
Offered ==
    /\ offer.id > 0 /\ offer' = NoRequest
    /\ exchange' \in Files /\ exchange'.request \in {offer, exchange.request}
    /\ exchange'.result = exchange.result
    /\ SameUpdater
    /\ UNCHANGED <<core, beats, bundle, faults, past>>

\* The updater starts and settles what was in progress.
Prepared ==
    /\ updater.pc = "down"
    /\ updater' \in Process /\ updater'.pc = "idle" /\ updater'.request = NoRequest /\ updater'.outcome = "failed"
    /\ exchange' \in Files /\ exchange'.request = exchange.request
    /\ exchange'.result.id = exchange.result.id
    /\ exchange'.result.status = "succeeded" => exchange.result.status = "succeeded"
    /\ UNCHANGED <<core, offer, beats, bundle, faults, past>>

\* Presence is renewed or expires, or the request file is damaged.
FilesChange ==
    /\ exchange' \in Files /\ exchange'.request \in {exchange.request, Damaged} /\ exchange'.result = exchange.result
    /\ faults' \in 0..MaxFaults
    /\ UNCHANGED <<core, offer, beats, bundle, updater, past>>

\* Poll takes a request.
Takes ==
    /\ updater.pc = "idle" /\ exchange.request \in Request /\ exchange.result.id # exchange.request.id
    /\ updater' \in Process /\ updater'.request = exchange.request /\ updater'.original = bundle.env
    /\ exchange' \in Files /\ exchange'.request = exchange.request
    /\ faults' \in 0..MaxFaults
    /\ UNCHANGED <<core, offer, beats, bundle, past>>

\* handle answers without touching .env.
AnsweredAtOnce ==
    /\ Takes
    /\ updater'.pc = "answer"
    /\ updater'.outcome = "succeeded" => exchange.request.version = bundle.env
    /\ exchange'.result = exchange.result

\* handle goes to work.
Began ==
    /\ Takes
    /\ updater'.pc = "rewrite" /\ updater'.outcome = "in_progress"
    /\ exchange'.result.id = exchange.request.id /\ exchange'.result.status = "in_progress"

\* An unreadable request was answered.
Rejected ==
    /\ updater.pc = "idle" /\ exchange.request = Damaged
    /\ SameUpdater
    /\ exchange' \in Files /\ exchange'.request = exchange.request
    /\ exchange'.result.id = Alien /\ exchange'.result.status = "failed"
    /\ past' \in History /\ past'.attempts = past.attempts /\ past'.ran = past.ran
    /\ past'.leftInEnv = past.leftInEnv
    /\ past'.overwritten = past.overwritten \cup ({exchange.result.id} \cap RequestId)
    /\ UNCHANGED <<core, offer, beats, bundle, faults>>

\* The answer to an unreadable request was not written.
RejectedInVain ==
    /\ SameUpdater
    /\ exchange' \in Files /\ exchange'.request = exchange.request /\ exchange'.result = exchange.result
    /\ faults' \in 0..MaxFaults
    /\ UNCHANGED <<core, offer, beats, bundle, past>>

\* .env names the new release.
Rewritten ==
    /\ updater.pc = "rewrite"
    /\ updater' \in Process /\ updater'.request = updater.request /\ updater'.original = updater.original
    /\ updater'.pc = "pull" /\ updater'.outcome = updater.outcome
    /\ bundle' \in Bundle /\ bundle'.env = updater.request.version /\ bundle'.running = bundle.running
    /\ past' \in History
    /\ past'.ran = past.ran /\ past'.leftInEnv = past.leftInEnv /\ past'.overwritten = past.overwritten
    /\ past'.attempts[updater.request.id] = past.attempts[updater.request.id] + 1
    /\ \A r \in RequestId : r # updater.request.id => past'.attempts[r] = past.attempts[r]
    /\ UNCHANGED <<core, offer, beats, exchange, faults>>

\* A Compose command, its failure, a crash or an update by hand: no request
\* moves on, and what .env and the outcome say stays explained.
Composes ==
    /\ offer' \in {offer, NoRequest}
    /\ bundle' \in Bundle /\ updater' \in Process /\ faults' \in 0..MaxFaults
    /\ past' \in History /\ past'.attempts = past.attempts /\ past'.overwritten = past.overwritten
    /\ past.ran \subseteq past'.ran /\ past.leftInEnv \subseteq past'.leftInEnv
    /\ updater'.request \in {updater.request, NoRequest}
    /\ updater'.request.id > 0 <=> updater'.pc \notin {"down", "idle"}
    /\ updater'.pc # "rewrite"
    /\ EnvExplained'
    /\ OutcomeExplained'
    /\ UNCHANGED <<core, beats, exchange>>

\* The result file is written, or its writing failed.
Answered ==
    /\ updater.pc = "answer"
    /\ updater' \in Process /\ updater'.pc = "idle" /\ updater'.request = NoRequest /\ updater'.outcome = "failed"
    /\ exchange' \in Files /\ exchange'.request = exchange.request
    /\ past' \in History /\ past'.attempts = past.attempts /\ past'.overwritten = past.overwritten
    /\ past'.ran = past.ran /\ past'.leftInEnv = past.leftInEnv
    /\ \/ exchange'.result.id = updater.request.id /\ exchange'.result.status = updater.outcome
       \/ exchange'.result = exchange.result
    /\ faults' \in 0..MaxFaults
    /\ UNCHANGED <<core, offer, beats, bundle>>

-----------------------------------------------------------------------------
(* Every step has one of the effects *)

\* Core's steps have these effects.
LEMMA CoreEffects ==
    ASSUME TypeOK, IsFiniteSet(beats)
    PROVE  /\ CoreReleased => CoreMoves
           /\ RequestUpdate => Requested
           /\ \A beat \in beats : HeartbeatArrives(beat) \/ HeartbeatLost(beat) => Heard(beat)
<1> USE UpdaterAssumption
<1>1. /\ core \in CoreRow /\ faults \in 0..MaxFaults /\ core.id \in Nat /\ core.release \in Version
      /\ core.target \in 0 .. MaxVersion /\ core.state \in {"none", "requested"} \cup Status
  BY TypeParts DEF CoreRow
<1>2. CoreReleased => CoreMoves
  BY <1>1 DEF CoreReleased, CoreMoves, CoreRow, Version
<1>3. ASSUME RequestUpdate PROVE Requested
  <2>1. /\ core' = [core EXCEPT !.id = @ + 1, !.target = core.release, !.state = "requested"]
        /\ core.id < MaxRequests
        /\ UNCHANGED <<offer, beats, exchange, bundle, updater, faults, past>>
    BY <1>3 DEF RequestUpdate
  <2>2. core.id + 1 \in 0 .. MaxRequests /\ core.release \in 0 .. MaxVersion /\ core.release > 0
    BY <1>1, <2>1 DEF Version
  <2>3. core' \in CoreRow /\ core'.id = core.id + 1 /\ core'.state = "requested" /\ core'.target = core.release
    BY <1>1, <2>1, <2>2 DEF CoreRow
  <2> QED BY <2>1, <2>2, <2>3 DEF Requested
<1>4. ASSUME NEW beat \in beats, HeartbeatArrives(beat) PROVE Heard(beat)
  <2> DEFINE next == Settled(core.state, core.id, core.target, beat)
  <2>1. beat.running \in Version /\ beat.available \in BOOLEAN /\ beat.result.status \in Status
    BY Fields
  <2>2. next \in {"none", "requested"} \cup Status
    BY <1>1, <2>1 DEF Settled, Status
  <2>3. /\ beats' = beats \ {beat}
        /\ core' = [core EXCEPT !.running = beat.running, !.available = beat.available, !.state = next]
        /\ UNCHANGED <<offer, exchange, bundle, updater, faults, past>>
    BY <1>4 DEF HeartbeatArrives
  <2> HIDE DEF next
  <2>4. core' \in CoreRow /\ core'.id = core.id /\ core'.target = core.target /\ core'.state = next
    BY <1>1, <2>1, <2>2, <2>3 DEF CoreRow
  <2> QED BY <1>1, <2>3, <2>4 DEF Heard, next
<1>5. ASSUME NEW beat \in beats, HeartbeatLost(beat) PROVE Heard(beat)
  <2>1. faults' \in 0..MaxFaults
    BY <1>1, <1>5 DEF HeartbeatLost, Fails
  <2> QED BY <1>1, <1>5, <2>1 DEF HeartbeatLost, Heard
<1> QED BY <1>2, <1>3, <1>4, <1>5

\* The connector's steps have these effects.
LEMMA ConnectorEffects ==
    ASSUME TypeOK, IsFiniteSet(beats), Targets
    PROVE  /\ SendHeartbeat => Sent
           /\ ReadConfiguration => Read
           /\ OfferUpdate => Offered
<1> USE UpdaterAssumption
<1>1. /\ exchange \in Files /\ updater \in Process /\ bundle \in Bundle /\ faults \in 0..MaxFaults
      /\ offer \in Request \cup {NoRequest}
  BY TypeParts
<1>2. ASSUME SendHeartbeat PROVE Sent
  <2> DEFINE b == [running |-> bundle.running, available |-> exchange.present, result |-> exchange.result]
  <2>1. b \in Heartbeat /\ b.running = bundle.running /\ b.result = exchange.result
    BY Fields DEF Heartbeat
  <2>2. beats' = beats \cup {b}
    BY <1>2 DEF SendHeartbeat
  <2>3. IsFiniteSet(beats') /\ Cardinality(beats') <= MaxBeats
    BY <1>2, AddHeartbeat
  <2> HIDE DEF b
  <2> QED BY <1>2, <2>1, <2>2, <2>3 DEF SendHeartbeat, Sent
<1>3. ASSUME ReadConfiguration PROVE Read
  <2>1. offer.id = 0 /\ Open(core.state) /\ offer' = [id |-> core.id, version |-> core.target]
    BY <1>3 DEF ReadConfiguration, NoRequest
  <2>2. core.id > 0 /\ core.id \in RequestId /\ core.target \in Version
    <3>1. core.id > 0 /\ core.target > 0
      BY <2>1 DEF Targets, Open
    <3>2. core.id \in 0 .. MaxRequests /\ core.target \in 0 .. MaxVersion
      BY Fields
    <3> QED BY <3>1, <3>2 DEF RequestId, Version
  <2> QED BY <1>3, <2>1, <2>2 DEF ReadConfiguration, Read, Request
<1>4. ASSUME OfferUpdate PROVE Offered
  <2>1. offer.id > 0 /\ offer \in Request
    BY <1>1, <1>4, Present DEF OfferUpdate
  <2>2. exchange' \in Files /\ exchange'.request \in {offer, exchange.request} /\ exchange'.result = exchange.result
    BY <1>1, <1>4, <2>1 DEF OfferUpdate, Files
  <2>3. SameUpdater
    BY <1>1, <1>4 DEF OfferUpdate, SameUpdater, Process
  <2> QED BY <1>4, <2>1, <2>2, <2>3 DEF OfferUpdate, Offered
<1> QED BY <1>2, <1>3, <1>4

\* Faults are counted down to 0.
LEMMA FaultCounts ==
    ASSUME faults \in 0..MaxFaults
    PROVE  /\ Works => faults' \in 0..MaxFaults
           /\ Fails(1) => faults' \in 0..MaxFaults
           /\ Fails(2) => faults' \in 0..MaxFaults
BY UpdaterAssumption DEF Works, Fails

\* The steps of Poll and of the files have these effects.
LEMMA PollEffects ==
    ASSUME TypeOK
    PROVE  /\ Prepare => Prepared
           /\ RenewPresence \/ PresenceExpires \/ RequestFileDamaged => FilesChange
           /\ AnswerAtOnce => AnsweredAtOnce
           /\ BeginUpdate => Began
           /\ RejectInvalidRequest => Rejected \/ RejectedInVain
           /\ Answer /\ updater.request \in Request => Answered
<1> USE UpdaterAssumption
<1>1. /\ exchange \in Files /\ updater \in Process /\ past \in History /\ faults \in 0..MaxFaults
      /\ bundle.env \in 0..MaxVersion
  BY TypeParts DEF Bundle, Version
<1>2. ASSUME Prepare PROVE Prepared
  <2>1. Idle \in Process /\ Idle.pc = "idle" /\ Idle.request = NoRequest /\ Idle.outcome = "failed"
    BY DEF Idle, Process, Pc, Status
  <2> DEFINE status == IF exchange.result.status = "in_progress" THEN "failed" ELSE exchange.result.status
  <2>2. exchange' = [exchange EXCEPT !.result = [exchange.result EXCEPT !.status = status]]
    BY <1>1, <1>2 DEF Prepare, Files
  <2> DEFINE result == [exchange.result EXCEPT !.status = status]
  <2>3. result \in Result \cup {NoResult} /\ result.id = exchange.result.id /\ result.status = status
    <3>1. exchange.result \in Result \cup {NoResult} /\ exchange.result.status \in Status
      BY Fields
    <3>2. status \in Status
      BY <3>1 DEF Status
    <3>3. CASE exchange.result \in Result
      <4> HIDE DEF status
      <4> QED BY <3>2, <3>3 DEF Result
    <3>4. CASE exchange.result = NoResult
      BY <3>4 DEF NoResult
    <3> QED BY <3>1, <3>3, <3>4
  <2>4. status = "succeeded" => exchange.result.status = "succeeded"
    OBVIOUS
  <2> HIDE DEF status, result
  <2>5. exchange' \in Files /\ exchange'.request = exchange.request /\ exchange'.result = result
    <3>1. exchange' = [exchange EXCEPT !.result = result]
      BY <2>2 DEF result
    <3> QED BY <1>1, <2>3, <3>1 DEF Files
  <2> QED BY <1>2, <2>1, <2>3, <2>4, <2>5 DEF Prepare, Prepared
<1>3. ASSUME RenewPresence \/ PresenceExpires PROVE FilesChange
  <2>1. /\ exchange' \in Files /\ exchange'.request = exchange.request /\ exchange'.result = exchange.result
    BY <1>1, <1>3 DEF RenewPresence, PresenceExpires, Files
  <2> QED BY <1>1, <1>3, <2>1 DEF RenewPresence, PresenceExpires, FilesChange
<1>4. ASSUME RequestFileDamaged PROVE FilesChange
  <2>1. exchange' \in Files /\ exchange'.request = Damaged /\ exchange'.result = exchange.result
    BY <1>1, <1>4 DEF RequestFileDamaged, Files
  <2>2. faults' \in 0..MaxFaults
    BY <1>1, <1>4, FaultCounts DEF RequestFileDamaged
  <2> QED BY <1>4, <2>1, <2>2 DEF RequestFileDamaged, FilesChange
<1>5. ASSUME AnswerAtOnce PROVE AnsweredAtOnce
  <2>1. /\ updater.pc = "idle" /\ exchange.request \in Request /\ exchange.result.id # exchange.request.id
        /\ UNCHANGED <<core, offer, beats, bundle, past>>
    BY <1>5 DEF AnswerAtOnce, TakesRequest
  <2>2. exchange' \in Files /\ exchange'.request = exchange.request /\ exchange'.result = exchange.result
    BY <1>1, <1>5 DEF AnswerAtOnce, Files
  <2>3. \/ updater' = Taken("answer", "failed")
        \/ exchange.request.version = bundle.env /\ updater' = Taken("answer", "succeeded")
    BY <1>5 DEF AnswerAtOnce
  <2>4. "answer" \in Pc /\ "failed" \in Status /\ "succeeded" \in Status
    BY DEF Pc, Status
  <2>5. /\ updater' \in Process /\ updater'.pc = "answer" /\ updater'.request = exchange.request
        /\ updater'.original = bundle.env
        /\ updater'.outcome = "succeeded" => exchange.request.version = bundle.env
    BY <1>1, <2>1, <2>3, <2>4, TakenEffect
  <2>6. faults' \in 0..MaxFaults
    BY <1>1, <1>5, FaultCounts DEF AnswerAtOnce
  <2> QED BY <2>1, <2>2, <2>5, <2>6 DEF AnsweredAtOnce, Takes
<1>6. ASSUME BeginUpdate PROVE Began
  <2>1. /\ updater.pc = "idle" /\ exchange.request \in Request /\ exchange.result.id # exchange.request.id
        /\ UNCHANGED <<core, offer, beats, bundle, faults, past>> /\ updater' = Taken("rewrite", "in_progress")
        /\ exchange' = [exchange EXCEPT !.present = TRUE,
                                        !.result = [id |-> exchange.request.id, status |-> "in_progress"]]
    BY <1>6 DEF BeginUpdate, TakesRequest
  <2> DEFINE result == [id |-> exchange.request.id, status |-> "in_progress"]
  <2>2. result \in Result /\ result.id = exchange.request.id /\ result.status = "in_progress"
    BY <2>1 DEF Request, Result, Status
  <2>3. "rewrite" \in Pc /\ "in_progress" \in Status
    BY DEF Pc, Status
  <2>4. /\ updater' \in Process /\ updater'.pc = "rewrite" /\ updater'.outcome = "in_progress"
        /\ updater'.request = exchange.request /\ updater'.original = bundle.env
    BY <1>1, <2>1, <2>3, TakenEffect
  <2>5. exchange' \in Files /\ exchange'.request = exchange.request /\ exchange'.result = result
    <3>1. exchange' = [exchange EXCEPT !.present = TRUE, !.result = result]
      BY <2>1
    <3> HIDE DEF result
    <3> QED BY <1>1, <2>2, <3>1 DEF Files
  <2> HIDE DEF result
  <2> QED BY <1>1, <2>1, <2>2, <2>4, <2>5 DEF Began, Takes
<1>7. ASSUME RejectInvalidRequest PROVE Rejected \/ RejectedInVain
  <2>1. /\ updater.pc = "idle" /\ exchange.request = Damaged /\ updater' = [updater EXCEPT !.rejected = TRUE]
        /\ UNCHANGED <<core, offer, beats, bundle>>
    BY <1>7 DEF RejectInvalidRequest
  <2>2. SameUpdater
    BY <1>1, <2>1 DEF SameUpdater, Process
  <2>3. CASE /\ Works
             /\ exchange' = [exchange EXCEPT !.present = TRUE, !.result = [id |-> Alien, status |-> "failed"]]
             /\ past' = [past EXCEPT !.overwritten = @ \cup ({exchange.result.id} \cap RequestId)]
    <3> DEFINE result == [id |-> Alien, status |-> "failed"]
    <3>1. result \in Result /\ result.id = Alien /\ result.status = "failed"
      BY DEF Result, Status
    <3>2. exchange' \in Files /\ exchange'.request = exchange.request /\ exchange'.result = result
      <4>1. exchange' = [exchange EXCEPT !.present = TRUE, !.result = result]
        BY <2>3
      <4> HIDE DEF result
      <4> QED BY <1>1, <3>1, <4>1 DEF Files
    <3>3. /\ past' \in History /\ past'.attempts = past.attempts /\ past'.ran = past.ran
          /\ past'.leftInEnv = past.leftInEnv
          /\ past'.overwritten = past.overwritten \cup ({exchange.result.id} \cap RequestId)
      BY <1>1, <2>3 DEF History
    <3> HIDE DEF result
    <3> QED BY <2>1, <2>2, <2>3, <3>1, <3>2, <3>3 DEF Rejected, Works
  <2>4. CASE /\ Fails(1)
             /\ exchange' = [exchange EXCEPT !.present = TRUE]
             /\ UNCHANGED past
    <3>1. exchange' \in Files /\ exchange'.request = exchange.request /\ exchange'.result = exchange.result
      BY <1>1, <2>4 DEF Files
    <3>2. faults' \in 0..MaxFaults
      BY <1>1, <2>4, FaultCounts
    <3> QED BY <2>1, <2>2, <2>4, <3>1, <3>2 DEF RejectedInVain
  <2> QED BY <1>7, <2>3, <2>4 DEF RejectInvalidRequest
<1>8. ASSUME Answer, updater.request \in Request PROVE Answered
  <2>1. /\ updater.pc = "answer" /\ UNCHANGED <<core, offer, beats, bundle>>
        /\ updater' = [updater EXCEPT !.pc = "idle", !.request = NoRequest, !.original = 0, !.outcome = "failed"]
    BY <1>8 DEF Answer
  <2>2. updater' \in Process /\ updater'.pc = "idle" /\ updater'.request = NoRequest /\ updater'.outcome = "failed"
    <3>1. "idle" \in Pc /\ "failed" \in Status /\ 0 \in 0..MaxVersion /\ NoRequest \in Request \cup {NoRequest}
      BY DEF Pc, Status
    <3> QED BY <1>1, <2>1, <3>1 DEF Process
  <2>3. CASE /\ Works
             /\ exchange' = [exchange EXCEPT !.result = [id |-> updater.request.id, status |-> updater.outcome]]
             /\ UNCHANGED past
    <3> DEFINE result == [id |-> updater.request.id, status |-> updater.outcome]
    <3>1. result \in Result /\ result.id = updater.request.id /\ result.status = updater.outcome
      BY <1>1, <1>8 DEF Result, Request, Process
    <3>2. exchange' \in Files /\ exchange'.request = exchange.request /\ exchange'.result = result
      <4>1. exchange' = [exchange EXCEPT !.result = result]
        BY <2>3
      <4> HIDE DEF result
      <4> QED BY <1>1, <3>1, <4>1 DEF Files
    <3> HIDE DEF result
    <3> QED BY <1>1, <2>1, <2>2, <2>3, <3>1, <3>2 DEF Answered, Works
  <2>4. CASE /\ Fails(1)
             /\ past' = [past EXCEPT !.unanswered = @ \cup {updater.request.id}]
             /\ UNCHANGED exchange
    <3>1. /\ past' \in History /\ past'.attempts = past.attempts /\ past'.overwritten = past.overwritten
          /\ past'.ran = past.ran /\ past'.leftInEnv = past.leftInEnv
      BY <1>1, <1>8, <2>4 DEF History, Request
    <3>2. faults' \in 0..MaxFaults
      BY <1>1, <2>4, FaultCounts
    <3> QED BY <1>1, <2>1, <2>2, <2>4, <3>1, <3>2 DEF Answered
  <2> QED BY <1>8, <2>3, <2>4 DEF Answer
<1> QED BY <1>2, <1>3, <1>4, <1>5, <1>6, <1>7, <1>8

\* Rewriting .env, or failing to, has these effects.
LEMMA RewriteEffect ==
    ASSUME TypeOK, RewriteEnv, updater.request \in Request, EnvExplained
    PROVE  Rewritten \/ Composes
<1> USE UpdaterAssumption
<1>1. /\ updater \in Process /\ bundle \in Bundle /\ past \in History /\ faults \in 0..MaxFaults
      /\ updater.request.id \in RequestId /\ updater.request.version \in Version /\ updater.request.id > 0
  BY TypeParts DEF Request, RequestId
<1>2. updater.pc = "rewrite" /\ UNCHANGED <<core, offer, beats, exchange>>
  BY DEF RewriteEnv
<1>3. CASE /\ Works
           /\ bundle' = [bundle EXCEPT !.env = updater.request.version]
           /\ updater' = [updater EXCEPT !.pc = "pull"]
           /\ past' = [past EXCEPT !.attempts[updater.request.id] = @ + 1]
  <2>1. /\ updater' \in Process /\ updater'.request = updater.request /\ updater'.original = updater.original
        /\ updater'.pc = "pull" /\ updater'.outcome = updater.outcome
    BY <1>1, <1>3 DEF Process, Pc
  <2>2. bundle' \in Bundle /\ bundle'.env = updater.request.version /\ bundle'.running = bundle.running
    BY <1>1, <1>3 DEF Bundle
  <2>3. /\ past' \in History
        /\ past'.ran = past.ran /\ past'.leftInEnv = past.leftInEnv /\ past'.overwritten = past.overwritten
        /\ past'.attempts[updater.request.id] = past.attempts[updater.request.id] + 1
        /\ \A r \in RequestId : r # updater.request.id => past'.attempts[r] = past.attempts[r]
    BY <1>1, <1>3 DEF History
  <2> QED BY <1>1, <1>2, <1>3, <2>1, <2>2, <2>3 DEF Works, Rewritten
<1>4. CASE /\ Fails(1)
           /\ updater' = [updater EXCEPT !.pc = "answer", !.outcome = "failed"]
           /\ UNCHANGED <<bundle, past>>
  <2>1. /\ updater' \in Process /\ updater'.request = updater.request
        /\ updater'.pc = "answer" /\ updater'.outcome = "failed"
    BY <1>1, <1>4 DEF Process, Pc, Status
  <2>2. faults' \in 0..MaxFaults
    BY <1>1, <1>4, FaultCounts
  <2>3. EnvExplained'
    BY <1>2, <1>4, <2>1 DEF EnvExplained, Explained
  <2>4. OutcomeExplained'
    BY <2>1 DEF OutcomeExplained
  <2> QED BY <1>1, <1>2, <1>4, <2>1, <2>2, <2>3, <2>4 DEF Composes
<1> QED BY <1>3, <1>4 DEF RewriteEnv

\* restore puts the old release back, or leaves the new one in .env.
LEMMA RestoreEffect ==
    ASSUME TypeOK, NEW running \in Version, Restore(running), updater.original \in Version
    PROVE  /\ bundle' \in Bundle /\ bundle'.running = running /\ faults' \in 0..MaxFaults
           /\ bundle'.env \in {updater.original} \cup past'.leftInEnv
           /\ past' \in History /\ past'.attempts = past.attempts /\ past'.overwritten = past.overwritten
           /\ past'.ran = past.ran \cup {running} /\ past.leftInEnv \subseteq past'.leftInEnv
<1>1. bundle \in Bundle /\ bundle.env \in Version /\ past \in History /\ faults \in 0..MaxFaults
  BY TypeParts DEF Bundle
<1>2. CASE /\ Fails(1)
           /\ bundle' = [env |-> updater.original, running |-> running]
           /\ past' = [past EXCEPT !.ran = @ \cup {running}]
  <2>1. /\ past' \in History /\ past'.attempts = past.attempts /\ past'.overwritten = past.overwritten
        /\ past'.ran = past.ran \cup {running} /\ past.leftInEnv = past'.leftInEnv
    BY <1>1, <1>2 DEF History
  <2> QED BY <1>1, <1>2, <2>1, FaultCounts DEF Bundle
<1>3. CASE /\ Fails(2)
           /\ bundle' = [bundle EXCEPT !.running = running]
           /\ past' = [past EXCEPT !.ran = @ \cup {running}, !.leftInEnv = @ \cup {bundle.env}]
  <2>1. /\ past' \in History /\ past'.attempts = past.attempts /\ past'.overwritten = past.overwritten
        /\ past'.ran = past.ran \cup {running} /\ past'.leftInEnv = past.leftInEnv \cup {bundle.env}
    BY <1>1, <1>3 DEF History
  <2>2. bundle' \in Bundle /\ bundle'.running = running /\ bundle'.env = bundle.env
    BY <1>1, <1>3 DEF Bundle
  <2> QED BY <1>1, <1>3, <2>1, <2>2, FaultCounts
<1> QED BY <1>2, <1>3 DEF Restore

\* Compose commands, a crash and an update by hand have the effect Composes.
LEMMA ComposeEffects ==
    ASSUME TypeOK, EnvExplained, OutcomeExplained,
           updater.request.id > 0 <=> updater.pc \notin {"down", "idle"}
    PROVE  /\ Pull \/ Up \/ UpAgain \/ Crash => Composes
           /\ \A v \in Version : UpdateByHand(v) => Composes
<1> USE UpdaterAssumption
<1>1. /\ updater \in Process /\ bundle \in Bundle /\ past \in History /\ faults \in 0..MaxFaults
      /\ bundle.env \in Version /\ bundle.running \in Version /\ bundle.running \in past.ran
      /\ past.ran \subseteq Version /\ past.leftInEnv \subseteq Version
  BY TypeParts DEF Bundle, History, EnvExplained
<1>2. updater.pc \in {"pull", "up"} =>
         /\ updater.original \in Version /\ Explained(updater.original)
         /\ bundle.env = updater.request.version /\ updater.request.id > 0
  BY <1>1 DEF EnvExplained, Explained
<1>0. NoRequest \in Request \cup {NoRequest} /\ NoRequest.id = 0
  BY DEF NoRequest
<1>3. ASSUME updater.pc \in {"pull", "up"}, NEW running \in Version, Restore(running),
             NEW pc \in {"answer", "up_again"}, NEW outcome \in {"failed", updater.outcome},
             updater' \in Process, updater'.pc = pc, updater'.outcome = outcome, updater'.request = updater.request,
             offer' \in {offer, NoRequest}, UNCHANGED <<core, beats, exchange>>
      PROVE  Composes
  <2>1. /\ bundle' \in Bundle /\ bundle'.running = running /\ faults' \in 0..MaxFaults
        /\ bundle'.env \in {updater.original} \cup past'.leftInEnv
        /\ past' \in History /\ past'.attempts = past.attempts /\ past'.overwritten = past.overwritten
        /\ past'.ran = past.ran \cup {running} /\ past.leftInEnv \subseteq past'.leftInEnv
    BY <1>2, <1>3, RestoreEffect
  <2>2. EnvExplained'
    BY <1>2, <1>3, <2>1 DEF EnvExplained, Explained
  <2>3. OutcomeExplained'
    BY <1>3, <2>1 DEF Explained, OutcomeExplained
  <2> QED BY <1>2, <1>3, <2>1, <2>2, <2>3 DEF Composes
<1>4. ASSUME Pull PROVE Composes
  <2>1. updater.pc = "pull" /\ UNCHANGED <<core, offer, beats, exchange>>
    BY <1>4 DEF Pull
  <2>2. CASE Works /\ updater' = [updater EXCEPT !.pc = "up"] /\ UNCHANGED <<bundle, past>>
    <3>1. /\ updater' \in Process /\ updater'.pc = "up" /\ updater'.request = updater.request
          /\ updater'.original = updater.original /\ updater'.outcome = updater.outcome
      BY <1>1, <2>2 DEF Process, Pc
    <3>2. EnvExplained'
      BY <2>1, <2>2, <3>1 DEF EnvExplained, Explained
    <3>3. OutcomeExplained'
      BY <2>2, <3>1 DEF Explained, OutcomeExplained
    <3> QED BY <1>1, <1>2, <2>1, <2>2, <3>1, <3>2, <3>3 DEF Composes, Works
  <2>3. CASE Restore(bundle.running) /\ updater' = [updater EXCEPT !.pc = "answer", !.outcome = "failed"]
    <3>1. /\ updater' \in Process /\ updater'.pc = "answer" /\ updater'.request = updater.request
          /\ updater'.outcome = "failed"
      BY <1>1, <2>3 DEF Process, Pc, Status
    <3> QED BY <1>1, <1>3, <2>1, <2>3, <3>1
  <2> QED BY <1>4, <2>2, <2>3 DEF Pull
<1>5. ASSUME Up PROVE Composes
  <2>1. updater.pc = "up" /\ UNCHANGED <<core, beats, exchange>> /\ offer' \in {offer, NoRequest}
    BY <1>5 DEF Up
  <2>2. CASE /\ Works
             /\ bundle' = [bundle EXCEPT !.running = bundle.env]
             /\ past' = [past EXCEPT !.ran = @ \cup {bundle.env}]
             /\ updater' = [updater EXCEPT !.pc = "answer", !.outcome = "succeeded"]
    <3>1. /\ updater' \in Process /\ updater'.pc = "answer" /\ updater'.request = updater.request
          /\ updater'.outcome = "succeeded"
      BY <1>1, <2>2 DEF Process, Pc, Status
    <3>2. bundle' \in Bundle /\ bundle'.running = bundle.env /\ bundle'.env = bundle.env
      BY <1>1, <2>2 DEF Bundle
    <3>3. /\ past' \in History /\ past'.attempts = past.attempts /\ past'.overwritten = past.overwritten
          /\ past'.ran = past.ran \cup {bundle.env} /\ past'.leftInEnv = past.leftInEnv
      BY <1>1, <2>2 DEF History
    <3>4. EnvExplained'
      BY <3>1, <3>2, <3>3 DEF EnvExplained, Explained
    <3>5. OutcomeExplained'
      BY <1>2, <2>1, <3>1, <3>3 DEF Explained, OutcomeExplained
    <3> QED BY <1>1, <1>2, <2>1, <2>2, <3>1, <3>2, <3>3, <3>4, <3>5 DEF Composes, Works
  <2>3. ASSUME NEW running \in {bundle.running, bundle.env}, Restore(running),
               updater' = [updater EXCEPT !.pc = "up_again"]
        PROVE  Composes
    <3>1. /\ updater' \in Process /\ updater'.pc = "up_again" /\ updater'.request = updater.request
          /\ updater'.outcome = updater.outcome
      BY <1>1, <2>3 DEF Process, Pc
    <3> QED BY <1>1, <1>3, <2>1, <2>3, <3>1
  <2> QED BY <1>5, <2>2, <2>3 DEF Up
<1>6. ASSUME UpAgain PROVE Composes
  <2>1. /\ updater.pc = "up_again" /\ UNCHANGED <<core, beats, exchange>> /\ offer' \in {offer, NoRequest}
        /\ past' = [past EXCEPT !.ran = @ \cup {bundle'.running}]
        /\ updater' = [updater EXCEPT !.pc = "answer", !.outcome = "failed"]
    BY <1>6 DEF UpAgain
  <2>2. faults' \in 0..MaxFaults
    BY <1>1, <1>6, FaultCounts DEF UpAgain
  <2>3. bundle' \in Bundle /\ bundle'.running \in Version /\ bundle'.env = bundle.env
    BY <1>1, <1>6 DEF UpAgain, Bundle
  <2>4. /\ updater' \in Process /\ updater'.pc = "answer" /\ updater'.request = updater.request
        /\ updater'.outcome = "failed"
    BY <1>1, <2>1 DEF Process, Pc, Status
  <2>5. /\ past' \in History /\ past'.attempts = past.attempts /\ past'.overwritten = past.overwritten
        /\ past'.ran = past.ran \cup {bundle'.running} /\ past'.leftInEnv = past.leftInEnv
    BY <1>1, <2>1, <2>3 DEF History
  <2>6. EnvExplained' /\ OutcomeExplained'
    BY <2>1, <2>3, <2>4, <2>5 DEF EnvExplained, Explained, OutcomeExplained
  <2> QED BY <2>1, <2>2, <2>3, <2>4, <2>5, <2>6 DEF Composes
<1>7. ASSUME Crash PROVE Composes
  <2>1. PICK running \in {bundle.running} \cup (IF updater.pc \in {"up", "up_again"} THEN {bundle.env} ELSE {}) :
          /\ bundle' = [bundle EXCEPT !.running = running]
          /\ past' = [past EXCEPT !.ran = @ \cup {running},
                                  !.leftInEnv = IF updater.pc \in {"pull", "up"} THEN @ \cup {bundle.env} ELSE @]
          /\ offer' = IF running # bundle.running THEN NoRequest ELSE offer
    BY <1>7 DEF Crash
  <2>2. UNCHANGED <<core, beats, exchange>> /\ offer' \in {offer, NoRequest} /\ running \in Version
    BY <1>1, <1>7, <2>1 DEF Crash
  <2>3. faults' \in 0..MaxFaults
    BY <1>1, <1>7, FaultCounts DEF Crash
  <2>4. updater' \in Process /\ updater'.pc = "down" /\ updater'.request = NoRequest /\ updater'.outcome = "failed"
    <3>1. updater' = [Idle EXCEPT !.pc = "down"]
      BY <1>7 DEF Crash
    <3>2. 0 \in 0..MaxVersion /\ "down" \in Pc /\ "idle" \in Pc /\ "failed" \in Status
      BY DEF Pc, Status
    <3> QED BY <3>1, <3>2 DEF Idle, Process
  <2>5. bundle' \in Bundle /\ bundle'.running = running /\ bundle'.env = bundle.env
    BY <1>1, <2>1, <2>2 DEF Bundle
  <2>6. /\ past' \in History /\ past'.attempts = past.attempts /\ past'.overwritten = past.overwritten
        /\ past'.ran = past.ran \cup {running}
        /\ past'.leftInEnv = IF updater.pc \in {"pull", "up"} THEN past.leftInEnv \cup {bundle.env}
                             ELSE past.leftInEnv
    <3> DEFINE left == IF updater.pc \in {"pull", "up"} THEN past.leftInEnv \cup {bundle.env} ELSE past.leftInEnv
    <3>1. past' = [past EXCEPT !.ran = past.ran \cup {running}, !.leftInEnv = left]
      BY <2>1
    <3>2. left \subseteq Version /\ past.ran \cup {running} \subseteq Version
      BY <1>1, <2>2
    <3> HIDE DEF left
    <3>3. /\ past' \in History /\ past'.attempts = past.attempts /\ past'.overwritten = past.overwritten
          /\ past'.ran = past.ran \cup {running} /\ past'.leftInEnv = left
      BY <1>1, <3>1, <3>2 DEF History
    <3> QED BY <3>3 DEF left
  <2>7. EnvExplained' /\ OutcomeExplained'
    BY <2>4, <2>5, <2>6 DEF EnvExplained, Explained, OutcomeExplained
  <2> QED BY <1>0, <2>2, <2>3, <2>4, <2>5, <2>6, <2>7 DEF Composes
<1>8. ASSUME NEW v \in Version, UpdateByHand(v) PROVE Composes
  <2>1. /\ updater.pc \in {"down", "idle"} /\ bundle' = [env |-> v, running |-> v]
        /\ past' = [past EXCEPT !.ran = @ \cup {v}] /\ offer' = NoRequest
        /\ UNCHANGED <<core, beats, exchange, updater>>
    BY <1>8 DEF UpdateByHand
  <2>2. faults' \in 0..MaxFaults
    BY <1>1, <1>8, FaultCounts DEF UpdateByHand
  <2>3. /\ past' \in History /\ past'.attempts = past.attempts /\ past'.overwritten = past.overwritten
        /\ past'.ran = past.ran \cup {v} /\ past'.leftInEnv = past.leftInEnv
    BY <1>1, <2>1 DEF History
  <2>4. bundle' \in Bundle /\ bundle'.env = v /\ bundle'.running = v
    BY <2>1 DEF Bundle
  <2>5. EnvExplained' /\ OutcomeExplained'
    BY <2>1, <2>3, <2>4 DEF EnvExplained, Explained, OutcomeExplained
  <2> QED BY <1>1, <2>1, <2>2, <2>3, <2>4, <2>5 DEF Composes
<1> QED BY <1>4, <1>5, <1>6, <1>7, <1>8

\* The effects of all steps.
Effects ==
    \/ UNCHANGED vars \/ CoreMoves \/ Requested \/ (\E beat \in beats : Heard(beat))
    \/ Sent \/ Read \/ Offered
    \/ Prepared \/ FilesChange \/ AnsweredAtOnce \/ Began \/ Rejected \/ RejectedInVain \/ Answered
    \/ Rewritten \/ Composes

\* Every step has one of these effects.
LEMMA StepCases ==
    ASSUME IndInv, [Next]_vars
    PROVE  Effects
<1> USE DEF IndInv
<1>1. updater.request.id > 0 <=> updater.pc \notin {"down", "idle"}
  BY DEF Handover
<1>2. updater.pc \in {"rewrite", "answer"} => updater.request \in Request
  BY <1>1, Present, TypeParts DEF Process
<1>3. CASE UNCHANGED vars
  BY <1>3 DEF Effects
<1>4. CASE CoreReleased \/ RequestUpdate \/ \E beat \in beats : HeartbeatArrives(beat) \/ HeartbeatLost(beat)
  BY <1>4, CoreEffects DEF Effects
<1>5. CASE Connector
  BY <1>5, ConnectorEffects DEF Connector, Effects
<1>6. CASE RewriteEnv
  BY <1>2, <1>6, RewriteEffect DEF RewriteEnv, Effects
<1>7. CASE Answer
  BY <1>2, <1>7, PollEffects DEF Answer, Effects
<1>8. CASE Prepare \/ RenewPresence \/ PresenceExpires \/ RequestFileDamaged \/ AnswerAtOnce \/ BeginUpdate
           \/ RejectInvalidRequest
  BY <1>8, PollEffects DEF Effects
<1>9. CASE Pull \/ Up \/ UpAgain \/ Crash \/ \E v \in Version : UpdateByHand(v)
  BY <1>1, <1>9, ComposeEffects DEF SuccessExplained, Effects
<1> QED BY <1>3, <1>4, <1>5, <1>6, <1>7, <1>8, <1>9 DEF Next, UpdaterStep

-----------------------------------------------------------------------------
(* Types *)

\* Every effect keeps TypeOK.
LEMMA TypeStep ==
    ASSUME TypeOK, IsFiniteSet(beats), Effects
    PROVE  TypeOK' /\ IsFiniteSet(beats')
<1>1. /\ core \in CoreRow /\ offer \in Request \cup {NoRequest}
      /\ beats \subseteq Heartbeat /\ Cardinality(beats) <= MaxBeats
      /\ exchange \in Files /\ bundle \in Bundle /\ updater \in Process
      /\ faults \in 0..MaxFaults /\ past \in History
  BY TypeParts
<1>2. TypeOK' <=> /\ core' \in CoreRow /\ offer' \in Request \cup {NoRequest}
                  /\ beats' \subseteq Heartbeat /\ Cardinality(beats') <= MaxBeats
                  /\ exchange' \in Files /\ bundle' \in Bundle /\ updater' \in Process
                  /\ faults' \in 0..MaxFaults /\ past' \in History
  BY DEF TypeOK, CoreRow, Files, Bundle, Pc, Process, History
<1>3. ASSUME NEW beat \in beats, Heard(beat) PROVE TypeOK' /\ IsFiniteSet(beats')
  <2>1. beats' = beats \ {beat}
    BY <1>3 DEF Heard
  <2>2. IsFiniteSet(beats') /\ Cardinality(beats') <= MaxBeats
    BY <2>1, RemoveHeartbeat
  <2> QED BY <1>1, <1>2, <1>3, <2>1, <2>2 DEF Heard
<1>4. CASE UNCHANGED vars \/ CoreMoves \/ Requested \/ Sent \/ Read \/ Offered
  BY <1>1, <1>2, <1>4 DEF vars, CoreMoves, Requested, Sent, Read, Offered, SameUpdater
<1>5. CASE Prepared \/ FilesChange \/ AnsweredAtOnce \/ Began \/ Rejected \/ RejectedInVain \/ Answered
  BY <1>1, <1>2, <1>5 DEF Prepared, FilesChange, AnsweredAtOnce, Began, Takes, Rejected, RejectedInVain, Answered,
                          SameUpdater
<1>6. CASE Rewritten \/ Composes
  BY <1>1, <1>2, <1>6 DEF Rewritten, Composes
<1> QED BY <1>3, <1>4, <1>5, <1>6 DEF Effects

\* Types of the IDs.
LEMMA Numbers ==
    ASSUME TypeOK
    PROVE  /\ core.id \in 0 .. MaxRequests /\ offer.id \in 0 .. MaxRequests
           /\ exchange.request.id \in {-1} \cup 0 .. MaxRequests
           /\ updater.request.id \in 0 .. MaxRequests
           /\ exchange.result.id \in 0 .. MaxRequests + 1
           /\ ResultId \in 0 .. MaxRequests
           /\ MaxRequests \in Nat /\ Alien = MaxRequests + 1
           /\ NoRequest.id = 0 /\ NoRequest.version = 0 /\ Damaged.id = -1
<1>1. MaxRequests \in Nat /\ Alien = MaxRequests + 1
  BY UpdaterAssumption DEF Alien
<1>2. /\ core.id \in 0 .. MaxRequests /\ offer.id \in 0 .. MaxRequests
      /\ exchange.request.id \in {-1} \cup 0 .. MaxRequests
      /\ updater.request.id \in 0 .. MaxRequests
      /\ exchange.result.id \in 0 .. MaxRequests + 1
  BY Fields
<1> QED BY <1>1, <1>2 DEF ResultId, NoRequest, Damaged

-----------------------------------------------------------------------------
(* The order of the requests *)

\* Every effect keeps the order of the requests.
LEMMA HandoverStep ==
    ASSUME IndInv, Effects
    PROVE  Handover'
<1>1. TypeOK /\ Handover /\ Attempts
  BY DEF IndInv
<1>2. /\ core.id \in 0 .. MaxRequests /\ offer.id \in 0 .. MaxRequests
      /\ exchange.request.id \in {-1} \cup 0 .. MaxRequests
      /\ updater.request.id \in 0 .. MaxRequests
      /\ exchange.result.id \in 0 .. MaxRequests + 1
      /\ ResultId \in 0 .. MaxRequests
      /\ MaxRequests \in Nat /\ Alien = MaxRequests + 1
      /\ NoRequest.id = 0 /\ Damaged.id = -1
      /\ \A beat \in beats : beat.result.id \in 0 .. MaxRequests + 1
  BY <1>1, Numbers, Fields
<1>3. ASSUME UNCHANGED vars \/ CoreMoves PROVE Handover'
  BY <1>1, <1>3 DEF vars, CoreMoves, Handover, ResultId
<1>4. ASSUME Requested PROVE Handover'
  BY <1>1, <1>2, <1>4 DEF Requested, Handover, ResultId
<1>5. ASSUME NEW beat \in beats, Heard(beat) PROVE Handover'
  BY <1>1, <1>5 DEF Heard, Handover, ResultId
<1>6. ASSUME Sent PROVE Handover'
  BY <1>1, <1>2, <1>6 DEF Sent, Handover, ResultId
<1>7. ASSUME Read PROVE Handover'
  BY <1>1, <1>2, <1>7 DEF Read, Handover, ResultId, Before
<1>8. ASSUME Offered PROVE Handover'
  BY <1>1, <1>2, <1>8 DEF Offered, SameUpdater, Handover, ResultId, Before
<1>9. ASSUME Prepared PROVE Handover'
  BY <1>1, <1>2, <1>9 DEF Prepared, Handover, ResultId, Before
<1>10. ASSUME FilesChange PROVE Handover'
  BY <1>1, <1>2, <1>10 DEF FilesChange, Handover, ResultId, Before
<1>11. ASSUME AnsweredAtOnce PROVE Handover'
  <2>1. exchange.request.id > 0
    BY <1>1, <1>11, Present DEF AnsweredAtOnce, Takes
  <2> QED BY <1>1, <1>2, <1>11, <2>1 DEF AnsweredAtOnce, Takes, Handover, ResultId, Before
<1>12. ASSUME Began PROVE Handover'
  <2>1. exchange.request.id > 0
    BY <1>1, <1>12, Present DEF Began, Takes
  <2> QED BY <1>1, <1>2, <1>12, <2>1 DEF Began, Takes, Handover, ResultId, Before
<1>13. ASSUME Rejected \/ RejectedInVain PROVE Handover'
  BY <1>1, <1>2, <1>13 DEF Rejected, RejectedInVain, SameUpdater, Handover, ResultId, Before
<1>14. ASSUME Answered PROVE Handover'
  BY <1>1, <1>2, <1>14 DEF Answered, Handover, ResultId, Before
<1>15. ASSUME Rewritten PROVE Handover'
  BY <1>1, <1>2, <1>15 DEF Rewritten, Handover, ResultId, Before
<1>16. ASSUME Composes PROVE Handover'
  BY <1>1, <1>2, <1>16 DEF Composes, Handover, ResultId, Before
<1> QED BY <1>3, <1>4, <1>5, <1>6, <1>7, <1>8, <1>9, <1>10, <1>11, <1>12, <1>13, <1>14, <1>15, <1>16 DEF Effects

\* Every effect keeps the count of attempts.
LEMMA AttemptsStep ==
    ASSUME IndInv, Effects
    PROVE  Attempts'
<1>1. TypeOK /\ Handover /\ Attempts
  BY DEF IndInv
<1>2. /\ core.id \in 0 .. MaxRequests /\ offer.id \in 0 .. MaxRequests
      /\ exchange.request.id \in {-1} \cup 0 .. MaxRequests
      /\ updater.request.id \in 0 .. MaxRequests
      /\ exchange.result.id \in 0 .. MaxRequests + 1
      /\ ResultId \in 0 .. MaxRequests
      /\ MaxRequests \in Nat /\ Alien = MaxRequests + 1
      /\ NoRequest.id = 0 /\ Damaged.id = -1
      /\ RequestId = 1 .. MaxRequests
  BY <1>1, Numbers DEF RequestId
<1>3. ASSUME UNCHANGED vars \/ CoreMoves \/ (\E beat \in beats : Heard(beat)) \/ Sent PROVE Attempts'
  BY <1>1, <1>3 DEF vars, CoreMoves, Heard, Sent, Attempts, Over, ResultId
<1>4. ASSUME Requested PROVE Attempts'
  BY <1>1, <1>2, <1>4 DEF Requested, Attempts, Over, ResultId
<1>5. ASSUME Read PROVE Attempts'
  BY <1>1, <1>2, <1>5 DEF Read, Attempts, Over, ResultId
<1>6. ASSUME Offered PROVE Attempts'
  BY <1>1, <1>2, <1>6 DEF Offered, SameUpdater, Attempts, Over, ResultId
<1>7. ASSUME Prepared PROVE Attempts'
  BY <1>1, <1>2, <1>7 DEF Prepared, Attempts, Over, ResultId
<1>8. ASSUME FilesChange \/ RejectedInVain PROVE Attempts'
  BY <1>1, <1>2, <1>8 DEF FilesChange, RejectedInVain, SameUpdater, Attempts, Over, ResultId
<1>9. ASSUME AnsweredAtOnce PROVE Attempts'
  BY <1>1, <1>2, <1>9, Present DEF AnsweredAtOnce, Takes, Attempts, Over, ResultId
<1>10. ASSUME Began PROVE Attempts'
  <2>1. exchange.request.id > 0 /\ exchange.result.id # exchange.request.id /\ updater.request.id = 0
    BY <1>1, <1>2, <1>10, Present DEF Began, Takes, Handover
  <2>2. /\ updater'.request = exchange.request /\ exchange'.request = exchange.request
        /\ exchange'.result.id = exchange.request.id
        /\ UNCHANGED <<core, offer, past>>
    BY <1>10 DEF Began, Takes
  <2>3. ASSUME NEW r \in RequestId \ past.overwritten, past.attempts[r] > 0
        PROVE  r < exchange.request.id /\ r < core.id /\ (offer.id > 0 => r < offer.id)
    <3>1. ResultId = r \/ Over(r)
      BY <1>1, <2>3 DEF Attempts
    <3>2. CASE Over(r)
      BY <2>1, <3>2 DEF Over
    <3>3. CASE ResultId = r
      BY <1>1, <1>2, <2>1, <2>3, <3>3 DEF Handover, Before, ResultId
    <3> QED BY <3>1, <3>2, <3>3
  <2>4. \A r \in RequestId \ past'.overwritten : past'.attempts[r] > 0 => Over(r)' \/ ResultId' = r
    <3> SUFFICES ASSUME NEW r \in RequestId \ past.overwritten, past.attempts[r] > 0
                 PROVE  r < exchange.request.id /\ r < core.id /\ (offer.id > 0 => r < offer.id)
      BY <1>2, <2>2 DEF Over
    <3> QED BY <2>3
  <2>5. updater'.request.id \in RequestId
    BY <1>2, <2>1, <2>2
  <2>6. updater'.request.id \in past'.overwritten \/ past'.attempts[updater'.request.id] = 0
    <3>1. past.attempts[exchange.request.id] \in Nat
      BY <1>1, <2>2, <2>5, Fields
    <3>2. exchange.request.id \in RequestId \ past.overwritten => ~ (past.attempts[exchange.request.id] > 0)
      <4>1. ~ (exchange.request.id < exchange.request.id)
        BY <1>2
      <4> QED BY <2>3, <4>1
    <3> QED BY <2>2, <2>5, <3>1, <3>2
  <2> QED BY <1>1, <2>2, <2>4, <2>6 DEF Attempts
<1>11. ASSUME Rejected PROVE Attempts'
  <2>1. ASSUME NEW r \in RequestId \ past'.overwritten
        PROVE  /\ past'.attempts[r] <= 1
               /\ past'.attempts[r] > 0 => ResultId' = r \/ Over(r)'
    <3>1. r \notin past.overwritten /\ r # exchange.result.id
      BY <1>11, <2>1 DEF Rejected
    <3>2. past.attempts[r] <= 1 /\ (past.attempts[r] > 0 => Over(r))
      BY <1>1, <1>2, <3>1 DEF Attempts, ResultId
    <3> QED BY <1>11, <3>2 DEF Rejected, SameUpdater, Over
  <2> QED BY <1>11, <2>1 DEF Attempts, Rejected, SameUpdater
<1>12. ASSUME Answered PROVE Attempts'
  <2>1. /\ updater.request.id > 0 /\ updater'.request.id = 0 /\ exchange'.request = exchange.request
        /\ exchange'.result.id \in {exchange.result.id, updater.request.id}
        /\ updater'.pc = "idle" /\ past'.attempts = past.attempts /\ past'.overwritten = past.overwritten
        /\ UNCHANGED <<core, offer>>
    BY <1>1, <1>2, <1>12 DEF Answered, Handover
  <2>2. ASSUME NEW r \in RequestId \ past.overwritten, past.attempts[r] > 0
        PROVE  ResultId' = r \/ Over(r)'
    <3>1. ResultId = r \/ Over(r)
      BY <1>1, <2>2 DEF Attempts
    <3>2. CASE Over(r)
      BY <1>2, <2>1, <3>2 DEF Over
    <3>3. CASE ResultId = r /\ exchange'.result.id = exchange.result.id
      BY <3>3 DEF ResultId
    <3>4. CASE ResultId = r /\ exchange'.result.id = updater.request.id /\ r # updater.request.id
      <4>1. r < updater.request.id
        BY <1>1, <1>2, <2>1, <3>4 DEF Handover, Before
      <4>2. /\ r < core.id /\ (offer.id > 0 => r < offer.id)
            /\ exchange.request.id > 0 => r < exchange.request.id
        BY <1>1, <1>2, <2>1, <4>1 DEF Handover, Before
      <4> QED BY <2>1, <4>2 DEF Over
    <3>5. CASE ResultId = r /\ exchange'.result.id = updater.request.id /\ r = updater.request.id
      BY <1>2, <2>1, <3>5 DEF ResultId
    <3> QED BY <2>1, <3>1, <3>2, <3>3, <3>4, <3>5
  <2> QED BY <1>1, <2>1, <2>2 DEF Attempts
<1>13. ASSUME Rewritten PROVE Attempts'
  <2>1. /\ updater'.request = updater.request /\ updater'.pc = "pull" /\ past'.overwritten = past.overwritten
        /\ past'.attempts[updater.request.id] = past.attempts[updater.request.id] + 1
        /\ \A r \in RequestId : r # updater.request.id => past'.attempts[r] = past.attempts[r]
        /\ UNCHANGED <<core, offer, exchange>>
        /\ exchange.result.id = updater.request.id
        /\ updater.request.id \in past.overwritten \/ past.attempts[updater.request.id] = 0
    BY <1>1, <1>13 DEF Rewritten, Attempts
  <2>2. ResultId' = ResultId /\ ResultId = updater.request.id
    BY <1>2, <2>1 DEF ResultId
  <2>3. ASSUME NEW r \in RequestId \ past.overwritten
        PROVE  past'.attempts[r] <= 1 /\ (past'.attempts[r] > 0 => ResultId' = r \/ Over(r)')
    <3>1. CASE r = updater.request.id
      BY <2>1, <2>2, <2>3, <3>1
    <3>2. CASE r # updater.request.id
      BY <1>1, <2>1, <2>2, <2>3, <3>2 DEF Attempts, Over
    <3> QED BY <3>1, <3>2
  <2> QED BY <2>1, <2>3 DEF Attempts
<1>14. ASSUME Composes PROVE Attempts'
  BY <1>1, <1>2, <1>14 DEF Composes, Attempts, Over, ResultId
<1> QED BY <1>3, <1>4, <1>5, <1>6, <1>7, <1>8, <1>9, <1>10, <1>11, <1>12, <1>13, <1>14 DEF Effects

-----------------------------------------------------------------------------
(* Success *)

\* Every effect keeps success explained.
LEMMA ExplainedStep ==
    ASSUME IndInv, Effects
    PROVE  EnvExplained' /\ Targets' /\ SuccessExplained'
<1>1. TypeOK /\ Handover /\ EnvExplained /\ Targets /\ SuccessExplained
  BY DEF IndInv
<1>2. /\ core.id \in 0 .. MaxRequests /\ offer.id \in 0 .. MaxRequests
      /\ exchange.request.id \in {-1} \cup 0 .. MaxRequests
      /\ updater.request.id \in 0 .. MaxRequests
      /\ exchange.result.id \in 0 .. MaxRequests + 1
      /\ MaxRequests \in Nat /\ Alien = MaxRequests + 1
      /\ NoRequest.id = 0 /\ NoRequest.version = 0 /\ Damaged.id = -1
      /\ \A beat \in beats : beat.result.id \in 0 .. MaxRequests + 1
  BY <1>1, Numbers, Fields
<1>3. core.id = 0 => core.state = "none"
  BY <1>1, <1>2 DEF Targets
<1> DEFINE Goal == EnvExplained' /\ Targets' /\ SuccessExplained'
<1>4. ASSUME UNCHANGED vars \/ CoreMoves PROVE Goal
  BY <1>1, <1>4 DEF vars, CoreMoves, EnvExplained, Targets, SuccessExplained, OutcomeExplained, Explained
<1>5. ASSUME Requested PROVE Goal
  <2>1. EnvExplained'
    BY <1>1, <1>5 DEF Requested, EnvExplained, Explained
  <2>2. /\ core'.id = core.id + 1 /\ core'.state = "requested" /\ core'.target > 0 /\ core'.id < MaxRequests + 1
        /\ UNCHANGED <<offer, beats, exchange, bundle, updater, faults, past>>
    BY <1>2, <1>5 DEF Requested
  <2>3. /\ offer.id # core'.id /\ exchange.request.id # core'.id /\ updater.request.id # core'.id
        /\ exchange.result.id # core'.id /\ \A beat \in beats : beat.result.id # core'.id
    BY <1>1, <1>2, <2>2 DEF Handover, ResultId
  <2>4. Targets' /\ core'.id > 0
    BY <1>2, <2>2, <2>3 DEF Targets
  <2>5. SuccessExplained'
    BY <1>1, <2>2, <2>3 DEF SuccessExplained, OutcomeExplained, Explained
  <2> QED BY <2>1, <2>4, <2>5
<1>6. ASSUME NEW beat \in beats, Heard(beat) PROVE Goal
  <2>1. /\ core'.id = core.id /\ core'.target = core.target /\ beats' = beats \ {beat}
        /\ core'.state \in {core.state, Settled(core.state, core.id, core.target, beat)}
        /\ UNCHANGED <<offer, exchange, bundle, updater, past>>
    BY <1>6 DEF Heard
  <2>2. core'.state # "none" => core.state # "none"
    BY <2>1 DEF Settled, Open
  <2>3. core'.state = "succeeded" => Explained(core.target)
    BY <1>1, <2>1 DEF Settled, SuccessExplained, Explained
  <2>4. EnvExplained' /\ Targets'
    BY <1>1, <2>1, <2>2 DEF EnvExplained, Explained, Targets
  <2>5. SuccessExplained'
    BY <1>1, <2>1, <2>3 DEF SuccessExplained, OutcomeExplained, Explained
  <2> QED BY <2>4, <2>5
<1>7. ASSUME Sent PROVE Goal
  BY <1>1, <1>7 DEF Sent, EnvExplained, Targets, SuccessExplained, OutcomeExplained, Explained
<1>8. ASSUME Read PROVE Goal
  BY <1>1, <1>8 DEF Read, EnvExplained, Targets, SuccessExplained, OutcomeExplained, Explained
<1>9. ASSUME Offered PROVE Goal
  <2>1. EnvExplained'
    BY <1>1, <1>9 DEF Offered, SameUpdater, EnvExplained, Explained
  <2>2. Targets'
    BY <1>1, <1>2, <1>9 DEF Offered, SameUpdater, Targets
  <2>3. SuccessExplained'
    BY <1>1, <1>9 DEF Offered, SameUpdater, SuccessExplained, OutcomeExplained, Explained
  <2> QED BY <2>1, <2>2, <2>3
<1>10. ASSUME Prepared PROVE Goal
  BY <1>1, <1>2, <1>10 DEF Prepared, EnvExplained, Targets, SuccessExplained, OutcomeExplained, Explained
<1>11. ASSUME FilesChange \/ RejectedInVain PROVE Goal
  BY <1>1, <1>2, <1>11 DEF FilesChange, RejectedInVain, SameUpdater, EnvExplained, Targets, SuccessExplained,
                           OutcomeExplained, Explained
<1>12. ASSUME AnsweredAtOnce PROVE Goal
  BY <1>1, <1>2, <1>12 DEF AnsweredAtOnce, Takes, EnvExplained, Targets, SuccessExplained, OutcomeExplained, Explained
<1>13. ASSUME Began PROVE Goal
  BY <1>1, <1>2, <1>13 DEF Began, Takes, EnvExplained, Targets, SuccessExplained, OutcomeExplained, Explained
<1>14. ASSUME Rejected PROVE Goal
  BY <1>1, <1>2, <1>14 DEF Rejected, SameUpdater, EnvExplained, Targets, SuccessExplained, OutcomeExplained, Explained
<1>15. ASSUME Answered PROVE Goal
  BY <1>1, <1>2, <1>15 DEF Answered, EnvExplained, Targets, SuccessExplained, OutcomeExplained, Explained
<1>16. ASSUME Rewritten PROVE Goal
  BY <1>1, <1>2, <1>16 DEF Rewritten, EnvExplained, Targets, SuccessExplained, OutcomeExplained, Explained
<1>17. ASSUME Composes PROVE Goal
  BY <1>1, <1>2, <1>17 DEF Composes, EnvExplained, Targets, SuccessExplained, OutcomeExplained, Explained
<1> QED BY <1>4, <1>5, <1>6, <1>7, <1>8, <1>9, <1>10, <1>11, <1>12, <1>13, <1>14, <1>15, <1>16, <1>17 DEF Effects

-----------------------------------------------------------------------------
(* Theorems *)

\* The initial states satisfy the inductive invariant.
LEMMA InitInd ==
    ASSUME Init
    PROVE  IndInv
<1> USE UpdaterAssumption
<1>1. /\ core = [release |-> 1, running |-> 1, available |-> FALSE, id |-> 0, target |-> 0, state |-> "none"]
      /\ offer = NoRequest /\ beats = {}
      /\ exchange = [request |-> NoRequest, result |-> NoResult, present |-> FALSE]
      /\ bundle = [env |-> 1, running |-> 1] /\ faults = MaxFaults
      /\ past = [attempts |-> [r \in RequestId |-> 0], ran |-> {1}, leftInEnv |-> {},
                 unanswered |-> {}, overwritten |-> {}]
  BY DEF Init, PastNothing
<1>2. updater = [pc |-> "down", handled |-> {}, rejected |-> FALSE, request |-> NoRequest, original |-> 0,
                 outcome |-> "failed"]
  BY DEF Init, Idle
<1>3. /\ core.id = 0 /\ core.target = 0 /\ core.state = "none" /\ NoRequest.id = 0 /\ NoRequest.version = 0
      /\ NoResult.id = 0 /\ NoResult.status = "failed"
      /\ exchange.request = NoRequest /\ exchange.result = NoResult
      /\ bundle.env = 1 /\ bundle.running = 1
      /\ updater.pc = "down" /\ updater.request = NoRequest /\ updater.outcome = "failed"
      /\ past.attempts = [r \in RequestId |-> 0] /\ past.ran = {1}
  BY <1>1, <1>2 DEF NoRequest, NoResult
<1>4. 1 \in Version /\ 0 \in 0 .. MaxVersion /\ 0 \in 0 .. MaxRequests
  BY DEF Version
<1>5. IsFiniteSet(beats) /\ Cardinality(beats) = 0
  BY <1>1, FS_EmptySet
<1>6. TypeOK
  <2>1. core \in CoreRow
    BY <1>1, <1>4 DEF CoreRow
  <2>2. exchange \in Files /\ bundle \in Bundle
    BY <1>1, <1>4 DEF Files, Bundle
  <2>3. updater \in Process
    BY <1>2, <1>4 DEF Process, Pc, Status
  <2>4. past \in History
    BY <1>1, <1>4 DEF History
  <2> QED BY <1>1, <1>5, <2>1, <2>2, <2>3, <2>4, TypeParts
<1>7. Handover
  BY <1>1, <1>3 DEF Handover, ResultId, Before, Alien
<1>8. Attempts
  BY <1>3 DEF Attempts
<1>9. EnvExplained /\ Targets /\ SuccessExplained
  BY <1>1, <1>3 DEF EnvExplained, Targets, SuccessExplained, OutcomeExplained, Explained
<1> QED BY <1>5, <1>6, <1>7, <1>8, <1>9 DEF IndInv

\* The inductive invariant always holds.
THEOREM IndInvCorrect == Spec => []IndInv
<1>1. IndInv /\ [Next]_vars => IndInv'
  <2> SUFFICES ASSUME IndInv, [Next]_vars
               PROVE  IndInv'
    OBVIOUS
  <2>1. Effects
    BY StepCases
  <2>2. TypeOK' /\ IsFiniteSet(beats)'
    <3>1. TypeOK /\ IsFiniteSet(beats)
      BY DEF IndInv
    <3> QED BY <2>1, <3>1, TypeStep
  <2>3. Handover' /\ Attempts' /\ EnvExplained' /\ Targets' /\ SuccessExplained'
    BY <2>1, HandoverStep, AttemptsStep, ExplainedStep
  <2> QED BY <2>2, <2>3 DEF IndInv
<1> QED BY <1>1, InitInd, PTL DEF Spec

\* Core's row, the files, the bundle, the updater and its history always have
\* their types (TypeOK).
THEOREM TypeCorrect == Spec => []TypeOK
<1>1. IndInv => TypeOK
  BY DEF IndInv
<1> QED BY <1>1, IndInvCorrect, PTL

\* A request is installed at most once, however often the updater is killed
\* and forgets what it handled, unless the answer to an unreadable file took
\* its result's place (InstallsOnce; Poll, Submit).
THEOREM InstallCorrect == Spec => []InstallsOnce
<1>1. IndInv => InstallsOnce
  BY DEF IndInv, Attempts, InstallsOnce
<1> QED BY <1>1, IndInvCorrect, PTL

\* Core shows success only for a release that has run or that an unfinished
\* update left in .env, whatever was lost, overtaken, superseded or
\* interrupted (SucceededIsTrue; Settle, Poll, handle).
THEOREM SuccessCorrect == Spec => []SucceededIsTrue
<1>1. IndInv => SucceededIsTrue
  BY DEF IndInv, SuccessExplained, Explained, SucceededIsTrue
<1> QED BY <1>1, IndInvCorrect, PTL
=============================================================================
