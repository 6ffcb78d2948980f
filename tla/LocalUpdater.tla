---------------------------- MODULE LocalUpdater ----------------------------
(***************************************************************************)
(* Updating a bundle of local services from Core: staff request a release, *)
(* the connector hands the request to the updater sidecar through files in *)
(* a shared volume, the updater rewrites .env and runs Compose, and the    *)
(* connector's heartbeats carry the result back (packages localupdater,    *)
(* printerconnectors/updates.go, printerconnector/runtime.go).             *)
(*                                                                         *)
(* A release is its number, a request its place in the order of requests.  *)
(* The updater may be killed between any two of its steps; Compose, a      *)
(* write of .env and a write of the result may fail; heartbeats may be     *)
(* lost or overtake each other; the request file may be damaged.           *)
(* The operator updates by hand only while the updater has no work.        *)
(***************************************************************************)
EXTENDS Integers, FiniteSets

CONSTANTS
  MaxVersion,   \* bound: releases 1..MaxVersion
  MaxRequests,  \* bound: update requests
  MaxBeats,     \* bound: heartbeats on their way to Core
  MaxFaults     \* bound: kills of the updater, failed commands and writes, lost heartbeats, damaged files
                \* and updates by hand, taken together

ASSUME UpdaterAssumption ==
  /\ MaxVersion \in Nat \ {0} /\ MaxRequests \in Nat
  /\ MaxBeats \in Nat \ {0} /\ MaxFaults \in Nat

VARIABLES
  core,       \* Core: its own release and the connector's row (version, updater available, latest request)
  offer,      \* the connector: the update of a configuration it has read and not yet handed over
  beats,      \* heartbeats on their way to Core
  exchange,   \* the files: request.json, result.json and whether updater.json is fresh
  bundle,     \* the version in .env and the version the connector's container runs
  updater,    \* the updater process
  faults,     \* how much may still go wrong
  past        \* history: see PastNothing

vars == <<core, offer, beats, exchange, bundle, updater, faults, past>>

Version == 1..MaxVersion
RequestId == 1..MaxRequests
Alien == MaxRequests + 1   \* the fresh ID of the answer to an unreadable request

Request == [id : RequestId, version : Version]
NoRequest == [id |-> 0, version |-> 0]
Damaged == [id |-> -1, version |-> 0]
Status == {"in_progress", "succeeded", "failed"}
Result == [id : RequestId \cup {Alien}, status : Status]
NoResult == [id |-> 0, status |-> "failed"]
Heartbeat == [running : Version, available : BOOLEAN, result : Result \cup {NoResult}]

\* past.attempts counts how often .env was rewritten for a request; past.ran holds the releases that have run;
\* past.leftInEnv those an unfinished update left in .env; past.unanswered the requests whose final result was
\* never written; past.overwritten those whose result the answer to an unreadable file replaced.
PastNothing == [attempts |-> [r \in RequestId |-> 0], ran |-> {1}, leftInEnv |-> {},
                unanswered |-> {}, overwritten |-> {}]

TypeOK ==
  /\ core \in [release : Version, running : Version, available : BOOLEAN, id : 0..MaxRequests,
               target : 0..MaxVersion, state : {"none", "requested"} \cup Status]
  /\ offer \in Request \cup {NoRequest}
  /\ beats \subseteq Heartbeat /\ Cardinality(beats) <= MaxBeats
  /\ exchange \in [request : Request \cup {NoRequest, Damaged}, result : Result \cup {NoResult}, present : BOOLEAN]
  /\ bundle \in [env : Version, running : Version]
  /\ updater \in [pc : {"down", "idle", "rewrite", "pull", "up", "up_again", "answer"},
                  handled : SUBSET RequestId, rejected : BOOLEAN,
                  request : Request \cup {NoRequest}, original : 0..MaxVersion, outcome : Status]
  /\ faults \in 0..MaxFaults
  /\ past \in [attempts : [RequestId -> Nat], ran : SUBSET Version, leftInEnv : SUBSET Version,
               unanswered : SUBSET RequestId, overwritten : SUBSET RequestId]

Idle == [pc |-> "idle", handled |-> {}, rejected |-> FALSE, request |-> NoRequest, original |-> 0, outcome |-> "failed"]

Init ==
  /\ core = [release |-> 1, running |-> 1, available |-> FALSE, id |-> 0, target |-> 0, state |-> "none"]
  /\ offer = NoRequest
  /\ beats = {}
  /\ exchange = [request |-> NoRequest, result |-> NoResult, present |-> FALSE]
  /\ bundle = [env |-> 1, running |-> 1]
  /\ updater = [Idle EXCEPT !.pc = "down"]
  /\ faults = MaxFaults
  /\ past = PastNothing

-----------------------------------------------------------------------------
(* Core *)

\* One of the bounded faults happens, n of them happen, none does.
Fails(n) == faults >= n /\ faults' = faults - n
Works == UNCHANGED faults

Open(state) == state \in {"requested", "in_progress"}

CoreReleased ==
  /\ core.release < MaxVersion
  /\ core' = [core EXCEPT !.release = @ + 1]
  /\ UNCHANGED <<offer, beats, exchange, bundle, updater, faults, past>>

\* CheckRequest: an updater there, newer than what the last heartbeat reported. An open request is in the way
\* only until RequestTimeout has passed since its last change, which any step here may be after.
MayRequest == core.available /\ core.release > core.running

RequestUpdate ==
  /\ MayRequest /\ core.id < MaxRequests
  /\ core' = [core EXCEPT !.id = @ + 1, !.target = core.release, !.state = "requested"]
  /\ UNCHANGED <<offer, beats, exchange, bundle, updater, faults, past>>

\* Mutant of Settled: any result counts.
SettledByAnyResult(state, id, target, beat) ==
  IF ~Open(state) THEN state
  ELSE IF beat.result # NoResult THEN beat.result.status
  ELSE IF beat.running = target THEN "succeeded" ELSE state

\* Settle: the result counts only for the current request; without one, running the target is success.
Settled(state, id, target, beat) ==
  IF ~Open(state) THEN state
  ELSE IF beat.result.id = id THEN beat.result.status
  ELSE IF beat.running = target THEN "succeeded" ELSE state

\* The heartbeat's transaction: the reported version, then recordUpdaterReport.
HeartbeatArrives(beat) ==
  LET next == Settled(core.state, core.id, core.target, beat)
  IN  /\ beats' = beats \ {beat}
      /\ core' = [core EXCEPT !.running = beat.running, !.available = beat.available, !.state = next]
      /\ UNCHANGED <<offer, exchange, bundle, updater, faults, past>>

HeartbeatLost(beat) ==
  /\ Fails(1)
  /\ beats' = beats \ {beat}
  /\ UNCHANGED <<core, offer, exchange, bundle, updater, past>>

-----------------------------------------------------------------------------
(* The connector: one loop that polls the configuration and sends heartbeats *)

SendHeartbeat ==
  /\ Cardinality(beats) < MaxBeats
  /\ beats' = beats \cup {[running |-> bundle.running, available |-> exchange.present, result |-> exchange.result]}
  /\ UNCHANGED <<core, offer, exchange, bundle, updater, faults, past>>

\* The configuration carries updateOffer: the latest request while it is open.
ReadConfiguration ==
  /\ offer = NoRequest /\ Open(core.state)
  /\ offer' = [id |-> core.id, version |-> core.target]
  /\ UNCHANGED <<core, beats, exchange, bundle, updater, faults, past>>

\* Submit
OfferUpdate ==
  /\ offer # NoRequest
  /\ exchange' = IF exchange.present /\ exchange.result.id # offer.id
                 THEN [exchange EXCEPT !.request = offer] ELSE exchange
  /\ updater' = IF exchange'.request # exchange.request THEN [updater EXCEPT !.rejected = FALSE] ELSE updater
  /\ offer' = NoRequest
  /\ UNCHANGED <<core, beats, bundle, faults, past>>

-----------------------------------------------------------------------------
(* The updater *)

\* Mutant of Prepare: leaves the result file alone.
PrepareKeepingResult ==
  /\ updater.pc = "down"
  /\ updater' = Idle
  /\ UNCHANGED <<core, offer, beats, exchange, bundle, faults, past>>

\* Prepare: an update the previous run left in progress is failed as interrupted.
Prepare ==
  /\ updater.pc = "down"
  /\ updater' = Idle
  /\ exchange' = [exchange EXCEPT !.result.status = IF @ = "in_progress" THEN "failed" ELSE @]
  /\ UNCHANGED <<core, offer, beats, bundle, faults, past>>

\* The rest of Poll that only renews updater.json.
RenewPresence ==
  /\ updater.pc = "idle" /\ ~exchange.present
  /\ exchange' = [exchange EXCEPT !.present = TRUE]
  /\ UNCHANGED <<core, offer, beats, bundle, updater, faults, past>>

\* PresenceTTL passes while the updater is down or busy: a Poll that handles a request renews nothing.
PresenceExpires ==
  /\ updater.pc # "idle" /\ exchange.present
  /\ exchange' = [exchange EXCEPT !.present = FALSE]
  /\ UNCHANGED <<core, offer, beats, bundle, updater, faults, past>>

\* Mutant of TakesRequest: remembers the handled requests in memory only.
TakesRequestFromMemory ==
  /\ updater.pc = "idle"
  /\ exchange.request \in Request
  /\ exchange.request.id \notin updater.handled

\* Poll takes a request once: not answered in the result file, not handled by this run.
TakesRequest ==
  /\ updater.pc = "idle"
  /\ exchange.request \in Request
  /\ exchange.result.id # exchange.request.id
  /\ exchange.request.id \notin updater.handled

Taken(pc, outcome) ==
  [updater EXCEPT !.pc = pc, !.handled = @ \cup {exchange.request.id}, !.request = exchange.request,
                  !.original = bundle.env, !.outcome = outcome]

\* handle answers at once: a downgrade, the version that .env names already, an unreadable .env or a result
\* file that cannot be written.
AnswerAtOnce ==
  /\ TakesRequest
  /\ \/ exchange.request.version < bundle.env /\ Works /\ updater' = Taken("answer", "failed")
     \/ exchange.request.version = bundle.env /\ Works /\ updater' = Taken("answer", "succeeded")
     \/ Fails(1) /\ updater' = Taken("answer", "failed")
  /\ exchange' = [exchange EXCEPT !.present = TRUE]
  /\ UNCHANGED <<core, offer, beats, bundle, past>>

\* handle goes to work: the result file says so before anything else changes.
BeginUpdate ==
  /\ TakesRequest
  /\ exchange.request.version > bundle.env
  /\ updater' = Taken("rewrite", "in_progress")
  /\ exchange' = [exchange EXCEPT !.present = TRUE,
                                  !.result = [id |-> exchange.request.id, status |-> "in_progress"]]
  /\ UNCHANGED <<core, offer, beats, bundle, faults, past>>

\* Mutant of RejectInvalidRequest: answers under the ID it could not read.
RejectInvalidRequestUnderItsID ==
  /\ updater.pc = "idle" /\ exchange.request = Damaged /\ ~updater.rejected
  /\ updater' = [updater EXCEPT !.rejected = TRUE]
  /\ exchange' = [exchange EXCEPT !.present = TRUE, !.result = [id |-> exchange.request.id, status |-> "failed"]]
  /\ past' = [past EXCEPT !.overwritten = @ \cup ({exchange.result.id} \cap RequestId)]
  /\ UNCHANGED <<core, offer, beats, bundle, faults>>

\* rejectInvalidRequest: once per file, under an ID nobody waits for. A failed write is only logged.
RejectInvalidRequest ==
  /\ updater.pc = "idle" /\ exchange.request = Damaged /\ ~updater.rejected
  /\ updater' = [updater EXCEPT !.rejected = TRUE]
  /\ \/ /\ Works
        /\ exchange' = [exchange EXCEPT !.present = TRUE, !.result = [id |-> Alien, status |-> "failed"]]
        /\ past' = [past EXCEPT !.overwritten = @ \cup ({exchange.result.id} \cap RequestId)]
     \/ /\ Fails(1)
        /\ exchange' = [exchange EXCEPT !.present = TRUE]
        /\ UNCHANGED past
  /\ UNCHANGED <<core, offer, beats, bundle>>

RewriteEnv ==
  /\ updater.pc = "rewrite"
  /\ \/ /\ Works
        /\ bundle' = [bundle EXCEPT !.env = updater.request.version]
        /\ updater' = [updater EXCEPT !.pc = "pull"]
        /\ past' = [past EXCEPT !.attempts[updater.request.id] = @ + 1]
     \/ /\ Fails(1)
        /\ updater' = [updater EXCEPT !.pc = "answer", !.outcome = "failed"]
        /\ UNCHANGED <<bundle, past>>
  /\ UNCHANGED <<core, offer, beats, exchange>>

\* restore puts the previous .env back; a failure is only logged.
Restore(running) ==
  \/ /\ Fails(1)
     /\ bundle' = [env |-> updater.original, running |-> running]
     /\ past' = [past EXCEPT !.ran = @ \cup {running}]
  \/ /\ Fails(2)
     /\ bundle' = [bundle EXCEPT !.running = running]
     /\ past' = [past EXCEPT !.ran = @ \cup {running}, !.leftInEnv = @ \cup {bundle.env}]

Pull ==
  /\ updater.pc = "pull"
  /\ \/ /\ Works
        /\ updater' = [updater EXCEPT !.pc = "up"]
        /\ UNCHANGED <<bundle, past>>
     \/ /\ Restore(bundle.running)
        /\ updater' = [updater EXCEPT !.pc = "answer", !.outcome = "failed"]
  /\ UNCHANGED <<core, offer, beats, exchange>>

\* up recreates the connector, which loses the configuration it was about to hand over. A failed up may have
\* recreated it or not.
Up ==
  /\ updater.pc = "up"
  /\ \/ /\ Works
        /\ bundle' = [bundle EXCEPT !.running = bundle.env]
        /\ past' = [past EXCEPT !.ran = @ \cup {bundle.env}]
        /\ updater' = [updater EXCEPT !.pc = "answer", !.outcome = "succeeded"]
     \/ /\ \E running \in {bundle.running, bundle.env} : Restore(running)
        /\ updater' = [updater EXCEPT !.pc = "up_again"]
  /\ offer' = IF bundle'.running # bundle.running THEN NoRequest ELSE offer
  /\ UNCHANGED <<core, beats, exchange>>

\* The previous release is started again; whether that works is not looked at.
UpAgain ==
  /\ updater.pc = "up_again"
  /\ \/ Works /\ bundle' = [bundle EXCEPT !.running = bundle.env]
     \/ Fails(1) /\ UNCHANGED bundle
  /\ past' = [past EXCEPT !.ran = @ \cup {bundle'.running}]
  /\ updater' = [updater EXCEPT !.pc = "answer", !.outcome = "failed"]
  /\ offer' = IF bundle'.running # bundle.running THEN NoRequest ELSE offer
  /\ UNCHANGED <<core, beats, exchange>>

\* The end of Poll: the result file. A failed write is only logged.
Answer ==
  /\ updater.pc = "answer"
  /\ \/ /\ Works
        /\ exchange' = [exchange EXCEPT !.result = [id |-> updater.request.id, status |-> updater.outcome]]
        /\ UNCHANGED past
     \/ /\ Fails(1)
        /\ past' = [past EXCEPT !.unanswered = @ \cup {updater.request.id}]
        /\ UNCHANGED exchange
  /\ updater' = [updater EXCEPT !.pc = "idle", !.request = NoRequest, !.original = 0, !.outcome = "failed"]
  /\ UNCHANGED <<core, offer, beats, bundle>>

\* The updater is killed. A Compose command under way may still recreate the connector.
Crash ==
  /\ updater.pc # "down" /\ Fails(1)
  /\ updater' = [Idle EXCEPT !.pc = "down"]
  /\ \E running \in {bundle.running} \cup (IF updater.pc \in {"up", "up_again"} THEN {bundle.env} ELSE {}) :
       /\ bundle' = [bundle EXCEPT !.running = running]
       /\ past' = [past EXCEPT !.ran = @ \cup {running},
                               !.leftInEnv = IF updater.pc \in {"pull", "up"} THEN @ \cup {bundle.env} ELSE @]
       /\ offer' = IF running # bundle.running THEN NoRequest ELSE offer
  /\ UNCHANGED <<core, beats, exchange>>

-----------------------------------------------------------------------------
(* The surroundings *)

\* The operator follows the manual: MAKERSPACE_VERSION in .env, then docker compose up.
UpdateByHand(v) ==
  /\ Fails(1) /\ updater.pc \in {"down", "idle"} /\ v # bundle.env
  /\ bundle' = [env |-> v, running |-> v]
  /\ past' = [past EXCEPT !.ran = @ \cup {v}]
  /\ offer' = NoRequest
  /\ UNCHANGED <<core, beats, exchange, updater>>

RequestFileDamaged ==
  /\ Fails(1) /\ exchange.request \in Request
  /\ exchange' = [exchange EXCEPT !.request = Damaged]
  /\ UNCHANGED <<core, offer, beats, bundle, updater, past>>

-----------------------------------------------------------------------------
Connector == SendHeartbeat \/ ReadConfiguration \/ OfferUpdate
UpdaterStep == Prepare \/ RenewPresence \/ AnswerAtOnce \/ BeginUpdate \/ RejectInvalidRequest
               \/ RewriteEnv \/ Pull \/ Up \/ UpAgain \/ Answer
Next ==
  \/ CoreReleased \/ RequestUpdate
  \/ \E beat \in beats : HeartbeatArrives(beat) \/ HeartbeatLost(beat)
  \/ Connector
  \/ UpdaterStep \/ PresenceExpires \/ Crash
  \/ \E v \in Version : UpdateByHand(v)
  \/ RequestFileDamaged

\* Both processes run under a restart policy and loop on tickers; Compose runs under a timeout.
Fairness ==
  /\ WF_vars(UpdaterStep)
  /\ WF_vars(SendHeartbeat) /\ WF_vars(\E beat \in beats : HeartbeatArrives(beat))
  /\ WF_vars(ReadConfiguration) /\ WF_vars(OfferUpdate)

Spec == Init /\ [][Next]_vars /\ Fairness

-----------------------------------------------------------------------------
(* Properties *)

\* Each request ID is handled at most once (exchange.go), also across a crash of the updater, which forgets the
\* IDs it handled: .env is rewritten once for it. The result file is the memory, so the exception is a result
\* that the answer to an unreadable request file has replaced.
InstallsOnce == \A r \in RequestId \ past.overwritten : past.attempts[r] <= 1

\* Core shows success only for a release that has run, whatever was lost, overtaken, superseded or interrupted on
\* the way. The exception is a release that an unfinished update left in .env: a later request for it is answered
\* as already installed.
SucceededIsTrue == core.state = "succeeded" => core.target \in past.ran \cup past.leftInEnv

\* Every open request is settled in the end, or superseded, unless the updater could not write its result or an
\* unreadable request file took the result's place: a failed Compose, a crash between any two steps, lost
\* heartbeats and an updater that is seldom present do not leave Core waiting.
RequestSettles ==
  \A r \in RequestId :
    (core.id = r /\ Open(core.state)) ~>
      (core.id # r \/ ~Open(core.state) \/ r \in past.unanswered \cup past.overwritten)
=============================================================================
