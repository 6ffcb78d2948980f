------------------------ MODULE ConnectorCredentials -----------------------
(***************************************************************************)
(* Enrollment, re-enrollment and rotation of a printer connector's         *)
(* credential between daemons (backend/internal/printerconnector/          *)
(* runtime.go: ensureIdentity, reenrollIfNewSecret,                        *)
(* rotateCredentialIfNeeded) and Core (backend/internal/printerconnectors/ *)
(* enrollment.go, connectors.go), for one connector row.                   *)
(*                                                                         *)
(* A daemon has at most one call open.  Core authenticates a rotation in   *)
(* its HTTP middleware and runs it in a later transaction that locks no    *)
(* connector row: its three statements interleave with those of other      *)
(* rotations.  The tables below are the committed rows; what an open       *)
(* transaction has changed is in its call.  A statement sees the rows      *)
(* committed when it begins, waits for those another transaction has       *)
(* changed, and then checks them again (READ COMMITTED).                   *)
(*                                                                         *)
(* A call may be lost, answered in vain, or still run in Core after the    *)
(* daemon gave up; saving an identity may fail.  A credential id stands    *)
(* for the id and its secret, which daemons always generate together.      *)
(***************************************************************************)
EXTENDS Naturals

CONSTANTS
    Daemon,      \* connector processes, each with a data volume of its own
    Secret,      \* enrollment secrets Core can issue
    NoSecret,    \* no secret configured
    MaxCred,     \* bound on credentials generated by daemons
    MaxFaults    \* bound on lost calls and failed saves

ASSUME NoSecretIsNone == NoSecret \notin Secret
ASSUME CredentialBounds == MaxCred \in Nat /\ MaxFaults \in Nat

Credential == 1 .. MaxCred

None == 0

VARIABLES
    lifecycle,   \* printer_connectors.lifecycle, or deleted
    cred,        \* printer_connector_credentials.state per credential
    lapsed,      \* credentials past retire_after or expires_at
    enrollment,  \* printer_connector_enrollments per secret
    superseded,  \* credentials older than the last re-enrollment, and those
                 \* rotated from them (history)
    revoking,    \* the rows an unfinished Revoke saw; none if empty
    identity,    \* identity stored on each daemon's volume
    env,         \* CONNECTOR_ENROLLMENT_SECRET of each daemon
    phase,       \* down, ready (identity at hand) or up (in Run's loop)
    call,        \* the call each daemon waits for
    strays,      \* calls given up by their daemon and still running in Core
    due,         \* credentials in their final seven days
    made,        \* credentials generated so far
    faults

coreVars   == <<lifecycle, cred, lapsed, enrollment, superseded, revoking>>
daemonVars == <<identity, env, phase, call, strays, due, made, faults>>
vars == <<coreVars, daemonVars>>

NoCall == [kind |-> "none"]

\* secret is the bearer of an enrollment, token that of a rotation; cred is
\* the candidate, life the lifecycle the middleware read.  Of a rotation's
\* transaction, seen are the rows its statement waits with, revokes and
\* retires those it has changed; "revoked" and "retired" are the stages after
\* its first and its second statement.
CallsOf(kinds, secrets, tokens) ==
    [kind : kinds, secret : secrets, token : tokens, cred : Credential,
     stage : {"sent", "authenticated", "revoked", "retired", "ok", "error"},
     life : {"pending", "active", "disabled"},
     seen : SUBSET Credential, revokes : SUBSET Credential, retires : SUBSET Credential]

Calls == CallsOf({"enroll", "reenroll"}, Secret, {None}) \cup CallsOf({"rotate"}, {NoSecret}, Credential)

Init ==
    /\ lifecycle = "pending"
    /\ cred = [c \in Credential |-> "none"]
    /\ lapsed = {}
    /\ enrollment = [s \in Secret |-> [state |-> "none", cred |-> None]]
    /\ superseded = {}
    /\ revoking = {}
    /\ identity = [d \in Daemon |-> [cred |-> None, enrolled |-> FALSE, secret |-> NoSecret]]
    /\ env = [d \in Daemon |-> NoSecret]
    /\ phase = [d \in Daemon |-> "down"]
    /\ call = [d \in Daemon |-> NoCall]
    /\ strays = {}
    /\ due = {}
    /\ made = 0
    /\ faults = 0

\* AuthenticateConnector
Accepted(c) == /\ c # None
               /\ cred[c] \in {"current", "retiring"} /\ c \notin lapsed
               /\ lifecycle \in {"active", "disabled"}

InState(state) == {k \in Credential : cred[k] = state}

Known == Credential \ InState("none")

\* The rotations Core has not finished, by the credential each brings, and the
\* rows their transactions have locked.
Rotations == {c \in strays \cup {call[d] : d \in Daemon} : c.kind = "rotate"}

HeldBy(c) == c.revokes \cup c.retires

Held == UNION {HeldBy(c) : c \in Rotations}

LockedByOther(c) == UNION {HeldBy(o) : o \in {r \in Rotations : r.cred # c.cred}}

-----------------------------------------------------------------------------
(* Administration in Core. A waiting Revoke has locked the connector row.  *)

WithOpenRevoked(enr) ==
    [t \in Secret |-> IF enr[t].state = "open" THEN [enr[t] EXCEPT !.state = "revoked"] ELSE enr[t]]

\* IssueEnrollment revokes the unused secrets and issues a new one.
IssueEnrollment(s) ==
    /\ lifecycle \in {"pending", "active", "disabled"} /\ revoking = {}
    /\ enrollment[s].state = "none"
    /\ enrollment' = [WithOpenRevoked(enrollment) EXCEPT ![s].state = "open"]
    /\ UNCHANGED <<lifecycle, cred, lapsed, superseded, revoking, daemonVars>>

\* The 15 minutes of a secret pass, whether it was used or not.
EnrollmentExpires(s) ==
    /\ enrollment[s].state \in {"open", "consumed"}
    /\ enrollment' = [enrollment EXCEPT ![s].state = "expired"]
    /\ UNCHANGED <<lifecycle, cred, lapsed, superseded, revoking, daemonVars>>

\* Update: enable or disable an enrolled connector.
Update ==
    /\ lifecycle \in {"active", "disabled"} /\ revoking = {}
    /\ lifecycle' = IF lifecycle = "active" THEN "disabled" ELSE "active"
    /\ UNCHANGED <<cred, lapsed, enrollment, superseded, revoking, daemonVars>>

RevokedCredentials(rows) == [c \in Credential |-> IF c \in rows THEN "revoked" ELSE cred[c]]

\* The rest of Revoke, once no rotation holds a row it saw.  It misses a row
\* that a rotation has committed since.
Revokes(rows) ==
    /\ rows \cap Held = {}
    /\ lifecycle' = "revoked"
    /\ cred' = RevokedCredentials(rows)
    /\ enrollment' = WithOpenRevoked(enrollment)
    /\ revoking' = {}
    /\ UNCHANGED <<lapsed, superseded, daemonVars>>

Revoke ==
    /\ lifecycle \in {"pending", "active", "disabled"} /\ revoking = {}
    /\ \/ Revokes(Known)
       \/ /\ Known \cap Held # {}
          /\ revoking' = Known
          /\ UNCHANGED <<lifecycle, cred, lapsed, enrollment, superseded, daemonVars>>

\* The wait of Revoke ends, for good or in a deadlock with a rotation that
\* wants another of its rows.
RevokeGoesOn ==
    /\ revoking # {}
    /\ \/ Revokes(revoking)
       \/ /\ \E c \in Rotations : c.stage = "revoked" /\ HeldBy(c) \cap revoking # {}
          /\ revoking' = {}
          /\ UNCHANGED <<lifecycle, cred, lapsed, enrollment, superseded, daemonVars>>

\* Delete: the credentials and enrollments go with the connector.  A rotation
\* in between finds no connector to insert for.
Delete ==
    /\ lifecycle # "deleted" /\ revoking = {}
    /\ lifecycle' = "deleted"
    /\ cred' = RevokedCredentials(Known)
    /\ enrollment' = [t \in Secret |-> [enrollment[t] EXCEPT !.state = "revoked"]]
    /\ UNCHANGED <<lapsed, superseded, revoking, daemonVars>>

\* A retiring credential's 24 hours or a credential's 90 days are over.
Lapses(c) ==
    /\ cred[c] = "retiring" \/ (cred[c] = "current" /\ c \in due)
    /\ c \notin lapsed
    /\ lapsed' = lapsed \cup {c}
    /\ UNCHANGED <<lifecycle, cred, enrollment, superseded, revoking, daemonVars>>

-----------------------------------------------------------------------------
(* Core handles a call: one transaction for an enrollment, which locks the *)
(* connector row; authentication and then a transaction of three           *)
(* statements for a rotation.  after is the call afterwards.               *)

\* Mutant of EnrollRefused: a consumed secret is not compared with the call.
EnrollRefusedUnlessSpent(c) ==
    LET e == enrollment[c.secret] IN
    \/ e.state \in {"none", "revoked", "expired"}
    \/ e.state = "open" /\ (lifecycle \in {"revoked", "deleted"} \/ cred[c.cred] # "none")

\* Unknown, revoked or expired; enrollment_replay_conflict;
\* printer_connector_revoked; the credential's primary key is taken.
EnrollRefused(c) ==
    LET e == enrollment[c.secret] IN
    \/ e.state \in {"none", "revoked", "expired"}
    \/ e.state = "consumed" /\ e.cred # c.cred
    \/ e.state = "open" /\ (lifecycle \in {"revoked", "deleted"} \/ cred[c.cred] # "none")

\* The call will use an open secret.
Enrolls(c) == /\ c.kind \in {"enroll", "reenroll"} /\ c.stage = "sent"
              /\ ~EnrollRefused(c) /\ enrollment[c.secret].state = "open"

Ended(c, stage) == [c EXCEPT !.stage = stage, !.seen = {}, !.revokes = {}, !.retires = {}]

\* A used secret answers its own credential again; an open one makes the
\* candidate current, after revoking all others of an enrolled connector.  It
\* waits for the rotations that hold rows; one that still needs the connector
\* row for its insert waits for it in turn, and either may be ended for that.
Enroll(c, after) ==
    /\ c.kind \in {"enroll", "reenroll"} /\ c.stage = "sent"
    /\ \/ /\ ~Enrolls(c)
          /\ after = Ended(c, IF EnrollRefused(c) THEN "error" ELSE "ok")
          /\ UNCHANGED coreVars
       \/ /\ Enrolls(c) /\ revoking = {} /\ Held # {}
          /\ after = Ended(c, "error")
          /\ UNCHANGED coreVars
       \/ /\ Enrolls(c) /\ revoking = {} /\ Held = {}
          /\ after = Ended(c, "ok")
          /\ LET reenroll == lifecycle # "pending" IN
             /\ cred' = [(IF reenroll THEN RevokedCredentials(Known) ELSE cred) EXCEPT ![c.cred] = "current"]
             /\ enrollment' = [enrollment EXCEPT ![c.secret] = [state |-> "consumed", cred |-> c.cred]]
             /\ lifecycle' = IF reenroll THEN lifecycle ELSE "active"
             /\ superseded' = IF reenroll THEN Known ELSE superseded
             /\ UNCHANGED <<lapsed, revoking>>

\* The router's middleware; the handler later trusts the lifecycle it read.
Authenticated(c) == [c EXCEPT !.stage = "authenticated", !.life = lifecycle]

Authenticate(c, after) ==
    /\ c.kind = "rotate" /\ c.stage = "sent"
    /\ after = IF Accepted(c.token) THEN Authenticated(c) ELSE Ended(c, "error")
    /\ UNCHANGED coreVars

\* A statement of a rotation on the rows in a state: those it saw when it began
\* to wait, or else those committed now; it changes the ones still in it.
Seen(c, state) == IF c.seen = {} THEN InState(state) ELSE c.seen

Waiting(c, state) == [c EXCEPT !.seen = InState(state)]

Waits(c, after, state) ==
    /\ c.seen = {} /\ InState(state) \cap LockedByOther(c) # {}
    /\ after = Waiting(c, state)
    /\ UNCHANGED coreVars

RetiringRevoked(c) ==
    [c EXCEPT !.stage = "revoked", !.seen = {}, !.revokes = Seen(c, "retiring") \cap InState("retiring")]

\* The handler's check, then RevokeRetiringCredentials.  Every rotation brings
\* a fresh credential id, so the handler's replay branch is never taken; it
\* does not look at the connector row again.
RevokeRetiring(c, after) ==
    /\ c.kind = "rotate" /\ c.stage = "authenticated"
    /\ \/ /\ c.life # "active"
          /\ after = Ended(c, "error")
          /\ UNCHANGED coreVars
       \/ c.life = "active" /\ Waits(c, after, "retiring")
       \/ /\ c.life = "active" /\ Seen(c, "retiring") \cap LockedByOther(c) = {}
          /\ after = RetiringRevoked(c)
          /\ UNCHANGED coreVars

CurrentRetired(c) ==
    [c EXCEPT !.stage = "retired", !.seen = {}, !.retires = Seen(c, "current") \cap InState("current")]

\* BeginCredentialRotation.  Its refusal by the index on retiring credentials
\* is part of InsertRotated: nobody else commits a current or retiring
\* credential while c holds the current one.
RetireCurrent(c, after) ==
    /\ c.kind = "rotate" /\ c.stage = "revoked"
    /\ \/ Waits(c, after, "current")
       \/ /\ Seen(c, "current") \cap LockedByOther(c) = {}
          /\ after = CurrentRetired(c)
          /\ UNCHANGED coreVars

\* Mutant of Conflicts: no unique index on retiring credentials.
ConflictsOfCurrent(c) == InState("current") \ c.retires

\* The committed rows that would share one of the partial unique indexes with
\* the rows of c: another current one, or another retiring one.
Conflicts(c) ==
    (InState("current") \ c.retires)
        \cup (IF c.retires = {} THEN {} ELSE InState("retiring") \ c.revokes)

\* Mutant of Rotated: the replaced credential is revoked at once.
RotatedWithoutHandover(c) ==
    [k \in Credential |-> IF k = c.cred THEN "current"
                          ELSE IF k \in HeldBy(c) THEN "revoked" ELSE cred[k]]

Rotated(c) ==
    [k \in Credential |-> IF k = c.cred THEN "current"
                          ELSE IF k \in c.revokes THEN "revoked"
                          ELSE IF k \in c.retires THEN "retiring" ELSE cred[k]]

\* CreateRotatedCredential and the commit.  The insert fails without a
\* connector row or on a unique index, after waiting for the rotation that
\* changes the row in its way.
InsertRotated(c, after) ==
    /\ c.kind = "rotate" /\ c.stage = "retired"
    /\ \/ /\ \/ lifecycle = "deleted" \/ cred[c.cred] # "none"
             \/ Conflicts(c) # {} /\ Conflicts(c) \cap LockedByOther(c) = {}
          /\ after = Ended(c, "error")
          /\ UNCHANGED coreVars
       \/ /\ lifecycle # "deleted" /\ cred[c.cred] = "none" /\ Conflicts(c) = {}
          /\ after = Ended(c, "ok")
          /\ cred' = Rotated(c)
          /\ superseded' = superseded \cup (IF c.token \in superseded THEN {c.cred} ELSE {})
          /\ UNCHANGED <<lifecycle, lapsed, enrollment, revoking>>

\* The rows the next statement of c needs.
Wants(c) == IF c.stage = "revoked" THEN Seen(c, "current") ELSE Conflicts(c)

\* c holds rows that another transaction waits for, and needs what that one
\* holds: a row of another rotation, the connector row a re-enrollment has
\* locked, or a row Revoke has changed.  PostgreSQL may end c.
DeadlockVictim(c, after) ==
    /\ c.kind = "rotate" /\ c.stage \in {"revoked", "retired"}
    /\ \/ \E o \in Rotations : /\ o.stage \in {"revoked", "retired"}
                               /\ Wants(c) \cap HeldBy(o) # {} /\ Wants(o) \cap HeldBy(c) # {}
       \/ HeldBy(c) # {} /\ revoking = {} /\ \E e \in strays \cup {call[d] : d \in Daemon} : Enrolls(e)
       \/ c.stage = "revoked" /\ HeldBy(c) \cap revoking # {}
    /\ after = Ended(c, "error")
    /\ UNCHANGED coreVars

RotateCredential(c, after) ==
    RevokeRetiring(c, after) \/ RetireCurrent(c, after) \/ InsertRotated(c, after) \/ DeadlockVictim(c, after)

CoreHandles(c, after) == Enroll(c, after) \/ Authenticate(c, after) \/ RotateCredential(c, after)

Handled(c) == {Ended(c, "ok"), Ended(c, "error"), Authenticated(c), RetiringRevoked(c), CurrentRetired(c),
               Waiting(c, "retiring"), Waiting(c, "current")}

CoreAnswers(d) ==
    /\ call[d] # NoCall
    /\ \E after \in Handled(call[d]) :
          CoreHandles(call[d], after) /\ call' = [call EXCEPT ![d] = after]
    /\ UNCHANGED <<identity, env, phase, strays, due, made, faults>>

CoreHandlesStray ==
    /\ \E c \in strays : \E after \in Handled(c) :
          /\ CoreHandles(c, after)
          /\ strays' = (strays \ {c}) \cup (IF after.stage \in {"ok", "error"} THEN {} ELSE {after})
    /\ UNCHANGED <<identity, env, phase, call, due, made, faults>>

-----------------------------------------------------------------------------
(* The daemon.                                                             *)

\* The operator puts a secret into the daemon's environment.
Configure(d, s) ==
    /\ phase[d] = "down" /\ call[d] = NoCall /\ env[d] # s
    /\ enrollment[s].state = "open"
    /\ env' = [env EXCEPT ![d] = s]
    /\ UNCHANGED <<coreVars, identity, phase, call, strays, due, made, faults>>

NewCall(kind, secret, token, c) ==
    [kind |-> kind, secret |-> secret, token |-> token, cred |-> c, stage |-> "sent", life |-> "pending",
     seen |-> {}, revokes |-> {}, retires |-> {}]

\* Mutant of Candidate: an unenrolled daemon forgets the candidate it saved.
CandidateForgotten(d) == IF made < MaxCred THEN made + 1 ELSE identity[d].cred

\* ensureIdentity: the credential saved by an earlier attempt, or a new one.
Candidate(d) == IF identity[d].cred = None THEN made + 1 ELSE identity[d].cred

\* ensureIdentity keeps an enrolled identity ...
KeepIdentity(d) ==
    /\ phase[d] = "down" /\ call[d] = NoCall
    /\ identity[d].enrolled /\ env[d] \in {NoSecret, identity[d].secret}
    /\ phase' = [phase EXCEPT ![d] = "ready"]
    /\ UNCHANGED <<coreVars, identity, env, call, strays, due, made, faults>>

\* Mutant of FirstEnrollment: an empty secret is sent like any other.
FirstEnrollmentUnchecked(d) ==
    /\ phase[d] = "down" /\ call[d] = NoCall
    /\ ~identity[d].enrolled
    /\ Candidate(d) <= MaxCred
    /\ made' = IF Candidate(d) > made THEN Candidate(d) ELSE made
    /\ identity' = [identity EXCEPT ![d].cred = Candidate(d)]
    /\ call' = [call EXCEPT ![d] = NewCall("enroll", env[d], None, Candidate(d))]
    /\ UNCHANGED <<coreVars, env, phase, strays, due, faults>>

\* ... or enrolls for the first time, with a candidate saved before the call ...
FirstEnrollment(d) ==
    /\ phase[d] = "down" /\ call[d] = NoCall
    /\ ~identity[d].enrolled /\ env[d] # NoSecret
    /\ Candidate(d) <= MaxCred
    /\ made' = IF Candidate(d) > made THEN Candidate(d) ELSE made
    /\ identity' = [identity EXCEPT ![d].cred = Candidate(d)]
    /\ call' = [call EXCEPT ![d] = NewCall("enroll", env[d], None, Candidate(d))]
    /\ UNCHANGED <<coreVars, env, phase, strays, due, faults>>

\* ... or reenrollIfNewSecret exchanges another secret for a new credential.
Reenrollment(d) ==
    /\ phase[d] = "down" /\ call[d] = NoCall
    /\ identity[d].enrolled /\ env[d] \notin {NoSecret, identity[d].secret}
    /\ made < MaxCred /\ made' = made + 1
    /\ call' = [call EXCEPT ![d] = NewCall("reenroll", env[d], None, made + 1)]
    /\ UNCHANGED <<coreVars, identity, env, phase, strays, due, faults>>

\* Run: no rotation is needed, or the first one is done: the loop begins.
EnterLoop(d) ==
    /\ phase[d] = "ready" /\ call[d] = NoCall
    /\ identity[d].cred \notin due
    /\ phase' = [phase EXCEPT ![d] = "up"]
    /\ UNCHANGED <<coreVars, identity, env, call, strays, due, made, faults>>

\* rotateCredentialIfNeeded: a fresh credential for every attempt.
Rotate(d) ==
    /\ phase[d] \in {"ready", "up"} /\ call[d] = NoCall
    /\ identity[d].cred \in due
    /\ made < MaxCred /\ made' = made + 1
    /\ call' = [call EXCEPT ![d] = NewCall("rotate", NoSecret, identity[d].cred, made + 1)]
    /\ UNCHANGED <<coreVars, identity, env, phase, strays, due, faults>>

\* A failed re-enrollment or a failed rotation of the loop leaves the daemon
\* running; a failed first enrollment or first rotation ends the process.
PhaseAfterFailure(d) ==
    CASE call[d].kind = "enroll"   -> "down"
      [] call[d].kind = "reenroll" -> "ready"
      [] call[d].kind = "rotate"   -> IF phase[d] = "ready" THEN "down" ELSE "up"

\* Core accepted and SaveIdentity stored the new identity.
CallSucceeds(d) ==
    /\ call[d] # NoCall /\ call[d].stage = "ok"
    /\ identity' = [identity EXCEPT ![d] =
          [cred     |-> call[d].cred,
           enrolled |-> TRUE,
           secret   |-> IF call[d].kind = "rotate" THEN identity[d].secret ELSE call[d].secret]]
    /\ phase' = [phase EXCEPT ![d] = IF call[d].kind = "rotate" THEN "up" ELSE "ready"]
    /\ call' = [call EXCEPT ![d] = NoCall]
    /\ UNCHANGED <<coreVars, env, strays, due, made, faults>>

\* Core refused.
CallRefused(d) ==
    /\ call[d] # NoCall /\ call[d].stage = "error"
    /\ phase' = [phase EXCEPT ![d] = PhaseAfterFailure(d)]
    /\ call' = [call EXCEPT ![d] = NoCall]
    /\ UNCHANGED <<coreVars, identity, env, strays, due, made, faults>>

\* The call or its answer is lost, or SaveIdentity fails: the previous
\* identity stays; Core may or may not go on with an unfinished call.
CallLost(d) ==
    /\ faults < MaxFaults
    /\ call[d] # NoCall
    /\ faults' = faults + 1
    /\ phase' = [phase EXCEPT ![d] = PhaseAfterFailure(d)]
    /\ call' = [call EXCEPT ![d] = NoCall]
    /\ strays' \in {strays} \cup
          {strays \cup {c} : c \in {x \in {call[d]} : x.stage \notin {"ok", "error"}}}
    /\ UNCHANGED <<coreVars, identity, env, due, made>>

\* The daemon is stopped between two calls.
Stop(d) ==
    /\ phase[d] = "up" /\ call[d] = NoCall
    /\ phase' = [phase EXCEPT ![d] = "down"]
    /\ UNCHANGED <<coreVars, identity, env, call, strays, due, made, faults>>

\* The final seven days of a daemon's credential begin.
FinalWeek(d) ==
    /\ identity[d].enrolled /\ identity[d].cred \notin due
    /\ due' = due \cup {identity[d].cred}
    /\ UNCHANGED <<coreVars, identity, env, phase, call, strays, made, faults>>

-----------------------------------------------------------------------------
Start(d) == KeepIdentity(d) \/ FirstEnrollment(d) \/ Reenrollment(d)

Administration ==
    \/ \E s \in Secret : IssueEnrollment(s) \/ EnrollmentExpires(s)
    \/ Update \/ Revoke \/ RevokeGoesOn \/ Delete
    \/ \E c \in Credential : Lapses(c)

DaemonStep(d) ==
    \/ \E s \in Secret : Configure(d, s)
    \/ Start(d) \/ EnterLoop(d) \/ Stop(d) \/ FinalWeek(d) \/ Rotate(d)
    \/ CallSucceeds(d) \/ CallRefused(d) \/ CallLost(d)

Next == \/ Administration
        \/ CoreHandlesStray
        \/ \E d \in Daemon : CoreAnswers(d) \/ DaemonStep(d)

Spec == Init /\ [][Next]_vars

\* The container restarts unless it was stopped, and Core answers.
Fairness == \A d \in Daemon : /\ WF_vars(Start(d))
                              /\ WF_vars(CoreAnswers(d))
                              /\ WF_vars(CallSucceeds(d))
                              /\ WF_vars(CallRefused(d))

FairSpec == Spec /\ Fairness

-----------------------------------------------------------------------------
(* Properties.                                                             *)

\* The tables of Core, the daemons' volumes and the calls on the wire have
\* the shapes of the schema and of the client's requests.
TypeOK ==
    /\ lifecycle \in {"pending", "active", "disabled", "revoked", "deleted"}
    /\ cred \in [Credential -> {"none", "current", "retiring", "revoked"}]
    /\ lapsed \subseteq Credential
    /\ enrollment \in [Secret -> [state : {"none", "open", "consumed", "revoked", "expired"},
                                  cred  : Credential \cup {None}]]
    /\ superseded \subseteq Credential
    /\ revoking \subseteq Credential
    /\ identity \in [Daemon -> [cred : Credential \cup {None}, enrolled : BOOLEAN,
                                secret : Secret \cup {NoSecret}]]
    /\ env \in [Daemon -> Secret \cup {NoSecret}]
    /\ phase \in [Daemon -> {"down", "ready", "up"}]
    /\ call \in [Daemon -> Calls \cup {NoCall}]
    /\ strays \subseteq Calls
    /\ due \subseteq Credential
    /\ made \in 0 .. MaxCred
    /\ faults \in 0 .. MaxFaults

\* However the statements of rotations, re-enrollments and a revocation fall,
\* what is committed while the connector is enrolled is one of them at a time:
\* an enrollment that leaves its candidate alone, or a rotation that puts its
\* candidate in the place of the current credential, which becomes the only
\* retiring one.  A rotation that saw rows of before another one is refused by
\* the partial unique indexes; no rotation leaves a second retiring credential
\* valid or the connector without a handover.
CredentialsSerial ==
    [][cred' # cred /\ lifecycle' \in {"active", "disabled"} =>
         \E k \in InState("none") :
            /\ cred'[k] = "current"
            /\ LET others == Credential \ {k} IN
               \/ \A o \in others : cred'[o] = IF cred[o] = "none" THEN "none" ELSE "revoked"
               \/ /\ InState("current") # {}
                  /\ \A o \in others : cred'[o] = CASE cred[o] = "current"  -> "retiring"
                                                    [] cred[o] = "retiring" -> "revoked"
                                                    [] OTHER                -> cred[o]]_vars

\* One enrollment secret never makes two daemons hold the connector, although
\* the same secret is answered again to the daemon that retries.
SecretEnrollsOneDaemon ==
    \A d, e \in Daemon :
        /\ identity[d].enrolled /\ identity[e].enrolled
        /\ identity[d].secret = identity[e].secret
        => d = e

\* Core "accepts the prior credential for a 24-hour handover window so a
\* successful server response followed by a local disk failure can recover
\* safely": after one failure, whichever it was, the identity on the volume of
\* an enrolled daemon is one Core still knows, unless the connector was revoked
\* or deleted or another enrollment took its place.
HandoverCoversOneFailure ==
    \A d \in Daemon :
        /\ identity[d].enrolled /\ call[d] = NoCall
        /\ lifecycle \in {"active", "disabled"}
        /\ superseded = {} /\ faults <= 1
        => cred[identity[d].cred] \in {"current", "retiring"}

\* No lost answer, failed save or restart wastes the secret of a first
\* enrollment: as long as no daemon is enrolled, the candidate a secret was used
\* for is still on a volume, and its daemon's retry is the call Core has already
\* accepted.
FirstSecretNotWasted ==
    (\A d \in Daemon : ~identity[d].enrolled) =>
        \A s \in Secret : enrollment[s].cred # None =>
            \E d \in Daemon : identity[d].cred = enrollment[s].cred

\* A daemon that is given an open secret gets enrolled with it, although the
\* first answer may be lost, unless the secret or the connector ends first:
\* the saved candidate makes the retry the call Core has already accepted.
FirstEnrollmentCompletes ==
    \A d \in Daemon, s \in Secret :
        (env[d] = s /\ enrollment[s].state = "open") ~>
            (identity[d].enrolled \/ enrollment[s].state \in {"expired", "revoked"})

\* A re-enrollment "revokes every earlier credential of the connector" and the
\* old daemon "gets 401": Core accepts no credential that is older than the
\* last re-enrollment or was rotated from one.
EarlierCredentialsRejected == \A c \in superseded : ~Accepted(c)
=============================================================================
