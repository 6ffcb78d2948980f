--------------------- MODULE ConnectorCredentialsProofs --------------------
(***************************************************************************)
(* Proofs about ConnectorCredentials for every set of daemons and secrets  *)
(* and every number of credentials, lost calls and failed saves.           *)
(***************************************************************************)
EXTENDS ConnectorCredentials, TLAPS

-----------------------------------------------------------------------------
(* Calls. *)

\* A call has the fields of its request: an enrollment carries a secret, a
\* rotation the credential it authenticates with.
LEMMA CallShape ==
    ASSUME NEW c \in Calls
    PROVE  /\ c # NoCall
           /\ c.kind \in {"enroll", "reenroll", "rotate"}
           /\ c.kind = "rotate" <=> c.secret = NoSecret
           /\ c.kind = "rotate" => c.token \in Credential
           /\ c.kind # "rotate" => c.secret \in Secret /\ c.token = None
           /\ c.cred \in Credential
           /\ c.stage \in {"sent", "authenticated", "revoked", "retired", "ok", "error"}
           /\ c.life \in {"pending", "active", "disabled"}
           /\ c.seen \subseteq Credential /\ c.revokes \subseteq Credential /\ c.retires \subseteq Credential
BY NoSecretIsNone DEF Calls, CallsOf, NoCall

\* The three calls a daemon makes are calls, and hold nothing in Core.
LEMMA NewCallType ==
    ASSUME NEW s \in Secret, NEW t \in Credential, NEW c \in Credential
    PROVE  /\ NewCall("enroll", s, None, c) \in Calls
           /\ NewCall("reenroll", s, None, c) \in Calls
           /\ NewCall("rotate", NoSecret, t, c) \in Calls
BY DEF NewCall, Calls, CallsOf

\* The call after each of Core's steps on it.
LEMMA EndedCall ==
    ASSUME NEW c \in Calls, NEW stage \in {"ok", "error"}, NEW a, a = Ended(c, stage)
    PROVE  /\ a \in Calls
           /\ a.kind = c.kind /\ a.secret = c.secret /\ a.token = c.token /\ a.cred = c.cred
           /\ a.stage = stage /\ a.revokes = {} /\ a.retires = {}
BY NoSecretIsNone DEF Ended, Calls, CallsOf, NoCall

\* The middleware's answer changes the stage of a call and the lifecycle it
\* read, nothing else.
LEMMA AuthenticatedCall ==
    ASSUME NEW c \in Calls, lifecycle \in {"active", "disabled"}, NEW a, a = Authenticated(c)
    PROVE  /\ a \in Calls
           /\ a.kind = c.kind /\ a.secret = c.secret /\ a.token = c.token /\ a.cred = c.cred
           /\ a.stage = "authenticated" /\ a.revokes = c.revokes /\ a.retires = c.retires
BY NoSecretIsNone DEF Authenticated, Calls, CallsOf, NoCall

\* A statement that waits keeps the rows it saw.
LEMMA WaitingCall ==
    ASSUME NEW c \in Calls, NEW state, NEW a, a = Waiting(c, state)
    PROVE  /\ a \in Calls
           /\ a.kind = c.kind /\ a.secret = c.secret /\ a.token = c.token /\ a.cred = c.cred
           /\ a.stage = c.stage /\ a.revokes = c.revokes /\ a.retires = c.retires
<1>1. InState(state) \in SUBSET Credential
  BY DEF InState
<1> QED BY <1>1, NoSecretIsNone DEF Waiting, Calls, CallsOf, NoCall

\* The first statement of a rotation changes rows that are retiring.
LEMMA RetiringRevokedCall ==
    ASSUME NEW c \in Calls, NEW a, a = RetiringRevoked(c)
    PROVE  /\ a \in Calls
           /\ a.kind = c.kind /\ a.secret = c.secret /\ a.token = c.token /\ a.cred = c.cred
           /\ a.stage = "revoked" /\ a.retires = c.retires
           /\ a.revokes = Seen(c, "retiring") \cap InState("retiring")
<1>1. Seen(c, "retiring") \cap InState("retiring") \in SUBSET Credential
  BY DEF InState
<1> QED BY <1>1, NoSecretIsNone DEF RetiringRevoked, Calls, CallsOf, NoCall

\* The second statement of a rotation changes rows that are current.
LEMMA CurrentRetiredCall ==
    ASSUME NEW c \in Calls, NEW a, a = CurrentRetired(c)
    PROVE  /\ a \in Calls
           /\ a.kind = c.kind /\ a.secret = c.secret /\ a.token = c.token /\ a.cred = c.cred
           /\ a.stage = "retired" /\ a.revokes = c.revokes
           /\ a.retires = Seen(c, "current") \cap InState("current")
<1>1. Seen(c, "current") \cap InState("current") \in SUBSET Credential
  BY DEF InState
<1> QED BY <1>1, NoSecretIsNone DEF CurrentRetired, Calls, CallsOf, NoCall

-----------------------------------------------------------------------------
(* The effect of a call on Core's tables. *)

\* What an enrollment with an open secret does: the candidate becomes current,
\* every other credential is revoked unless the connector was pending; no
\* rotation holds a row then.
EnrollsAnew(c) ==
    /\ c.kind # "rotate"
    /\ c.stage = "sent"
    /\ Held = {}
    /\ enrollment[c.secret].state = "open"
    /\ lifecycle \in {"pending", "active", "disabled"}
    /\ cred[c.cred] = "none"
    /\ \A k \in Credential :
          cred'[k] = IF k = c.cred THEN "current"
                     ELSE IF lifecycle = "pending" \/ cred[k] = "none" THEN cred[k] ELSE "revoked"
    /\ \A s \in Secret :
          /\ s = c.secret => enrollment'[s].state = "consumed" /\ enrollment'[s].cred = c.cred
          /\ s # c.secret => enrollment'[s] = enrollment[s]
    /\ lifecycle' = IF lifecycle = "pending" THEN "active" ELSE lifecycle
    /\ superseded' = IF lifecycle = "pending" THEN superseded ELSE {k \in Credential : cred[k] # "none"}

\* What the commit of a rotation does to the credentials.
RotatesTo(c) ==
    /\ c.kind = "rotate"
    /\ c.stage = "retired"
    /\ lifecycle # "deleted"
    /\ cred[c.cred] = "none"
    /\ Conflicts(c) = {}
    /\ \A k \in Credential :
          cred'[k] = IF k = c.cred THEN "current"
                     ELSE IF k \in c.revokes THEN "revoked"
                     ELSE IF k \in c.retires THEN "retiring" ELSE cred[k]
    /\ UNCHANGED <<lifecycle, enrollment>>
    /\ superseded \subseteq superseded'

\* Core's step on a call changes no table; the call's transaction may change
\* rows no other one has changed.
CallMoves(c, after) ==
    /\ UNCHANGED coreVars
    /\ after.stage = "ok" => /\ c.kind # "rotate" /\ c.stage = "sent"
                             /\ enrollment[c.secret].cred = c.cred
    /\ after.stage # "sent"
    /\ \/ after.revokes \subseteq c.revokes
       \/ after.revokes \subseteq InState("retiring") \ LockedByOther(c)
    /\ \/ after.retires \subseteq c.retires
       \/ after.retires \subseteq InState("current") \ LockedByOther(c)

\* Whatever Core does with a call is one of three things: a step that commits
\* nothing (a refusal, a repeated answer, an authentication, a statement of a
\* rotation), a new enrollment or the commit of a rotation.
LEMMA CoreEffect ==
    ASSUME lifecycle \in {"pending", "active", "disabled", "revoked", "deleted"},
           cred \in [Credential -> {"none", "current", "retiring", "revoked"}],
           enrollment \in [Secret -> [state : {"none", "open", "consumed", "revoked", "expired"},
                                      cred  : Credential \cup {None}]],
           NEW c \in Calls, NEW after, CoreHandles(c, after)
    PROVE  /\ after \in Calls
           /\ after.kind = c.kind /\ after.secret = c.secret /\ after.cred = c.cred
           /\ c.stage \in {"sent", "authenticated", "revoked", "retired"}
           /\ \/ CallMoves(c, after)
              \/ EnrollsAnew(c) /\ after.stage = "ok"
              \/ RotatesTo(c) /\ after.stage = "ok" /\ after.revokes = {} /\ after.retires = {}
<1>1. CASE Enroll(c, after)
  <2>1. c.cred \in Credential /\ c.secret \in Secret /\ c.kind # "rotate" /\ c.stage = "sent"
    BY <1>1, CallShape DEF Enroll
  <2>2. CASE ~Enrolls(c)
    <3>1. after = Ended(c, IF EnrollRefused(c) THEN "error" ELSE "ok") /\ UNCHANGED coreVars
      BY <1>1, <2>2 DEF Enroll
    <3>2. ~EnrollRefused(c) => enrollment[c.secret].cred = c.cred
      BY <1>1, <2>1, <2>2 DEF Enrolls, Enroll, EnrollRefused
    <3> QED BY <2>1, <3>1, <3>2, EndedCall DEF CallMoves
  <2>3. CASE Enrolls(c) /\ Held # {}
    <3>1. after = Ended(c, "error") /\ UNCHANGED coreVars
      BY <1>1, <2>3 DEF Enroll
    <3> QED BY <2>1, <3>1, EndedCall DEF CallMoves
  <2>4. CASE Enrolls(c) /\ Held = {}
    <3>1. /\ enrollment[c.secret].state = "open"
          /\ lifecycle \in {"pending", "active", "disabled"}
          /\ cred[c.cred] = "none"
      BY <2>1, <2>4 DEF Enrolls, EnrollRefused
    <3>2. /\ after = Ended(c, "ok")
          /\ cred' = [(IF lifecycle # "pending" THEN RevokedCredentials(Known) ELSE cred)
                      EXCEPT ![c.cred] = "current"]
          /\ enrollment' = [enrollment EXCEPT ![c.secret] = [state |-> "consumed", cred |-> c.cred]]
          /\ lifecycle' = IF lifecycle # "pending" THEN lifecycle ELSE "active"
          /\ superseded' = IF lifecycle # "pending" THEN Known ELSE superseded
      BY <1>1, <2>4 DEF Enroll
    <3>3. Known = {k \in Credential : cred[k] # "none"}
      BY DEF Known, InState
    <3>4. \A k \in Credential :
            cred'[k] = IF k = c.cred THEN "current"
                       ELSE IF lifecycle = "pending" \/ cred[k] = "none" THEN cred[k] ELSE "revoked"
      BY <2>1, <3>2, <3>3 DEF RevokedCredentials
    <3>5. \A s \in Secret :
            /\ s = c.secret => enrollment'[s].state = "consumed" /\ enrollment'[s].cred = c.cred
            /\ s # c.secret => enrollment'[s] = enrollment[s]
      BY <2>1, <3>2
    <3>6. EnrollsAnew(c)
      BY <2>1, <2>4, <3>1, <3>2, <3>3, <3>4, <3>5 DEF EnrollsAnew
    <3> QED BY <2>1, <3>2, <3>6, EndedCall
  <2> QED BY <2>2, <2>3, <2>4
<1>2. CASE Authenticate(c, after)
  <2>1. CASE Accepted(c.token)
    BY <1>2, <2>1, AuthenticatedCall DEF Authenticate, Accepted, CallMoves
  <2>2. CASE ~Accepted(c.token)
    BY <1>2, <2>2, EndedCall DEF Authenticate, CallMoves
  <2> QED BY <2>1, <2>2
<1>3. CASE RevokeRetiring(c, after)
  <2>1. CASE after = Ended(c, "error") /\ UNCHANGED coreVars
    BY <1>3, <2>1, EndedCall DEF RevokeRetiring, CallMoves
  <2>2. CASE Waits(c, after, "retiring")
    BY <1>3, <2>2, WaitingCall DEF RevokeRetiring, Waits, CallMoves
  <2>3. CASE /\ Seen(c, "retiring") \cap LockedByOther(c) = {}
             /\ after = RetiringRevoked(c) /\ UNCHANGED coreVars
    BY <1>3, <2>3, RetiringRevokedCall DEF RevokeRetiring, CallMoves
  <2> QED BY <1>3, <2>1, <2>2, <2>3 DEF RevokeRetiring
<1>4. CASE RetireCurrent(c, after)
  <2>1. CASE Waits(c, after, "current")
    BY <1>4, <2>1, WaitingCall DEF RetireCurrent, Waits, CallMoves
  <2>2. CASE /\ Seen(c, "current") \cap LockedByOther(c) = {}
             /\ after = CurrentRetired(c) /\ UNCHANGED coreVars
    BY <1>4, <2>2, CurrentRetiredCall DEF RetireCurrent, CallMoves
  <2> QED BY <1>4, <2>1, <2>2 DEF RetireCurrent
<1>5. CASE InsertRotated(c, after)
  <2>1. CASE after = Ended(c, "error") /\ UNCHANGED coreVars
    BY <1>5, <2>1, EndedCall DEF InsertRotated, CallMoves
  <2>2. CASE /\ lifecycle # "deleted" /\ cred[c.cred] = "none" /\ Conflicts(c) = {}
             /\ after = Ended(c, "ok")
             /\ cred' = Rotated(c)
             /\ superseded' = superseded \cup (IF c.token \in superseded THEN {c.cred} ELSE {})
             /\ UNCHANGED <<lifecycle, lapsed, enrollment, revoking>>
    <3>1. RotatesTo(c)
      BY <1>5, <2>2 DEF InsertRotated, RotatesTo, Rotated
    <3> QED BY <1>5, <2>2, <3>1, EndedCall DEF InsertRotated
  <2> QED BY <1>5, <2>1, <2>2 DEF InsertRotated
<1>6. CASE DeadlockVictim(c, after)
  BY <1>6, EndedCall DEF DeadlockVictim, CallMoves
<1> QED BY <1>1, <1>2, <1>3, <1>4, <1>5, <1>6 DEF CoreHandles, RotateCredential

-----------------------------------------------------------------------------
(* Types. *)

\* TypeOK of the tables in Core.
CoreTypeOK ==
    /\ lifecycle \in {"pending", "active", "disabled", "revoked", "deleted"}
    /\ cred \in [Credential -> {"none", "current", "retiring", "revoked"}]
    /\ lapsed \subseteq Credential
    /\ enrollment \in [Secret -> [state : {"none", "open", "consumed", "revoked", "expired"},
                                  cred  : Credential \cup {None}]]
    /\ superseded \subseteq Credential
    /\ revoking \subseteq Credential

\* Whatever Core does with a call, its tables and the call keep their types.
LEMMA HandledTypes ==
    ASSUME CoreTypeOK, NEW c \in Calls, NEW after, CoreHandles(c, after)
    PROVE  CoreTypeOK' /\ after \in Calls
<1>1. after \in Calls
  BY CoreEffect DEF CoreTypeOK
<1>2. CASE UNCHANGED coreVars
  BY <1>1, <1>2 DEF CoreTypeOK, coreVars
<1>3. CASE Enroll(c, after) /\ ~ UNCHANGED coreVars
  <2>1. c.cred \in Credential /\ c.secret \in Secret
    BY <1>3, CallShape DEF Enroll
  <2>2. /\ cred' = [(IF lifecycle # "pending" THEN RevokedCredentials(Known) ELSE cred)
                    EXCEPT ![c.cred] = "current"]
        /\ enrollment' = [enrollment EXCEPT ![c.secret] = [state |-> "consumed", cred |-> c.cred]]
        /\ lifecycle' = IF lifecycle # "pending" THEN lifecycle ELSE "active"
        /\ superseded' = IF lifecycle # "pending" THEN Known ELSE superseded
        /\ lapsed' = lapsed /\ revoking' = revoking
    BY <1>3 DEF Enroll
  <2>3. RevokedCredentials(Known) \in [Credential -> {"none", "current", "retiring", "revoked"}]
    BY DEF RevokedCredentials, CoreTypeOK
  <2>4. Known \subseteq Credential
    BY DEF Known
  <2>5. cred' \in [Credential -> {"none", "current", "retiring", "revoked"}]
    BY <2>1, <2>2, <2>3 DEF CoreTypeOK
  <2>6. enrollment' \in [Secret -> [state : {"none", "open", "consumed", "revoked", "expired"},
                                    cred  : Credential \cup {None}]]
    BY <2>1, <2>2 DEF CoreTypeOK
  <2> QED BY <1>1, <2>2, <2>4, <2>5, <2>6 DEF CoreTypeOK
<1>4. CASE InsertRotated(c, after) /\ ~ UNCHANGED coreVars
  <2>1. /\ cred' = Rotated(c)
        /\ superseded' = superseded \cup (IF c.token \in superseded THEN {c.cred} ELSE {})
        /\ UNCHANGED <<lifecycle, lapsed, enrollment, revoking>>
    BY <1>4 DEF InsertRotated
  <2> QED BY <1>1, <2>1, CallShape DEF CoreTypeOK, Rotated
<1> QED BY <1>2, <1>3, <1>4 DEF CoreHandles, RotateCredential, RevokeRetiring, RetireCurrent, DeadlockVictim,
           Authenticate, Waits

\* An enrolled identity has a credential. TypeOK is not inductive without it:
\* FinalWeek puts the credential of an enrolled daemon into due.
EnrolledHasCredential == \A d \in Daemon : identity[d].enrolled => identity[d].cred # None

\* The initial states satisfy TypeOK.
LEMMA TypeInit == ASSUME Init PROVE TypeOK
BY CredentialBounds DEF Init, TypeOK, None, Credential

\* Every step keeps TypeOK.
LEMMA TypeStep ==
    ASSUME TypeOK, EnrolledHasCredential, [Next]_vars
    PROVE  TypeOK'
<1> USE CredentialBounds
<1>0. CoreTypeOK
  BY DEF TypeOK, CoreTypeOK
<1>1. CASE UNCHANGED vars
  BY <1>1 DEF TypeOK, vars, coreVars, daemonVars
<1>2. CASE Administration
  <2>1. ASSUME NEW s \in Secret, IssueEnrollment(s) PROVE TypeOK'
    BY <2>1 DEF IssueEnrollment, WithOpenRevoked, TypeOK, daemonVars
  <2>2. ASSUME NEW s \in Secret, EnrollmentExpires(s) PROVE TypeOK'
    BY <2>2 DEF EnrollmentExpires, TypeOK, daemonVars
  <2>3. CASE Update
    BY <2>3 DEF Update, TypeOK, daemonVars
  <2>4. CASE Revoke \/ RevokeGoesOn
    BY <2>4 DEF Revoke, RevokeGoesOn, Revokes, Known, RevokedCredentials, WithOpenRevoked, TypeOK, daemonVars
  <2>5. CASE Delete
    BY <2>5 DEF Delete, RevokedCredentials, TypeOK, daemonVars
  <2>6. ASSUME NEW c \in Credential, Lapses(c) PROVE TypeOK'
    BY <2>6 DEF Lapses, TypeOK, daemonVars
  <2> QED BY <1>2, <2>1, <2>2, <2>3, <2>4, <2>5, <2>6 DEF Administration
<1>3. CASE CoreHandlesStray
  <2>1. PICK c \in strays : \E after \in Handled(c) :
              /\ CoreHandles(c, after)
              /\ strays' = (strays \ {c}) \cup (IF after.stage \in {"ok", "error"} THEN {} ELSE {after})
    BY <1>3 DEF CoreHandlesStray
  <2>2. CoreTypeOK' /\ strays' \subseteq Calls
    BY <1>0, <2>1, HandledTypes DEF TypeOK
  <2> QED BY <1>3, <2>2 DEF CoreHandlesStray, TypeOK, CoreTypeOK
<1>4. ASSUME NEW d \in Daemon, CoreAnswers(d) PROVE TypeOK'
  <2>1. PICK after : CoreHandles(call[d], after) /\ call' = [call EXCEPT ![d] = after]
    BY <1>4 DEF CoreAnswers
  <2>2. call[d] \in Calls
    BY <1>4 DEF CoreAnswers, TypeOK
  <2>3. CoreTypeOK' /\ after \in Calls
    BY <1>0, <2>1, <2>2, HandledTypes
  <2> QED BY <1>4, <2>1, <2>3 DEF CoreAnswers, TypeOK, CoreTypeOK
<1>5. ASSUME NEW d \in Daemon, DaemonStep(d) PROVE TypeOK'
  <2>1. ASSUME NEW s \in Secret, Configure(d, s) PROVE TypeOK'
    BY <2>1 DEF Configure, TypeOK, coreVars
  <2>2. CASE KeepIdentity(d)
    BY <2>2 DEF KeepIdentity, TypeOK, coreVars
  <2>3. CASE FirstEnrollment(d)
    <3>1. Candidate(d) \in Credential
      BY <2>3 DEF FirstEnrollment, Candidate, TypeOK, Credential, None
    <3>2. env[d] \in Secret
      BY <2>3 DEF FirstEnrollment, TypeOK
    <3>3. NewCall("enroll", env[d], None, Candidate(d)) \in Calls
      BY <3>1, <3>2, NewCallType
    <3>4. made' \in 0 .. MaxCred
      BY <2>3, <3>1 DEF FirstEnrollment, TypeOK, Credential
    <3> HIDE DEF Credential
    <3> QED BY <2>3, <3>1, <3>3, <3>4 DEF FirstEnrollment, TypeOK, coreVars
  <2>4. CASE Reenrollment(d)
    <3>1. made + 1 \in Credential /\ made' \in 0 .. MaxCred
      BY <2>4 DEF Reenrollment, TypeOK, Credential
    <3>2. env[d] \in Secret
      BY <2>4 DEF Reenrollment, TypeOK
    <3>3. NewCall("reenroll", env[d], None, made + 1) \in Calls
      BY <3>1, <3>2, NewCallType
    <3> QED BY <2>4, <3>1, <3>3 DEF Reenrollment, TypeOK, coreVars
  <2>5. CASE EnterLoop(d)
    BY <2>5 DEF EnterLoop, TypeOK, coreVars
  <2>6. CASE Stop(d)
    BY <2>6 DEF Stop, TypeOK, coreVars
  <2>7. CASE FinalWeek(d)
    BY <2>7 DEF FinalWeek, EnrolledHasCredential, TypeOK, coreVars
  <2>8. CASE Rotate(d)
    <3>1. made + 1 \in Credential /\ made' \in 0 .. MaxCred
      BY <2>8 DEF Rotate, TypeOK, Credential
    <3>2. identity[d].cred \in Credential
      BY <2>8 DEF Rotate, TypeOK
    <3>3. NewCall("rotate", NoSecret, identity[d].cred, made + 1) \in Calls
      BY <3>1, <3>2, NewCallType DEF NewCall, Calls, CallsOf
    <3> QED BY <2>8, <3>1, <3>3 DEF Rotate, TypeOK, coreVars
  <2>9. call[d] # NoCall => call[d] \in Calls /\ PhaseAfterFailure(d) \in {"down", "ready", "up"}
    BY CallShape DEF TypeOK, PhaseAfterFailure
  <2>10. CASE CallSucceeds(d)
    <3>1. call[d] \in Calls
      BY <2>9, <2>10 DEF CallSucceeds
    <3>2. [cred |-> call[d].cred, enrolled |-> TRUE,
           secret |-> IF call[d].kind = "rotate" THEN identity[d].secret ELSE call[d].secret]
          \in [cred : Credential \cup {None}, enrolled : BOOLEAN, secret : Secret \cup {NoSecret}]
      BY <3>1, CallShape DEF TypeOK
    <3> QED BY <2>10, <3>2 DEF CallSucceeds, TypeOK, coreVars
  <2>11. CASE CallRefused(d)
    BY <2>9, <2>11 DEF CallRefused, TypeOK, coreVars
  <2>12. CASE CallLost(d)
    <3>1. strays' \subseteq Calls
      BY <2>9, <2>12 DEF CallLost, TypeOK
    <3>2. faults' \in 0 .. MaxFaults
      BY <2>12 DEF CallLost, TypeOK
    <3> QED BY <2>9, <2>12, <3>1, <3>2 DEF CallLost, TypeOK, coreVars
  <2> QED BY <1>5, <2>1, <2>2, <2>3, <2>4, <2>5, <2>6, <2>7, <2>8, <2>10, <2>11, <2>12 DEF DaemonStep, Start
<1> QED BY <1>1, <1>2, <1>3, <1>4, <1>5 DEF Next

\* Every step keeps EnrolledHasCredential: SaveIdentity marks an identity
\* enrolled together with the credential of the call.
LEMMA EnrolledStep ==
    ASSUME TypeOK, EnrolledHasCredential, [Next]_vars
    PROVE  EnrolledHasCredential'
<1>1. CASE UNCHANGED identity
  BY <1>1 DEF EnrolledHasCredential
<1>2. ASSUME NEW d \in Daemon, FirstEnrollment(d) PROVE EnrolledHasCredential'
  BY <1>2 DEF FirstEnrollment, EnrolledHasCredential, TypeOK
<1>3. ASSUME NEW d \in Daemon, CallSucceeds(d) PROVE EnrolledHasCredential'
  <2>1. call[d] \in Calls
    BY <1>3 DEF CallSucceeds, TypeOK
  <2>2. call[d].cred # None
    BY <2>1, CallShape, CredentialBounds DEF Credential, None
  <2> QED BY <1>3, <2>2 DEF CallSucceeds, EnrolledHasCredential, TypeOK
<1> QED
  BY <1>1, <1>2, <1>3 DEF Next, vars, daemonVars, Administration, IssueEnrollment, EnrollmentExpires,
     Update, Revoke, RevokeGoesOn, Revokes, Delete, Lapses, CoreHandlesStray, CoreAnswers, DaemonStep,
     Start, Configure, KeepIdentity, Reenrollment, EnterLoop, Stop, FinalWeek, Rotate, CallRefused, CallLost

\* The tables of Core, the volumes and the calls always have their shapes
\* (TypeOK).
THEOREM TypeCorrect == Spec => []TypeOK
<1>1. Init => TypeOK /\ EnrolledHasCredential
  BY TypeInit DEF Init, EnrolledHasCredential
<1>2. TypeOK /\ EnrolledHasCredential /\ [Next]_vars => TypeOK' /\ EnrolledHasCredential'
  BY TypeStep, EnrolledStep
<1> QED BY <1>1, <1>2, PTL DEF Spec

-----------------------------------------------------------------------------
(* The inductive invariant. *)

\* Daemon d has credential k on its volume or in its open call.
Holds(d, k) == identity[d].cred = k \/ (call[d] # NoCall /\ call[d].cred = k)

\* The volume of d holds an enrolled identity.
Enrolled(d) == identity[d].enrolled

\* An unused secret has no credential and a used one names a credential Core
\* has stored; every credential in sight was generated.
CredentialsExist ==
    /\ \A s \in Secret : enrollment[s].state \in {"none", "open"} => enrollment[s].cred = None
    /\ \A s \in Secret : enrollment[s].cred # None =>
          cred[enrollment[s].cred] # "none" /\ enrollment[s].cred <= made
    /\ \A d \in Daemon : identity[d].cred <= made /\ (call[d] # NoCall => call[d].cred <= made)
    /\ \A c \in strays : c.cred <= made

\* A pending connector has no credential and no used secret; an active or
\* disabled one has a used secret.
FirstUse ==
    /\ lifecycle = "pending" => /\ \A k \in Credential : cred[k] = "none"
                                /\ \A s \in Secret : enrollment[s].cred = None
    /\ lifecycle \in {"active", "disabled"} => \E s \in Secret : enrollment[s].cred # None

\* Only enrolled daemons leave the state down; exactly those that are not
\* enrolled make the first enrollment, with the candidate on their volume; a
\* rotation left behind in Core means that somebody is enrolled.
WhoCalls ==
    /\ \A d \in Daemon : phase[d] # "down" => Enrolled(d)
    /\ \A d \in Daemon : call[d] # NoCall =>
          /\ call[d].kind = "enroll" <=> ~Enrolled(d)
          /\ call[d].kind = "enroll" => call[d].cred = identity[d].cred
    /\ \A c \in strays : c.kind = "rotate" => \E d \in Daemon : Enrolled(d)

\* No two daemons have the same credential at hand: each generates its own.
HeldApart == \A d, e \in Daemon : \A k \in Credential : Holds(d, k) /\ Holds(e, k) => d = e

\* An enrollment answered with success used its secret for its own candidate:
\* the answer is not that of another call.
AnswerMeansUsed ==
    \A d \in Daemon : /\ call[d] # NoCall /\ call[d].kind # "rotate" /\ call[d].stage = "ok"
                      => enrollment[call[d].secret].cred = call[d].cred

\* The secret an enrolled daemon holds was used, and nobody else has the
\* credential it was used for. This is why no second daemon is answered for
\* that secret: EnrollRefused compares the candidates.
SecretHasOwner ==
    \A d \in Daemon : Enrolled(d) =>
        /\ identity[d].secret \in Secret
        /\ enrollment[identity[d].secret].cred # None
        /\ \A e \in Daemon : Holds(e, enrollment[identity[d].secret].cred) => e = d

\* The candidate of a re-enrollment Core has not handled yet is new: no secret
\* was used for it and no call left behind carries it.
FreshReenrollment ==
    \A d \in Daemon : call[d] # NoCall /\ call[d].kind = "reenroll" /\ call[d].stage = "sent" =>
        /\ \A s \in Secret : enrollment[s].cred # call[d].cred
        /\ \A c \in strays : c.cred # call[d].cred

\* At most one call is left behind in Core before the second failure.
FirstFault == /\ faults = 0 => strays = {}
              /\ faults <= 1 => \A b, c \in strays : b = c

\* A rotation's call runs once: no other call in Core brings its candidate.
RotationsApart ==
    /\ \A b, c \in strays : b.kind = "rotate" /\ c.kind = "rotate" /\ b.cred = c.cred => b = c
    /\ \A d \in Daemon, c \in strays :
          call[d] # NoCall /\ call[d].kind = "rotate" /\ c.kind = "rotate" => c.cred # call[d].cred

\* The rows an open rotation has changed are still as it found them for
\* everybody else, and no other rotation has changed them.
RowsHeld ==
    /\ lifecycle # "deleted" =>
          \A c \in Rotations : c.revokes \subseteq InState("retiring") /\ c.retires \subseteq InState("current")
    /\ \A b, c \in Rotations : b.cred # c.cred => HeldBy(b) \cap HeldBy(c) = {}

\* A waiting Revoke has locked the connector row and saw stored credentials.
RevokeWaits == /\ \A k \in revoking : cred[k] # "none"
               /\ revoking # {} => lifecycle # "deleted"

\* What the two partial unique indexes ensure of the committed rows; an
\* enrolled connector has a current credential.
OneCurrentOneRetiring ==
    /\ \A k, l \in Credential : cred[k] = cred[l] /\ cred[k] \in {"current", "retiring"} => k = l
    /\ lifecycle \in {"active", "disabled"} => InState("current") # {}

\* The connector is enrolled and no re-enrollment ever replaced it.
Undisturbed == lifecycle \in {"active", "disabled"} /\ superseded = {}

\* The call of d succeeded and its identity is not saved yet.
Answered(d) == call[d] # NoCall /\ call[d].stage = "ok"

\* The credential d holds once it has saved the answer it has, if any.
InHand(d) == IF Answered(d) THEN call[d].cred ELSE identity[d].cred

\* Before any re-enrollment a single secret was used, no re-enrollment
\* succeeded, and the credential it was used for is current as long as its
\* daemon has not saved the answer.
OneEnrollment ==
    Undisturbed =>
        /\ \A s, t \in Secret : enrollment[s].cred # None /\ enrollment[t].cred # None => s = t
        /\ \A d \in Daemon : Answered(d) => call[d].kind # "reenroll"
        /\ \A d \in Daemon, s \in Secret :
              ~Enrolled(d) /\ identity[d].cred # None /\ identity[d].cred = enrollment[s].cred
              => cred[identity[d].cred] = "current"

\* Before any re-enrollment, the credential an enrolled daemon has in hand is
\* current while nothing failed, and current or retiring after one failure; it
\* is current if that failure left a rotation behind in Core, which may still
\* retire it.
Handover ==
    Undisturbed =>
        \A d \in Daemon : Enrolled(d) =>
            /\ faults <= 1 => cred[InHand(d)] \in {"current", "retiring"}
            /\ faults <= 1 /\ (\E c \in strays : c.kind = "rotate") => cred[InHand(d)] = "current"
            /\ faults = 0 => /\ cred[InHand(d)] = "current"
                             /\ cred[identity[d].cred] \in {"current", "retiring"}

\* The inductive invariant. SecretEnrollsOneDaemon needs to know whose
\* credential a secret was used for, and HandoverCoversOneFailure how far the
\* one failure can have moved Core's credentials beyond the daemon's identity;
\* for both it matters that a rotation commits as if it had run alone, which the
\* last four clauses are for.
IndInv ==
    /\ TypeOK
    /\ EnrolledHasCredential
    /\ CredentialsExist
    /\ FirstUse
    /\ WhoCalls
    /\ HeldApart
    /\ AnswerMeansUsed
    /\ SecretHasOwner
    /\ SecretEnrollsOneDaemon
    /\ FreshReenrollment
    /\ FirstFault
    /\ OneEnrollment
    /\ Handover
    /\ RotationsApart
    /\ RowsHeld
    /\ RevokeWaits
    /\ OneCurrentOneRetiring

-----------------------------------------------------------------------------
(* The steps outside Core's call handling. *)

\* Issuing and expiring secrets, enabling, disabling, revoking and deleting
\* the connector and the lapse of a credential keep the invariant.
LEMMA AdministrationKeeps ==
    ASSUME IndInv, Administration
    PROVE  /\ CredentialsExist' /\ FirstUse' /\ WhoCalls' /\ HeldApart' /\ AnswerMeansUsed'
           /\ SecretHasOwner' /\ SecretEnrollsOneDaemon' /\ FreshReenrollment' /\ FirstFault'
           /\ OneEnrollment' /\ Handover'
<1>0. TypeOK
  BY DEF IndInv
<1>1. /\ UNCHANGED daemonVars /\ superseded' = superseded
      /\ \A s \in Secret : 
            /\ enrollment'[s].cred = enrollment[s].cred 
            /\ enrollment'[s].state \in {"none", "open"} => enrollment[s].state \in {"none", "open"}
      /\ \A k \in Credential : cred'[k] = "none" <=> cred[k] = "none"
      /\ lifecycle' = "pending" => lifecycle = "pending"
      /\ lifecycle' \in {"active", "disabled"} => lifecycle \in {"active", "disabled"} /\ cred' = cred
  <2>1. ASSUME NEW s \in Secret, IssueEnrollment(s) PROVE <1>1!:
    BY <1>0, <2>1 DEF IssueEnrollment, WithOpenRevoked, TypeOK
  <2>2. ASSUME NEW s \in Secret, EnrollmentExpires(s) PROVE <1>1!:
    BY <1>0, <2>2 DEF EnrollmentExpires, TypeOK
  <2>3. CASE Update
    BY <1>0, <2>3 DEF Update, TypeOK
  <2>4. CASE Revoke \/ RevokeGoesOn
    BY <1>0, <2>4 DEF Revoke, RevokeGoesOn, Revokes, Known, InState, RevokedCredentials, WithOpenRevoked,
       TypeOK, IndInv, RevokeWaits
  <2>5. CASE Delete
    BY <1>0, <2>5 DEF Delete, Known, InState, RevokedCredentials, TypeOK
  <2>6. ASSUME NEW c \in Credential, Lapses(c) PROVE <1>1!:
    BY <1>0, <2>6 DEF Lapses, TypeOK
  <2> QED BY <2>1, <2>2, <2>3, <2>4, <2>5, <2>6 DEF Administration
<1>2. /\ \A s \in Secret : enrollment[s].cred \in Credential \cup {None}
      /\ \A d \in Daemon : call[d] # NoCall => call[d] \in Calls
      /\ \A d \in Daemon : identity[d].cred \in Credential \cup {None}
  BY <1>0 DEF TypeOK
<1>3. CredentialsExist'
  BY <1>1, <1>2 DEF IndInv, CredentialsExist, daemonVars
<1>4. FirstUse'
  BY <1>1, <1>2 DEF IndInv, FirstUse
<1>5. WhoCalls' /\ HeldApart' /\ FirstFault' /\ SecretEnrollsOneDaemon'
  BY <1>1 DEF IndInv, WhoCalls, HeldApart, FirstFault, SecretEnrollsOneDaemon, Holds, Enrolled, daemonVars
<1>6. AnswerMeansUsed' 
  BY <1>1, <1>2, CallShape DEF IndInv, AnswerMeansUsed, daemonVars
<1>7. SecretHasOwner'
  BY <1>1, <1>2 DEF IndInv, SecretHasOwner, Holds, Enrolled, daemonVars
<1>8. FreshReenrollment'
  BY <1>1, <1>2 DEF IndInv, FreshReenrollment, daemonVars
<1>9. Undisturbed' => Undisturbed /\ cred' = cred
  BY <1>1 DEF Undisturbed
<1>10. OneEnrollment'
  BY <1>1, <1>9 DEF IndInv, OneEnrollment, Answered, Enrolled, daemonVars
<1>11. Handover'
  BY <1>1, <1>9 DEF IndInv, Handover, InHand, Answered, Enrolled, daemonVars
<1> QED BY <1>3, <1>4, <1>5, <1>6, <1>7, <1>8, <1>10, <1>11

\* The daemon's steps that neither call Core nor save an identity keep the
\* invariant.
LEMMA LocalStepsKeep ==
    ASSUME IndInv, NEW d \in Daemon,
           \/ \E s \in Secret : Configure(d, s)
           \/ KeepIdentity(d) \/ EnterLoop(d) \/ Stop(d) \/ FinalWeek(d)
    PROVE  /\ CredentialsExist' /\ FirstUse' /\ WhoCalls' /\ HeldApart' /\ AnswerMeansUsed'
           /\ SecretHasOwner' /\ SecretEnrollsOneDaemon' /\ FreshReenrollment' /\ FirstFault'
           /\ OneEnrollment' /\ Handover'
<1>1. /\ UNCHANGED <<coreVars, identity, call, strays, made, faults>>
      /\ \A e \in Daemon : phase'[e] # "down" => phase[e] # "down" \/ Enrolled(e)
  BY DEF Configure, KeepIdentity, EnterLoop, Stop, FinalWeek, Enrolled, IndInv, TypeOK
<1>2. WhoCalls'
  BY <1>1 DEF IndInv, WhoCalls, Enrolled
<1> QED
  BY <1>1, <1>2 DEF IndInv, coreVars, CredentialsExist, FirstUse, HeldApart, AnswerMeansUsed,
     SecretHasOwner, SecretEnrollsOneDaemon, FreshReenrollment, FirstFault, OneEnrollment, Handover,
     Holds, Enrolled, Answered, InHand, Undisturbed

\* Credential ids are positive, and every field that holds one holds an id or
\* None.
LEMMA NaturalIds ==
    ASSUME TypeOK
    PROVE  /\ made \in Nat /\ None \in Nat /\ faults \in Nat
           /\ \A k \in Credential : k \in Nat /\ k # None
           /\ \A s \in Secret : enrollment[s].cred \in Credential \cup {None}
           /\ \A d \in Daemon : identity[d].cred \in Credential \cup {None}
           /\ \A d \in Daemon : call[d] # NoCall => call[d] \in Calls /\ call[d].cred \in Credential
           /\ \A c \in strays : c \in Calls /\ c.cred \in Credential
<1>1. \A c \in Calls : c.cred \in Credential
  BY CallShape
<1> QED BY <1>1, CredentialBounds DEF TypeOK, Credential, None

\* A new call keeps the invariant: its candidate is either new or the one this
\* daemon saved.
LEMMA NewCallKeeps ==
    ASSUME IndInv, NEW d \in Daemon, FirstEnrollment(d) \/ Reenrollment(d) \/ Rotate(d)
    PROVE  /\ CredentialsExist' /\ FirstUse' /\ WhoCalls' /\ HeldApart' /\ AnswerMeansUsed'
           /\ SecretHasOwner' /\ SecretEnrollsOneDaemon' /\ FreshReenrollment' /\ FirstFault'
           /\ OneEnrollment' /\ Handover'
<1>0. /\ TypeOK
      /\ made \in Nat /\ None \in Nat
      /\ \A k \in Credential : k \in Nat /\ k # None
      /\ \A s \in Secret : enrollment[s].cred \in Credential \cup {None}
      /\ \A e \in Daemon : identity[e].cred \in Credential \cup {None}
      /\ \A e \in Daemon : call[e] # NoCall => call[e] \in Calls /\ call[e].cred \in Credential
      /\ \A c \in strays : c \in Calls /\ c.cred \in Credential
  BY NaturalIds DEF IndInv
<1>1. /\ UNCHANGED <<coreVars, phase, strays, faults>>
      /\ \A e \in Daemon :
            /\ Enrolled(e)' <=> Enrolled(e)
            /\ identity'[e].secret = identity[e].secret
            /\ e # d => identity'[e] = identity[e] /\ call'[e] = call[e]
      /\ call[d] = NoCall /\ call'[d] # NoCall /\ call'[d].stage = "sent"
      /\ call'[d].cred \in Credential /\ call'[d].cred <= made' /\ made <= made' /\ made' \in Nat
      /\ \/ /\ ~Enrolled(d) /\ call'[d].kind = "enroll" /\ identity'[d].cred = call'[d].cred
            /\ call'[d].cred = identity[d].cred \/ call'[d].cred > made
         \/ /\ Enrolled(d) /\ call'[d].kind \in {"reenroll", "rotate"} 
            /\ identity'[d] = identity[d] /\ call'[d].cred > made
  <2>1. CASE FirstEnrollment(d)
    <3>1. Candidate(d) \in Credential /\ (Candidate(d) = identity[d].cred \/ Candidate(d) > made)
      BY <1>0, <2>1, CredentialBounds DEF FirstEnrollment, Candidate, Credential
    <3>2. \A e \in Daemon :
            /\ identity'[e] = IF e = d THEN [identity[d] EXCEPT !.cred = Candidate(d)] ELSE identity[e]
            /\ call'[e] = IF e = d THEN NewCall("enroll", env[d], None, Candidate(d)) ELSE call[e]
      BY <1>0, <2>1 DEF FirstEnrollment, TypeOK
    <3>3. identity[d] \in [cred : Credential \cup {None}, enrolled : BOOLEAN, secret : Secret \cup {NoSecret}]
      BY <1>0 DEF TypeOK
    <3>4. call'[d] # NoCall /\ call'[d].stage = "sent" /\ call'[d].kind = "enroll" /\ call'[d].cred = Candidate(d)
      BY <3>2 DEF NewCall, NoCall
    <3>5. identity'[d].cred = Candidate(d) /\ (Enrolled(d)' <=> Enrolled(d))
          /\ identity'[d].secret = identity[d].secret
      BY <3>2, <3>3 DEF Enrolled
    <3>6. made' \in Nat /\ made <= made' /\ Candidate(d) <= made'
      BY <1>0, <2>1, <3>1 DEF FirstEnrollment
    <3> QED BY <2>1, <3>1, <3>2, <3>4, <3>5, <3>6 DEF FirstEnrollment, Enrolled
  <2>2. CASE Reenrollment(d)
    <3>1. made + 1 \in Credential
      BY <1>0, <2>2, CredentialBounds DEF Reenrollment, Credential
    <3>2. \A e \in Daemon :
            call'[e] = IF e = d THEN NewCall("reenroll", env[d], None, made + 1) ELSE call[e]
      BY <1>0, <2>2 DEF Reenrollment, TypeOK
    <3>3. call'[d] # NoCall /\ call'[d].stage = "sent" /\ call'[d].kind = "reenroll" /\ call'[d].cred = made + 1
      BY <3>2 DEF NewCall, NoCall
    <3> QED BY <1>0, <2>2, <3>1, <3>2, <3>3 DEF Reenrollment, Enrolled
  <2>3. CASE Rotate(d)
    <3>1. made + 1 \in Credential
      BY <1>0, <2>3, CredentialBounds DEF Rotate, Credential
    <3>2. \A e \in Daemon :
            call'[e] = IF e = d THEN NewCall("rotate", NoSecret, identity[d].cred, made + 1) ELSE call[e]
      BY <1>0, <2>3 DEF Rotate, TypeOK
    <3>3. call'[d] # NoCall /\ call'[d].stage = "sent" /\ call'[d].kind = "rotate" /\ call'[d].cred = made + 1
      BY <3>2 DEF NewCall, NoCall
    <3>4. Enrolled(d)
      BY <2>3 DEF Rotate, IndInv, WhoCalls
    <3> QED BY <1>0, <2>3, <3>1, <3>2, <3>3, <3>4 DEF Rotate, Enrolled
  <2> QED BY <2>1, <2>2, <2>3
<1>2. \A e \in Daemon, k \in Credential : 
         /\ Holds(e, k)' => Holds(e, k) \/ (e = d /\ k > made)
         /\ Holds(e, k) => k <= made
  BY <1>0, <1>1 DEF Holds, IndInv, CredentialsExist
<1>3. CredentialsExist'
  BY <1>0, <1>1 DEF IndInv, CredentialsExist, coreVars
<1>4. WhoCalls'
  BY <1>0, <1>1 DEF IndInv, WhoCalls, Enrolled
<1>5. FirstUse' /\ FirstFault' /\ SecretEnrollsOneDaemon'
  BY <1>1 DEF IndInv, FirstUse, FirstFault, SecretEnrollsOneDaemon, Enrolled, coreVars
<1>6. HeldApart'
  <2> SUFFICES ASSUME NEW e \in Daemon, NEW f \in Daemon, NEW k \in Credential, Holds(e, k)', Holds(f, k)'
               PROVE  e = f
    BY DEF HeldApart
  <2> QED BY <1>0, <1>2 DEF IndInv, HeldApart
<1>7. AnswerMeansUsed'
  BY <1>0, <1>1 DEF IndInv, AnswerMeansUsed, coreVars
<1>8. SecretHasOwner'
  <2> SUFFICES ASSUME NEW e \in Daemon, Enrolled(e)'
               PROVE  (/\ identity[e].secret \in Secret
                       /\ enrollment[identity[e].secret].cred # None
                       /\ \A f \in Daemon : Holds(f, enrollment[identity[e].secret].cred) => f = e)'
    BY DEF SecretHasOwner
  <2>1. /\ identity[e].secret \in Secret
        /\ enrollment[identity[e].secret].cred # None
        /\ \A f \in Daemon : Holds(f, enrollment[identity[e].secret].cred) => f = e
    BY <1>1 DEF IndInv, SecretHasOwner, Enrolled
  <2>2. enrollment[identity[e].secret].cred \in Credential /\ enrollment[identity[e].secret].cred <= made
    BY <1>0, <2>1 DEF IndInv, CredentialsExist
  <2>3. identity'[e].secret = identity[e].secret /\ enrollment' = enrollment
    BY <1>1 DEF coreVars
  <2>4. ASSUME NEW f \in Daemon, Holds(f, enrollment[identity[e].secret].cred)' PROVE f = e
    BY <1>0, <1>2, <2>1, <2>2, <2>3, <2>4
  <2> QED BY <2>1, <2>3, <2>4
<1>9. FreshReenrollment'
  BY <1>0, <1>1 DEF IndInv, FreshReenrollment, CredentialsExist, coreVars
<1>10. OneEnrollment'
  BY <1>0, <1>1 DEF IndInv, OneEnrollment, CredentialsExist, Answered, Enrolled, Undisturbed, coreVars
<1>11. Handover'
  BY <1>0, <1>1 DEF IndInv, Handover, InHand, Answered, Enrolled, Undisturbed, coreVars
<1> QED BY <1>3, <1>4, <1>5, <1>6, <1>7, <1>8, <1>9, <1>10, <1>11

\* Saving the identity of a successful call keeps the invariant.
LEMMA CallSucceedsKeeps ==
    ASSUME IndInv, NEW d \in Daemon, CallSucceeds(d)
    PROVE  /\ CredentialsExist' /\ FirstUse' /\ WhoCalls' /\ HeldApart' /\ AnswerMeansUsed'
           /\ SecretHasOwner' /\ SecretEnrollsOneDaemon' /\ FreshReenrollment' /\ FirstFault'
           /\ OneEnrollment' /\ Handover'
<1>0. /\ TypeOK
      /\ made \in Nat /\ None \in Nat /\ faults \in Nat
      /\ \A k \in Credential : k \in Nat /\ k # None
      /\ \A s \in Secret : enrollment[s].cred \in Credential \cup {None}
      /\ \A e \in Daemon : identity[e].cred \in Credential \cup {None}
      /\ \A e \in Daemon : call[e] # NoCall => call[e] \in Calls /\ call[e].cred \in Credential
      /\ \A c \in strays : c \in Calls /\ c.cred \in Credential
  BY NaturalIds DEF IndInv
<1>1. /\ UNCHANGED <<coreVars, strays, made, faults>>
      /\ \A e \in Daemon : e # d => identity'[e] = identity[e] /\ call'[e] = call[e] /\ phase'[e] = phase[e]
      /\ call[d] # NoCall /\ call[d] \in Calls /\ call[d].stage = "ok" /\ call'[d] = NoCall
      /\ Enrolled(d)' /\ identity'[d].cred = call[d].cred
      /\ call[d].kind = "rotate" => identity'[d].secret = identity[d].secret
      /\ call[d].kind # "rotate" => identity'[d].secret = call[d].secret /\ call[d].secret \in Secret
  <2>1. call[d] \in Calls
    BY <1>0 DEF CallSucceeds
  <2>2. call[d].kind # "rotate" => call[d].secret \in Secret
    BY <2>1, CallShape
  <2> QED BY <1>0, <2>1, <2>2 DEF CallSucceeds, TypeOK, Enrolled
<1>2. \A e \in Daemon, k \in Credential : Holds(e, k)' => Holds(e, k)
  BY <1>0, <1>1 DEF Holds
<1>3. CredentialsExist' /\ FirstUse' /\ FirstFault'
  BY <1>0, <1>1 DEF IndInv, CredentialsExist, FirstUse, FirstFault, coreVars
<1>4. WhoCalls'
  BY <1>0, <1>1 DEF IndInv, WhoCalls, Enrolled
<1>5. HeldApart'
  <2> SUFFICES ASSUME NEW e \in Daemon, NEW f \in Daemon, NEW k \in Credential, Holds(e, k)', Holds(f, k)'
               PROVE  e = f
    BY DEF HeldApart
  <2> QED BY <1>0, <1>2 DEF IndInv, HeldApart
<1>6. AnswerMeansUsed' /\ FreshReenrollment'
  BY <1>0, <1>1 DEF IndInv, AnswerMeansUsed, FreshReenrollment, coreVars
<1>7. call[d].kind # "rotate" => enrollment[call[d].secret].cred = call[d].cred
  BY <1>1 DEF IndInv, AnswerMeansUsed
<1>8. call[d].kind = "rotate" => Enrolled(d)
  BY <1>1 DEF IndInv, WhoCalls
<1>9. SecretHasOwner'
  <2> SUFFICES ASSUME NEW e \in Daemon, Enrolled(e)'
               PROVE  (/\ identity[e].secret \in Secret
                       /\ enrollment[identity[e].secret].cred # None
                       /\ \A f \in Daemon : Holds(f, enrollment[identity[e].secret].cred) => f = e)'
    BY DEF SecretHasOwner
  <2>0. enrollment' = enrollment
    BY <1>1 DEF coreVars
  <2>1. CASE Enrolled(e) /\ identity'[e].secret = identity[e].secret
    BY <1>0, <1>2, <2>0, <2>1 DEF IndInv, SecretHasOwner
  <2>2. CASE ~ (Enrolled(e) /\ identity'[e].secret = identity[e].secret)
    <3>1. e = d /\ call[d].kind # "rotate"
      BY <1>1, <1>8, <2>2 DEF Enrolled
    <3>2. /\ identity'[e].secret \in Secret
          /\ enrollment[identity'[e].secret].cred = call[d].cred
      BY <1>1, <1>7, <3>1
    <3>3. Holds(d, call[d].cred)
      BY <1>1 DEF Holds
    <3>4. \A f \in Daemon, k \in Credential : k = call[d].cred /\ Holds(f, k)' => f = e
      BY <1>0, <1>1, <1>2, <3>1, <3>3 DEF IndInv, HeldApart
    <3> QED BY <1>0, <1>1, <2>0, <3>2, <3>4
  <2> QED BY <2>1, <2>2
<1>10. SecretEnrollsOneDaemon'
  <2>1. ASSUME NEW e \in Daemon, e # d, Enrolled(e) PROVE identity'[d].secret # identity[e].secret
    <3>1. CASE call[d].kind = "rotate"
      BY <1>1, <1>8, <2>1, <3>1 DEF IndInv, SecretEnrollsOneDaemon, Enrolled
    <3>2. CASE call[d].kind # "rotate"
      <4>1. Holds(d, enrollment[call[d].secret].cred)
        BY <1>1, <1>7, <3>2 DEF Holds
      <4>2. ~Holds(d, enrollment[identity[e].secret].cred)
        BY <2>1 DEF IndInv, SecretHasOwner
      <4> QED BY <1>1, <3>2, <4>1, <4>2
    <3> QED BY <3>1, <3>2
  <2> QED BY <1>1, <2>1 DEF IndInv, SecretEnrollsOneDaemon, Enrolled
<1>11. OneEnrollment'
  BY <1>0, <1>1 DEF IndInv, OneEnrollment, Answered, Enrolled, Undisturbed, coreVars
<1>12. Handover'
  <2> SUFFICES ASSUME Undisturbed, NEW e \in Daemon, Enrolled(e)'
               PROVE  (/\ faults <= 1 => cred[InHand(e)] \in {"current", "retiring"}
                       /\ faults <= 1 /\ (\E c \in strays : c.kind = "rotate") => cred[InHand(e)] = "current"
                       /\ faults = 0 => /\ cred[InHand(e)] = "current"
                                        /\ cred[identity[e].cred] \in {"current", "retiring"})'
    BY <1>1 DEF Handover, Undisturbed, coreVars
  <2>0. InHand(e)' = InHand(e)
    BY <1>1 DEF InHand, Answered
  <2>1. CASE e # d
    BY <1>1, <2>0, <2>1 DEF IndInv, Handover, Enrolled, coreVars
  <2>2. CASE e = d /\ Enrolled(d)
    <3>1. identity'[e].cred = InHand(e)
      BY <1>1, <2>2 DEF InHand, Answered
    <3> QED BY <1>1, <2>0, <2>2, <3>1 DEF IndInv, Handover, coreVars
  <2>3. CASE e = d /\ ~Enrolled(d)
    <3>1. call[d].kind # "rotate" /\ call[d].cred = identity[d].cred
      BY <1>1, <2>3 DEF IndInv, WhoCalls
    <3>2. cred[call[d].cred] = "current"
      BY <1>0, <1>1, <1>7, <2>3, <3>1 DEF IndInv, OneEnrollment
    <3>3. InHand(e)' = call[d].cred /\ identity'[e].cred = call[d].cred
      BY <1>1, <2>3 DEF InHand, Answered
    <3> QED BY <1>1, <3>2, <3>3 DEF coreVars
  <2> QED BY <2>1, <2>2, <2>3
<1> QED BY <1>3, <1>4, <1>5, <1>6, <1>9, <1>10, <1>11, <1>12

\* A refused or lost call keeps the invariant; it may leave the call behind in
\* Core.
LEMMA FailedCallKeeps ==
    ASSUME IndInv, NEW d \in Daemon, CallRefused(d) \/ CallLost(d)
    PROVE  /\ CredentialsExist' /\ FirstUse' /\ WhoCalls' /\ HeldApart' /\ AnswerMeansUsed'
           /\ SecretHasOwner' /\ SecretEnrollsOneDaemon' /\ FreshReenrollment' /\ FirstFault'
           /\ OneEnrollment' /\ Handover'
<1>0. /\ TypeOK
      /\ made \in Nat /\ None \in Nat /\ faults \in Nat
      /\ \A k \in Credential : k \in Nat /\ k # None
      /\ \A s \in Secret : enrollment[s].cred \in Credential \cup {None}
      /\ \A e \in Daemon : identity[e].cred \in Credential \cup {None}
      /\ \A e \in Daemon : call[e] # NoCall => call[e] \in Calls /\ call[e].cred \in Credential
      /\ \A c \in strays : c \in Calls /\ c.cred \in Credential
  BY NaturalIds DEF IndInv
<1>1. /\ UNCHANGED <<coreVars, identity, made>>
      /\ \A e \in Daemon : e # d => call'[e] = call[e] /\ phase'[e] = phase[e]
      /\ call[d] # NoCall /\ call[d] \in Calls /\ call'[d] = NoCall
      /\ phase'[d] # "down" => Enrolled(d)
      /\ \/ strays' = strays /\ faults' = faults /\ call[d].stage = "error"
         \/ strays' = strays /\ faults' = faults + 1
         \/ strays' = strays \cup {call[d]} /\ faults' = faults + 1 /\ call[d].stage # "ok"
  <2>1. call[d] # NoCall /\ call[d] \in Calls
    BY <1>0 DEF CallRefused, CallLost
  <2>2. PhaseAfterFailure(d) # "down" => Enrolled(d)
    BY <2>1, CallShape DEF PhaseAfterFailure, IndInv, WhoCalls
  <2>3. CASE CallRefused(d)
    BY <1>0, <2>1, <2>2, <2>3 DEF CallRefused, TypeOK
  <2>4. CASE CallLost(d)
    BY <1>0, <2>1, <2>2, <2>4 DEF CallLost, TypeOK
  <2> QED BY <2>3, <2>4
<1>2. \A e \in Daemon, k \in Credential : Holds(e, k)' => Holds(e, k)
  BY <1>0, <1>1 DEF Holds
<1>3. CredentialsExist'
  BY <1>0, <1>1 DEF IndInv, CredentialsExist, coreVars
<1>4. FirstUse' /\ SecretEnrollsOneDaemon'
  BY <1>1 DEF IndInv, FirstUse, SecretEnrollsOneDaemon, coreVars
<1>5. FirstFault'
  BY <1>0, <1>1 DEF IndInv, FirstFault
<1>6. WhoCalls'
  BY <1>0, <1>1, CallShape DEF IndInv, WhoCalls, Enrolled
<1>7. HeldApart'
  <2> SUFFICES ASSUME NEW e \in Daemon, NEW f \in Daemon, NEW k \in Credential, Holds(e, k)', Holds(f, k)'
               PROVE  e = f
    BY DEF HeldApart
  <2> QED BY <1>0, <1>2 DEF IndInv, HeldApart
<1>8. AnswerMeansUsed'
  BY <1>0, <1>1 DEF IndInv, AnswerMeansUsed, coreVars
<1>9. SecretHasOwner'
  <2>1. enrollment' = enrollment /\ identity' = identity
    BY <1>1 DEF coreVars
  <2> QED BY <1>0, <1>2, <2>1 DEF IndInv, SecretHasOwner, Enrolled, Holds
<1>10. FreshReenrollment'
  <2>1. \A e \in Daemon : e # d /\ call[e] # NoCall => call[e].cred # call[d].cred
    BY <1>0, <1>1 DEF IndInv, HeldApart, Holds
  <2> QED BY <1>0, <1>1, <2>1 DEF IndInv, FreshReenrollment, coreVars
<1>11. OneEnrollment'
  BY <1>0, <1>1 DEF IndInv, OneEnrollment, Answered, Enrolled, Undisturbed, coreVars
<1>12. Handover'
  <2> SUFFICES ASSUME Undisturbed, NEW e \in Daemon, Enrolled(e)
               PROVE  (/\ faults <= 1 => cred[InHand(e)] \in {"current", "retiring"}
                       /\ faults <= 1 /\ (\E c \in strays : c.kind = "rotate") => cred[InHand(e)] = "current"
                       /\ faults = 0 => /\ cred[InHand(e)] = "current"
                                        /\ cred[identity[e].cred] \in {"current", "retiring"})'
    BY <1>1 DEF Handover, Undisturbed, Enrolled, coreVars
  <2>0. /\ faults <= 1 => cred[InHand(e)] \in {"current", "retiring"}
        /\ faults <= 1 /\ (\E c \in strays : c.kind = "rotate") => cred[InHand(e)] = "current"
        /\ faults = 0 => /\ cred[InHand(e)] = "current"
                         /\ cred[identity[e].cred] \in {"current", "retiring"}
    BY DEF IndInv, Handover
  <2>1. cred' = cred /\ identity' = identity
    BY <1>1 DEF coreVars
  <2>2. CASE ~ (e = d /\ call[d].stage = "ok")
    <3>1. InHand(e)' = InHand(e)
      BY <1>1, <2>2 DEF InHand, Answered
    <3> QED BY <1>0, <1>1, <2>0, <2>1, <3>1
  <2>3. CASE e = d /\ call[d].stage = "ok"
    <3>1. InHand(e)' = identity[e].cred
      BY <1>1, <2>3 DEF InHand, Answered
    <3>2. faults' = faults + 1 /\ strays' = strays
      BY <1>1, <2>3
    <3>3. faults = 0 => strays' = {}
      BY <3>2 DEF IndInv, FirstFault
    <3> QED BY <1>0, <2>0, <2>1, <3>1, <3>2, <3>3
  <2> QED BY <2>2, <2>3
<1> QED BY <1>3, <1>4, <1>5, <1>6, <1>7, <1>8, <1>9, <1>10, <1>11, <1>12

-----------------------------------------------------------------------------
(* Core's call handling. *)

\* While the connector is pending nobody is enrolled and every open call is a
\* first enrollment.
LEMMA NoOneEnrolledWhilePending ==
    ASSUME IndInv, lifecycle = "pending"
    PROVE  \A d \in Daemon : ~Enrolled(d) /\ (call[d] # NoCall => call[d].kind = "enroll")
BY DEF IndInv, FirstUse, SecretHasOwner, WhoCalls

\* Before any re-enrollment at most one daemon is enrolled, and only it has
\* the credential of a used secret at hand.
LEMMA OneEnrolledDaemon ==
    ASSUME IndInv, Undisturbed, NEW d \in Daemon, NEW e \in Daemon, Enrolled(d)
    PROVE  /\ Enrolled(e) => e = d
           /\ \A s \in Secret : enrollment[s].cred # None /\ Holds(e, enrollment[s].cred) => e = d
<1>1. identity[d].secret \in Secret /\ enrollment[identity[d].secret].cred # None
  BY DEF IndInv, SecretHasOwner
<1>2. ASSUME Enrolled(e) PROVE e = d
  <2>1. identity[e].secret \in Secret /\ enrollment[identity[e].secret].cred # None
    BY <1>2 DEF IndInv, SecretHasOwner
  <2>2. identity[e].secret = identity[d].secret
    BY <1>1, <2>1 DEF IndInv, OneEnrollment
  <2> QED BY <1>2, <2>2 DEF IndInv, SecretEnrollsOneDaemon, Enrolled
<1>3. ASSUME NEW s \in Secret, enrollment[s].cred # None, Holds(e, enrollment[s].cred) PROVE e = d
  <2>1. s = identity[d].secret
    BY <1>1, <1>3 DEF IndInv, OneEnrollment
  <2> QED BY <1>3, <2>1 DEF IndInv, SecretHasOwner
<1> QED BY <1>2, <1>3

\* An enrollment after which nothing is superseded was the first one.
LEMMA EnrollsAnewSupersedes ==
    ASSUME IndInv, NEW c \in Calls, EnrollsAnew(c), Undisturbed'
    PROVE  lifecycle = "pending"
<1> SUFFICES ASSUME lifecycle # "pending" PROVE FALSE
  OBVIOUS
<1>1. lifecycle \in {"active", "disabled"} /\ superseded' = {k \in Credential : cred[k] # "none"}
  BY DEF EnrollsAnew
<1>2. PICK s \in Secret : enrollment[s].cred # None
  BY <1>1 DEF IndInv, FirstUse
<1>3. enrollment[s].cred \in Credential /\ cred[enrollment[s].cred] # "none"
  BY <1>2, NaturalIds DEF IndInv, CredentialsExist
<1> QED BY <1>1, <1>3 DEF Undisturbed

\* While the connector is enrolled, a rotation commits as if it had run alone:
\* had it seen other rows than those current and retiring now, an index would
\* refuse it.
LEMMA SerialRotation ==
    ASSUME IndInv, NEW c \in Rotations, c \in Calls, RotatesTo(c), lifecycle \in {"active", "disabled"}
    PROVE  \A k \in Credential :
              cred'[k] = IF k = c.cred THEN "current"
                         ELSE IF cred[k] = "retiring" THEN "revoked"
                         ELSE IF cred[k] = "current" THEN "retiring" ELSE cred[k]
<1>1. InState("current") \ c.retires = {} /\ (c.retires # {} => InState("retiring") \ c.revokes = {})
  BY DEF RotatesTo, Conflicts
<1>2. InState("current") # {}
  BY DEF IndInv, OneCurrentOneRetiring
<1>3. c.revokes \subseteq InState("retiring") /\ c.retires \subseteq InState("current")
  BY DEF IndInv, RowsHeld
<1>4. c.retires = InState("current") /\ c.revokes = InState("retiring")
  BY <1>1, <1>2, <1>3
<1> QED BY <1>4 DEF RotatesTo, InState

\* What Core does with a call keeps the clauses about its own tables, and only
\* a new enrollment gives a secret a credential.
LEMMA CoreTablesKept ==
    ASSUME IndInv, NEW c \in Calls, c.cred <= made,
           c.kind = "rotate" => \E d \in Daemon : Enrolled(d),
           \/ UNCHANGED <<lifecycle, cred, enrollment, superseded>>
           \/ EnrollsAnew(c)
           \/ RotatesTo(c)
    PROVE  /\ \A s \in Secret : enrollment'[s].state \in {"none", "open"} => enrollment'[s].cred = None
           /\ \A s \in Secret : enrollment'[s].cred # None =>
                 cred'[enrollment'[s].cred] # "none" /\ enrollment'[s].cred <= made
           /\ FirstUse'
           /\ \A s \in Secret : enrollment[s].cred # None => enrollment'[s].cred = enrollment[s].cred
           /\ \A s \in Secret : enrollment'[s].cred # enrollment[s].cred => 
                 EnrollsAnew(c) /\ s = c.secret /\ enrollment'[s].cred = c.cred
<1>0. /\ made \in Nat /\ None \in Nat
      /\ \A k \in Credential : k \in Nat /\ k # None
      /\ \A s \in Secret : enrollment[s].cred \in Credential \cup {None}
      /\ c.cred \in Credential
      /\ c.kind # "rotate" => c.secret \in Secret
  BY NaturalIds, CallShape DEF IndInv
<1>1. CASE UNCHANGED <<lifecycle, cred, enrollment, superseded>>
  BY <1>1 DEF IndInv, CredentialsExist, FirstUse
<1>2. CASE EnrollsAnew(c)
  <2>1. enrollment[c.secret].cred = None /\ c.secret \in Secret
    BY <1>0, <1>2 DEF EnrollsAnew, IndInv, CredentialsExist
  <2> QED BY <1>0, <1>2, <2>1 DEF EnrollsAnew, IndInv, CredentialsExist, FirstUse
<1>3. CASE RotatesTo(c)
  <2>1. lifecycle # "pending"
    BY <1>3, NoOneEnrolledWhilePending DEF RotatesTo
  <2> QED BY <1>0, <1>3, <2>1 DEF RotatesTo, IndInv, CredentialsExist, FirstUse
<1> QED BY <1>1, <1>2, <1>3

\* Core's handling of a daemon's open call keeps the invariant.
LEMMA CoreAnswersKeeps ==
    ASSUME IndInv, NEW d \in Daemon, CoreAnswers(d)
    PROVE  /\ CredentialsExist' /\ FirstUse' /\ WhoCalls' /\ HeldApart' /\ AnswerMeansUsed'
           /\ SecretHasOwner' /\ SecretEnrollsOneDaemon' /\ FreshReenrollment' /\ FirstFault'
           /\ OneEnrollment' /\ Handover'
<1>0. /\ TypeOK
      /\ made \in Nat /\ None \in Nat /\ faults \in Nat
      /\ \A k \in Credential : k \in Nat /\ k # None
      /\ \A s \in Secret : enrollment[s].cred \in Credential \cup {None}
      /\ \A e \in Daemon : identity[e].cred \in Credential \cup {None}
      /\ \A e \in Daemon : call[e] # NoCall => call[e] \in Calls /\ call[e].cred \in Credential
      /\ \A c \in strays : c \in Calls /\ c.cred \in Credential
  BY NaturalIds DEF IndInv
<1>1. PICK after : CoreHandles(call[d], after) /\ call' = [call EXCEPT ![d] = after]
  BY DEF CoreAnswers
<1>2. PICK c \in Calls : c = call[d]
  BY <1>0 DEF CoreAnswers
<1>3. CoreHandles(c, after)
  BY <1>1, <1>2
<1>4. /\ after \in Calls
      /\ after.kind = c.kind /\ after.secret = c.secret /\ after.cred = c.cred
      /\ c.stage \in {"sent", "authenticated", "revoked", "retired"}
      /\ \/ /\ UNCHANGED <<lifecycle, cred, enrollment, superseded>>
            /\ after.stage = "ok" => /\ c.kind # "rotate" /\ c.stage = "sent"
                                     /\ enrollment[c.secret].cred = c.cred
            /\ after.stage # "sent"
         \/ EnrollsAnew(c) /\ after.stage = "ok"
         \/ RotatesTo(c) /\ after.stage = "ok"
  BY <1>0, <1>3, CoreEffect DEF TypeOK, CallMoves, coreVars
<1>5. /\ UNCHANGED <<identity, phase, strays, made, faults>>
      /\ \A e \in Daemon : e # d => call'[e] = call[e]
      /\ call'[d] = after /\ after # NoCall /\ call[d] = c /\ c # NoCall
  BY <1>0, <1>1, <1>2, <1>4, CallShape DEF CoreAnswers, TypeOK
<1>6. /\ c.cred \in Credential /\ c.cred <= made
      /\ c.kind = "rotate" => Enrolled(d)
      /\ c.kind # "rotate" => c.secret \in Secret
      /\ c.kind \in {"enroll", "reenroll", "rotate"}
  BY <1>0, <1>5, CallShape DEF IndInv, CredentialsExist, WhoCalls
<1>7. \/ UNCHANGED <<lifecycle, cred, enrollment, superseded>>
      \/ EnrollsAnew(c)
      \/ RotatesTo(c)
  BY <1>4
<1>8. /\ \A s \in Secret : enrollment'[s].state \in {"none", "open"} => enrollment'[s].cred = None
      /\ \A s \in Secret : enrollment'[s].cred # None =>
            cred'[enrollment'[s].cred] # "none" /\ enrollment'[s].cred <= made
      /\ FirstUse'
      /\ \A s \in Secret : enrollment[s].cred # None => enrollment'[s].cred = enrollment[s].cred
      /\ \A s \in Secret : enrollment'[s].cred # enrollment[s].cred =>
            EnrollsAnew(c) /\ s = c.secret /\ enrollment'[s].cred = c.cred
  BY <1>6, <1>7, CoreTablesKept
<1>9. \A e \in Daemon, k \in Credential : Holds(e, k)' <=> Holds(e, k)
  BY <1>4, <1>5 DEF Holds
<1>10. CredentialsExist' /\ FirstUse'
  BY <1>0, <1>4, <1>5, <1>6, <1>8 DEF IndInv, CredentialsExist
<1>11. WhoCalls' /\ FirstFault' /\ SecretEnrollsOneDaemon'
  BY <1>4, <1>5 DEF IndInv, WhoCalls, Enrolled, FirstFault, SecretEnrollsOneDaemon
<1>12. HeldApart'
  <2> SUFFICES ASSUME NEW e \in Daemon, NEW f \in Daemon, NEW k \in Credential, Holds(e, k)', Holds(f, k)'
               PROVE  e = f
    BY DEF HeldApart
  <2> QED BY <1>9 DEF IndInv, HeldApart
<1>13. AnswerMeansUsed'
  <2> SUFFICES ASSUME NEW e \in Daemon,
                      call'[e] # NoCall, call'[e].kind # "rotate", call'[e].stage = "ok"
               PROVE  enrollment'[call'[e].secret].cred = call'[e].cred
    BY DEF AnswerMeansUsed
  <2>1. CASE e # d
    <3>1. call[e].secret \in Secret /\ enrollment[call[e].secret].cred = call[e].cred /\ call[e].cred # None
      BY <1>0, <1>5, <2>1, CallShape DEF IndInv, AnswerMeansUsed
    <3> QED BY <1>5, <1>8, <2>1, <3>1
  <2>2. CASE e = d
    BY <1>4, <1>5, <1>6, <2>2 DEF EnrollsAnew, RotatesTo
  <2> QED BY <2>1, <2>2
<1>14. SecretHasOwner'
  <2> SUFFICES ASSUME NEW e \in Daemon, Enrolled(e)'
               PROVE  (/\ identity[e].secret \in Secret
                       /\ enrollment[identity[e].secret].cred # None
                       /\ \A f \in Daemon : Holds(f, enrollment[identity[e].secret].cred) => f = e)'
    BY DEF SecretHasOwner
  <2>1. /\ identity[e].secret \in Secret
        /\ enrollment[identity[e].secret].cred # None
        /\ \A f \in Daemon : Holds(f, enrollment[identity[e].secret].cred) => f = e
    BY <1>5 DEF IndInv, SecretHasOwner, Enrolled
  <2> QED BY <1>0, <1>5, <1>8, <1>9, <2>1
<1>15. FreshReenrollment'
  <2> SUFFICES ASSUME NEW e \in Daemon,
                      call'[e] # NoCall, call'[e].kind = "reenroll", call'[e].stage = "sent"
               PROVE  /\ \A s \in Secret : enrollment'[s].cred # call'[e].cred
                      /\ \A x \in strays' : x.cred # call'[e].cred
    BY DEF FreshReenrollment
  <2>1. e # d /\ call'[e] = call[e]
    BY <1>4, <1>5
  <2>2. c.cred # call[e].cred
    BY <1>0, <1>5, <1>6, <2>1 DEF IndInv, HeldApart, Holds
  <2> QED BY <1>5, <1>8, <2>1, <2>2 DEF IndInv, FreshReenrollment
<1>16. OneEnrollment'
  <2> SUFFICES ASSUME Undisturbed'
               PROVE  (/\ \A s, t \in Secret : enrollment[s].cred # None /\ enrollment[t].cred # None => s = t
                       /\ \A e \in Daemon : Answered(e) => call[e].kind # "reenroll"
                       /\ \A e \in Daemon, s \in Secret :
                             ~Enrolled(e) /\ identity[e].cred # None /\ identity[e].cred = enrollment[s].cred
                             => cred[identity[e].cred] = "current")'
    BY DEF OneEnrollment
  <2>1. CASE /\ UNCHANGED <<lifecycle, cred, enrollment, superseded>>
             /\ after.stage = "ok" => /\ c.kind # "rotate" /\ c.stage = "sent"
                                      /\ enrollment[c.secret].cred = c.cred
    <3>1. Undisturbed
      BY <2>1 DEF Undisturbed
    <3>2. c.kind = "reenroll" => after.stage # "ok"
      BY <1>5, <1>6, <2>1 DEF IndInv, FreshReenrollment
    <3> QED BY <1>4, <1>5, <2>1, <3>1, <3>2 DEF IndInv, OneEnrollment, Answered, Enrolled
  <2>2. CASE EnrollsAnew(c) /\ after.stage = "ok"
    <3>1. lifecycle = "pending"
      BY <2>2, EnrollsAnewSupersedes
    <3>2. \A s \in Secret : enrollment[s].cred = None
      BY <3>1 DEF IndInv, FirstUse
    <3>3. \A e \in Daemon : call[e] # NoCall => call[e].kind = "enroll"
      BY <3>1, NoOneEnrolledWhilePending
    <3> QED BY <1>0, <1>4, <1>5, <1>6, <2>2, <3>2, <3>3 DEF Answered, EnrollsAnew
  <2>3. CASE RotatesTo(c) /\ after.stage = "ok"
    <3>1. Undisturbed /\ enrollment' = enrollment
      BY <2>3 DEF Undisturbed, RotatesTo
    <3>2. Enrolled(d) /\ c.kind = "rotate"
      BY <1>6, <2>3 DEF RotatesTo
    <3>3. ASSUME NEW e \in Daemon, NEW s \in Secret, ~Enrolled(e), identity[e].cred # None
          PROVE  identity[e].cred # enrollment[s].cred
      BY <3>1, <3>2, <3>3, OneEnrolledDaemon DEF Holds
    <3> QED BY <1>4, <1>5, <3>1, <3>2, <3>3 DEF IndInv, OneEnrollment, Answered, Enrolled
  <2> QED BY <1>4, <2>1, <2>2, <2>3
<1>17. Handover'
  <2> SUFFICES ASSUME Undisturbed', NEW e \in Daemon, Enrolled(e)
               PROVE  (/\ faults <= 1 => cred[InHand(e)] \in {"current", "retiring"}
                       /\ faults <= 1 /\ (\E x \in strays : x.kind = "rotate") => cred[InHand(e)] = "current"
                       /\ faults = 0 => /\ cred[InHand(e)] = "current"
                                        /\ cred[identity[e].cred] \in {"current", "retiring"})'
    BY <1>5 DEF Handover, Enrolled
  <2>1. CASE /\ UNCHANGED <<lifecycle, cred, enrollment, superseded>>
             /\ after.stage = "ok" => /\ c.kind # "rotate" /\ c.stage = "sent"
                                      /\ enrollment[c.secret].cred = c.cred
    <3>1. Undisturbed
      BY <2>1 DEF Undisturbed
    <3>2. Answered(e)' => call'[e].kind = "rotate"
      <4>1. call'[e] # NoCall => call'[e] \in Calls /\ call'[e].kind # "enroll"
        BY <1>0, <1>4, <1>5 DEF IndInv, WhoCalls
      <4>2. Answered(e)' => call'[e].kind # "reenroll"
        BY <1>16 DEF OneEnrollment
      <4> QED BY <4>1, <4>2, CallShape DEF Answered
    <3>3. InHand(e)' = InHand(e)
      BY <1>4, <1>5, <2>1, <3>2 DEF InHand, Answered
    <3> QED BY <1>5, <2>1, <3>1, <3>3 DEF IndInv, Handover
  <2>2. CASE EnrollsAnew(c) /\ after.stage = "ok"
    BY <2>2, EnrollsAnewSupersedes, NoOneEnrolledWhilePending
  <2>3. CASE RotatesTo(c) /\ after.stage = "ok"
    <3>1. Undisturbed
      BY <2>3 DEF Undisturbed, RotatesTo
    <3>2. e = d
      BY <1>6, <2>3, <3>1, OneEnrolledDaemon DEF RotatesTo
    <3>3. InHand(e)' = c.cred /\ InHand(e) = identity[e].cred
      BY <1>4, <1>5, <2>3, <3>2 DEF InHand, Answered
    <3>4. cred'[c.cred] = "current"
      BY <1>6, <2>3 DEF RotatesTo
    <3>5. identity[e].cred \in Credential
      BY <1>0 DEF IndInv, EnrolledHasCredential, Enrolled
    <3>6. c \in Rotations
      BY <1>5, <2>3 DEF Rotations, RotatesTo
    <3>7. faults = 0 => cred'[identity[e].cred] \in {"current", "retiring"}
      BY <2>3, <3>1, <3>3, <3>5, <3>6, SerialRotation DEF IndInv, Handover, Undisturbed
    <3> QED BY <1>5, <3>3, <3>4, <3>7
  <2> QED BY <1>4, <2>1, <2>2, <2>3
<1> QED BY <1>10, <1>11, <1>12, <1>13, <1>14, <1>15, <1>16, <1>17

\* Core's handling of a call its daemon gave up keeps the invariant.
LEMMA CoreHandlesStrayKeeps ==
    ASSUME IndInv, CoreHandlesStray
    PROVE  /\ CredentialsExist' /\ FirstUse' /\ WhoCalls' /\ HeldApart' /\ AnswerMeansUsed'
           /\ SecretHasOwner' /\ SecretEnrollsOneDaemon' /\ FreshReenrollment' /\ FirstFault'
           /\ OneEnrollment' /\ Handover'
<1>0. /\ TypeOK
      /\ made \in Nat /\ None \in Nat /\ faults \in Nat
      /\ \A k \in Credential : k \in Nat /\ k # None
      /\ \A s \in Secret : enrollment[s].cred \in Credential \cup {None}
      /\ \A e \in Daemon : identity[e].cred \in Credential \cup {None}
      /\ \A e \in Daemon : call[e] # NoCall => call[e] \in Calls /\ call[e].cred \in Credential
      /\ \A x \in strays : x \in Calls /\ x.cred \in Credential
  BY NaturalIds DEF IndInv
<1>1. PICK c \in strays : \E after \in Handled(c) :
            /\ CoreHandles(c, after)
            /\ strays' = (strays \ {c}) \cup (IF after.stage \in {"ok", "error"} THEN {} ELSE {after})
  BY DEF CoreHandlesStray
<1>2. PICK after : /\ CoreHandles(c, after)
                   /\ strays' = (strays \ {c}) \cup (IF after.stage \in {"ok", "error"} THEN {} ELSE {after})
  BY <1>1
<1>3. c \in Calls
  BY <1>0
<1>4. /\ after \in Calls
      /\ after.kind = c.kind /\ after.secret = c.secret /\ after.cred = c.cred
      /\ \/ UNCHANGED <<lifecycle, cred, enrollment, superseded>>
         \/ EnrollsAnew(c)
         \/ RotatesTo(c) /\ after.stage = "ok"
  BY <1>0, <1>2, <1>3, CoreEffect DEF TypeOK, CallMoves, coreVars
<1>5. UNCHANGED <<identity, phase, call, made, faults>>
  BY DEF CoreHandlesStray
<1>6. /\ c.cred \in Credential /\ c.cred <= made
      /\ c.kind = "rotate" => \E d \in Daemon : Enrolled(d)
      /\ c.kind # "rotate" => c.secret \in Secret
  BY <1>3, CallShape DEF IndInv, CredentialsExist, WhoCalls
<1>7. \A x \in strays' : \E y \in strays : x.cred = y.cred /\ x.kind = y.kind
  BY <1>2, <1>4
<1>8. /\ \A s \in Secret : enrollment'[s].state \in {"none", "open"} => enrollment'[s].cred = None
      /\ \A s \in Secret : enrollment'[s].cred # None =>
            cred'[enrollment'[s].cred] # "none" /\ enrollment'[s].cred <= made
      /\ FirstUse'
      /\ \A s \in Secret : enrollment[s].cred # None => enrollment'[s].cred = enrollment[s].cred
      /\ \A s \in Secret : enrollment'[s].cred # enrollment[s].cred =>
            EnrollsAnew(c) /\ s = c.secret /\ enrollment'[s].cred = c.cred
  BY <1>3, <1>4, <1>6, CoreTablesKept
<1>9. CredentialsExist' /\ FirstUse'
  BY <1>0, <1>5, <1>7, <1>8 DEF IndInv, CredentialsExist
<1>10. WhoCalls'
  BY <1>5, <1>7 DEF IndInv, WhoCalls, Enrolled
<1>11. HeldApart' /\ SecretEnrollsOneDaemon'
  BY <1>5 DEF IndInv, HeldApart, Holds, SecretEnrollsOneDaemon, Enrolled
<1>12. FirstFault'
  BY <1>2, <1>5 DEF IndInv, FirstFault
<1>13. AnswerMeansUsed'
  <2> SUFFICES ASSUME NEW e \in Daemon, call[e] # NoCall, call[e].kind # "rotate", call[e].stage = "ok"
               PROVE  enrollment'[call[e].secret].cred = call[e].cred
    BY <1>5 DEF AnswerMeansUsed
  <2>1. call[e].secret \in Secret /\ enrollment[call[e].secret].cred = call[e].cred /\ call[e].cred # None
    BY <1>0, CallShape DEF IndInv, AnswerMeansUsed
  <2> QED BY <1>8, <2>1
<1>14. SecretHasOwner'
  <2>1. \A e \in Daemon, k \in Credential : Holds(e, k)' <=> Holds(e, k)
    BY <1>5 DEF Holds
  <2> SUFFICES ASSUME NEW e \in Daemon, Enrolled(e)'
               PROVE  (/\ identity[e].secret \in Secret
                       /\ enrollment[identity[e].secret].cred # None
                       /\ \A f \in Daemon : Holds(f, enrollment[identity[e].secret].cred) => f = e)'
    BY DEF SecretHasOwner
  <2>2. /\ identity[e].secret \in Secret
        /\ enrollment[identity[e].secret].cred # None
        /\ \A f \in Daemon : Holds(f, enrollment[identity[e].secret].cred) => f = e
    BY <1>5 DEF IndInv, SecretHasOwner, Enrolled
  <2> QED BY <1>0, <1>5, <1>8, <2>1, <2>2
<1>15. FreshReenrollment'
  BY <1>5, <1>7, <1>8 DEF IndInv, FreshReenrollment
<1>16. OneEnrollment'
  <2> SUFFICES ASSUME Undisturbed'
               PROVE  (/\ \A s, t \in Secret : enrollment[s].cred # None /\ enrollment[t].cred # None => s = t
                       /\ \A e \in Daemon : Answered(e) => call[e].kind # "reenroll"
                       /\ \A e \in Daemon, s \in Secret :
                             ~Enrolled(e) /\ identity[e].cred # None /\ identity[e].cred = enrollment[s].cred
                             => cred[identity[e].cred] = "current")'
    BY DEF OneEnrollment
  <2>1. CASE UNCHANGED <<lifecycle, cred, enrollment, superseded>>
    <3>1. Undisturbed
      BY <2>1 DEF Undisturbed
    <3> QED BY <1>5, <2>1, <3>1 DEF IndInv, OneEnrollment, Answered, Enrolled
  <2>2. CASE EnrollsAnew(c)
    <3>1. lifecycle = "pending"
      BY <1>3, <2>2, EnrollsAnewSupersedes
    <3>2. \A s \in Secret : enrollment[s].cred = None
      BY <3>1 DEF IndInv, FirstUse
    <3>3. \A e \in Daemon : call[e] # NoCall => call[e].kind = "enroll"
      BY <3>1, NoOneEnrolledWhilePending
    <3> QED BY <1>0, <1>5, <1>6, <2>2, <3>2, <3>3 DEF Answered, EnrollsAnew
  <2>3. CASE RotatesTo(c)
    <3>1. Undisturbed /\ enrollment' = enrollment
      BY <2>3 DEF Undisturbed, RotatesTo
    <3>2. PICK d \in Daemon : Enrolled(d)
      BY <1>6, <2>3 DEF RotatesTo
    <3>3. ASSUME NEW e \in Daemon, NEW s \in Secret, ~Enrolled(e), identity[e].cred # None
          PROVE  identity[e].cred # enrollment[s].cred
      BY <3>1, <3>2, <3>3, OneEnrolledDaemon DEF Holds
    <3> QED BY <1>5, <3>1, <3>3 DEF IndInv, OneEnrollment, Answered, Enrolled
  <2> QED BY <1>4, <2>1, <2>2, <2>3
<1>17. Handover'
  <2> SUFFICES ASSUME Undisturbed', NEW e \in Daemon, Enrolled(e)
               PROVE  (/\ faults <= 1 => cred[InHand(e)] \in {"current", "retiring"}
                       /\ faults <= 1 /\ (\E x \in strays : x.kind = "rotate") => cred[InHand(e)] = "current"
                       /\ faults = 0 => /\ cred[InHand(e)] = "current"
                                        /\ cred[identity[e].cred] \in {"current", "retiring"})'
    BY <1>5 DEF Handover, Enrolled
  <2>0. InHand(e)' = InHand(e)
    BY <1>5 DEF InHand, Answered
  <2>1. CASE UNCHANGED <<lifecycle, cred, enrollment, superseded>>
    <3>1. Undisturbed
      BY <2>1 DEF Undisturbed
    <3> QED BY <1>5, <1>7, <2>0, <2>1, <3>1 DEF IndInv, Handover
  <2>2. CASE EnrollsAnew(c)
    BY <1>3, <2>2, EnrollsAnewSupersedes, NoOneEnrolledWhilePending
  <2>3. CASE RotatesTo(c) /\ after.stage = "ok"
    <3>1. Undisturbed
      BY <2>3 DEF Undisturbed, RotatesTo
    <3>2. faults # 0
      BY <1>1 DEF IndInv, FirstFault
    <3>3. faults <= 1 => strays' = {} /\ cred[InHand(e)] = "current"
      BY <1>2, <2>3, <3>1 DEF IndInv, FirstFault, Handover, RotatesTo
    <3>4. InHand(e) \in Credential
      BY <1>0 DEF IndInv, EnrolledHasCredential, Enrolled, InHand, Answered
    <3>5. c \in Rotations
      BY <2>3 DEF Rotations, RotatesTo
    <3>6. faults <= 1 => cred'[InHand(e)] \in {"current", "retiring"}
      BY <1>3, <2>3, <3>1, <3>3, <3>4, <3>5, SerialRotation DEF Undisturbed
    <3> QED BY <1>5, <2>0, <3>2, <3>3, <3>6
  <2> QED BY <1>4, <2>1, <2>2, <2>3
<1> QED BY <1>9, <1>10, <1>11, <1>12, <1>13, <1>14, <1>15, <1>16, <1>17

-----------------------------------------------------------------------------
(* Rotations at once. *)

\* Administration leaves the rows of open rotations alone.
LEMMA AdministrationKeepsRows ==
    ASSUME IndInv, Administration
    PROVE  RotationsApart' /\ RowsHeld' /\ RevokeWaits' /\ OneCurrentOneRetiring'
<1>0. TypeOK
  BY DEF IndInv
<1>1. /\ UNCHANGED <<call, strays>>
      /\ \A k \in Credential : cred'[k] = cred[k] \/ (cred'[k] = "revoked" /\ cred[k] # "none")
      /\ lifecycle' # "deleted" =>
            lifecycle # "deleted" /\ \A k \in Credential : k \in Held => cred'[k] = cred[k]
      /\ lifecycle' \in {"active", "disabled"} => lifecycle \in {"active", "disabled"} /\ cred' = cred
      /\ \/ revoking' = {}
         \/ revoking' = revoking /\ (lifecycle' = "deleted" <=> lifecycle = "deleted")
         \/ revoking' = Known /\ UNCHANGED <<cred, lifecycle>> /\ lifecycle # "deleted"
  <2>1. ASSUME NEW s \in Secret, IssueEnrollment(s) PROVE <1>1!:
    BY <1>0, <2>1 DEF IssueEnrollment, daemonVars, TypeOK
  <2>2. ASSUME NEW s \in Secret, EnrollmentExpires(s) PROVE <1>1!:
    BY <1>0, <2>2 DEF EnrollmentExpires, daemonVars, TypeOK
  <2>3. CASE Update
    BY <1>0, <2>3 DEF Update, daemonVars, TypeOK
  <2>4. ASSUME NEW rows \in SUBSET Known, Revokes(rows), lifecycle # "deleted" PROVE <1>1!:
    BY <1>0, <2>4 DEF Revokes, RevokedCredentials, Known, InState, daemonVars, TypeOK
  <2>5. CASE Revoke
    <3>1. CASE Revokes(Known)
      BY <2>4, <2>5, <3>1 DEF Revoke
    <3> QED BY <1>0, <2>4, <2>5, <3>1 DEF Revoke, daemonVars, TypeOK
  <2>6. CASE RevokeGoesOn
    <3>1. revoking \in SUBSET Known /\ lifecycle # "deleted"
      BY <1>0, <2>6 DEF RevokeGoesOn, IndInv, RevokeWaits, Known, InState, TypeOK
    <3>2. CASE Revokes(revoking)
      BY <2>4, <3>1, <3>2
    <3> QED BY <1>0, <2>6, <3>1, <3>2 DEF RevokeGoesOn, daemonVars, TypeOK
  <2>7. CASE Delete
    BY <1>0, <2>7 DEF Delete, RevokedCredentials, Known, InState, daemonVars, TypeOK
  <2>8. ASSUME NEW c \in Credential, Lapses(c) PROVE <1>1!:
    BY <1>0, <2>8 DEF Lapses, daemonVars, TypeOK
  <2> QED BY <2>1, <2>2, <2>3, <2>5, <2>6, <2>7, <2>8 DEF Administration
<1>2. Rotations' = Rotations
  BY <1>1 DEF Rotations
<1>3. RotationsApart'
  BY <1>1 DEF IndInv, RotationsApart
<1>4. RowsHeld'
  <2>1. ASSUME NEW c \in Rotations, lifecycle' # "deleted"
        PROVE  c.revokes \subseteq InState("retiring")' /\ c.retires \subseteq InState("current")'
    <3>1. c.revokes \subseteq InState("retiring") /\ c.retires \subseteq InState("current")
      BY <1>1, <2>1 DEF IndInv, RowsHeld
    <3>2. c.revokes \subseteq Held /\ c.retires \subseteq Held
      BY DEF Held, HeldBy
    <3> QED BY <1>1, <2>1, <3>1, <3>2 DEF InState
  <2> QED BY <1>2, <2>1 DEF IndInv, RowsHeld, HeldBy
<1>5. RevokeWaits'
  BY <1>0, <1>1 DEF IndInv, RevokeWaits, Known, InState, TypeOK
<1>6. OneCurrentOneRetiring'
  BY <1>1 DEF IndInv, OneCurrentOneRetiring, InState
<1> QED BY <1>3, <1>4, <1>5, <1>6

\* A step of Core on one call keeps the rows of the other rotations: it changes
\* only rows they have not changed.
LEMMA CoreKeepsRows ==
    ASSUME IndInv, NEW c \in Calls, c \in strays \/ \E d \in Daemon : c = call[d],
           NEW after, CoreHandles(c, after),
           \A o \in Rotations' : o = after \/ (o \in Rotations /\ (c.kind = "rotate" => o.cred # c.cred))
    PROVE  RowsHeld' /\ RevokeWaits' /\ OneCurrentOneRetiring'
<1>0. TypeOK /\ c.cred \in Credential
  BY CallShape DEF IndInv
<1>1. /\ after.kind = c.kind /\ after.cred = c.cred
      /\ \/ CallMoves(c, after)
         \/ EnrollsAnew(c)
         \/ RotatesTo(c) /\ after.revokes = {} /\ after.retires = {}
  BY <1>0, CoreEffect DEF TypeOK
<1>2. revoking' = revoking
  BY DEF CoreHandles, RotateCredential, RevokeRetiring, RetireCurrent, InsertRotated, DeadlockVictim,
     Authenticate, Enroll, Waits, coreVars
<1>3. c.kind = "rotate" => c \in Rotations
  BY DEF Rotations
<1>4. \A o \in Rotations' : o.kind = "rotate"
  BY DEF Rotations
<1>5. ASSUME NEW o \in Rotations, c.kind = "rotate", o.cred # c.cred
      PROVE  HeldBy(o) \subseteq LockedByOther(c) /\ HeldBy(o) \cap HeldBy(c) = {}
  BY <1>3, <1>5 DEF LockedByOther, IndInv, RowsHeld
<1>6. CASE CallMoves(c, after)
  <2>1. UNCHANGED <<lifecycle, cred>>
    BY <1>6 DEF CallMoves, coreVars
  <2>2. ASSUME after \in Rotations'
        PROVE  /\ lifecycle # "deleted" => after.revokes \subseteq InState("retiring")
                                           /\ after.retires \subseteq InState("current")
               /\ \A o \in Rotations : o.cred # c.cred => HeldBy(after) \cap HeldBy(o) = {}
    <3>1. c.kind = "rotate" /\ c \in Rotations
      BY <1>1, <1>3, <1>4, <2>2
    <3>2. lifecycle # "deleted" => c.revokes \subseteq InState("retiring") /\ c.retires \subseteq InState("current")
      BY <3>1 DEF IndInv, RowsHeld
    <3>3. HeldBy(after) \subseteq HeldBy(c) \cup (Credential \ LockedByOther(c))
      BY <1>6 DEF CallMoves, HeldBy, InState
    <3>4. ASSUME NEW o \in Rotations, o.cred # c.cred PROVE HeldBy(after) \cap HeldBy(o) = {}
      BY <1>5, <3>1, <3>3, <3>4
    <3> QED BY <1>6, <3>2, <3>4 DEF CallMoves
  <2>3. RowsHeld'
    <3>1. ASSUME NEW o \in Rotations', lifecycle' # "deleted"
          PROVE  o.revokes \subseteq InState("retiring")' /\ o.retires \subseteq InState("current")'
      BY <2>1, <2>2, <3>1 DEF IndInv, RowsHeld, InState
    <3>2. ASSUME NEW o \in Rotations', NEW p \in Rotations', o.cred # p.cred
          PROVE  HeldBy(o) \cap HeldBy(p) = {}
      BY <1>1, <2>2, <3>2 DEF IndInv, RowsHeld
    <3> QED BY <3>1, <3>2 DEF RowsHeld, HeldBy
  <2> QED BY <1>2, <2>1, <2>3 DEF IndInv, RevokeWaits, OneCurrentOneRetiring, InState
<1>7. CASE EnrollsAnew(c)
  <2>1. \A o \in Rotations' : o \in Rotations
    BY <1>1, <1>4, <1>7 DEF EnrollsAnew
  <2>2. \A o \in Rotations : o.revokes = {} /\ o.retires = {}
    BY <1>7 DEF EnrollsAnew, Held, HeldBy
  <2>3. RowsHeld'
    BY <2>1, <2>2 DEF RowsHeld, HeldBy
  <2>4. RevokeWaits'
    BY <1>0, <1>2, <1>7 DEF EnrollsAnew, IndInv, RevokeWaits, TypeOK
  <2>5. \A k \in Credential : cred'[k] \in {"current", "retiring"} => k = c.cred
    BY <1>7 DEF EnrollsAnew, IndInv, FirstUse
  <2>6. c.cred \in InState("current")'
    BY <1>0, <1>7 DEF EnrollsAnew, InState
  <2> QED BY <2>3, <2>4, <2>5, <2>6 DEF OneCurrentOneRetiring
<1>8. CASE RotatesTo(c) /\ after.revokes = {} /\ after.retires = {}
  <2>1. /\ c \in Rotations /\ c.kind = "rotate"
        /\ c.revokes \subseteq InState("retiring") /\ c.retires \subseteq InState("current")
    BY <1>3, <1>8 DEF RotatesTo, IndInv, RowsHeld
  <2>2. ASSUME NEW o \in Rotations', o # after
        PROVE  /\ o \in Rotations /\ o.cred # c.cred
               /\ o.revokes \subseteq InState("retiring")' /\ o.retires \subseteq InState("current")'
    <3>1. o \in Rotations /\ o.cred # c.cred
      BY <2>1, <2>2
    <3>2. o.revokes \subseteq InState("retiring") /\ o.retires \subseteq InState("current")
      BY <1>8, <3>1 DEF RotatesTo, IndInv, RowsHeld
    <3>3. \A k \in HeldBy(o) : k \notin HeldBy(c) /\ k # c.cred
      BY <1>5, <1>8, <2>1, <3>1, <3>2 DEF RotatesTo, HeldBy, InState
    <3> QED BY <1>8, <3>1, <3>2, <3>3 DEF RotatesTo, HeldBy, InState
  <2>3. RowsHeld'
    <3>1. ASSUME NEW o \in Rotations'
          PROVE  o.revokes \subseteq InState("retiring")' /\ o.retires \subseteq InState("current")'
      BY <1>8, <2>2
    <3>2. ASSUME NEW o \in Rotations', NEW p \in Rotations', o.cred # p.cred
          PROVE  HeldBy(o) \cap HeldBy(p) = {}
      <4>1. HeldBy(after) = {}
        BY <1>8 DEF HeldBy
      <4> QED BY <2>2, <3>2, <4>1 DEF IndInv, RowsHeld
    <3> QED BY <3>1, <3>2 DEF RowsHeld, HeldBy
  <2>4. RevokeWaits'
    BY <1>0, <1>2, <1>8 DEF RotatesTo, IndInv, RevokeWaits, TypeOK
  <2>5. /\ InState("current") \subseteq c.retires
        /\ c.retires # {} => InState("retiring") \subseteq c.revokes
    BY <1>8 DEF RotatesTo, Conflicts
  <2>6. \A k, l \in Credential : cred[k] = cred[l] /\ cred[k] \in {"current", "retiring"} => k = l
    BY DEF IndInv, OneCurrentOneRetiring
  <2>7. ASSUME NEW k \in Credential, NEW l \in Credential, cred'[k] = "current", cred'[l] = "current"
        PROVE  k = l
    <3>1. \A m \in Credential : cred'[m] = "current" => m = c.cred
      BY <1>8, <2>5 DEF RotatesTo, InState
    <3> QED BY <2>7, <3>1
  <2>8. ASSUME NEW k \in Credential, NEW l \in Credential, cred'[k] = "retiring", cred'[l] = "retiring"
        PROVE  k = l
    <3>1. \A m \in Credential : cred'[m] = "retiring" =>
             \/ m \in c.retires /\ cred[m] = "current"
             \/ m \notin c.revokes /\ cred[m] = "retiring"
      BY <1>8, <2>1 DEF RotatesTo, InState
    <3>2. CASE c.retires = {}
      BY <2>6, <2>8, <3>1, <3>2
    <3>3. CASE c.retires # {}
      BY <2>5, <2>6, <2>8, <3>1, <3>3 DEF InState
    <3> QED BY <3>2, <3>3
  <2>9. c.cred \in InState("current")'
    BY <1>0, <1>8 DEF RotatesTo, InState
  <2> QED BY <2>3, <2>4, <2>7, <2>8, <2>9 DEF OneCurrentOneRetiring
<1> QED BY <1>1, <1>6, <1>7, <1>8

\* Core's handling of a call, open or left behind, keeps the clauses about
\* rotations.
LEMMA CoreKeepsRotations ==
    ASSUME IndInv, CoreHandlesStray \/ \E d \in Daemon : CoreAnswers(d)
    PROVE  RotationsApart' /\ RowsHeld' /\ RevokeWaits' /\ OneCurrentOneRetiring'
<1>0. /\ TypeOK
      /\ \A d \in Daemon : call[d] # NoCall => call[d] \in Calls /\ call[d].cred \in Credential
      /\ \A c \in strays : c \in Calls /\ c.cred \in Credential
  BY NaturalIds DEF IndInv
<1>1. NoCall.kind # "rotate"
  BY DEF NoCall
<1>2. CASE CoreHandlesStray
  <2>1. PICK c \in strays : \E after \in Handled(c) :
              /\ CoreHandles(c, after)
              /\ strays' = (strays \ {c}) \cup (IF after.stage \in {"ok", "error"} THEN {} ELSE {after})
    BY <1>2 DEF CoreHandlesStray
  <2>2. PICK after : /\ CoreHandles(c, after)
                     /\ strays' = (strays \ {c}) \cup (IF after.stage \in {"ok", "error"} THEN {} ELSE {after})
    BY <2>1
  <2>3. call' = call /\ c \in Calls
    BY <1>0, <1>2 DEF CoreHandlesStray
  <2>4. after.kind = c.kind /\ after.cred = c.cred
    BY <1>0, <2>2, <2>3, CoreEffect DEF TypeOK
  <2>5. RotationsApart'
    BY <2>2, <2>3, <2>4 DEF IndInv, RotationsApart
  <2>6. ASSUME NEW o \in Rotations'
        PROVE  o = after \/ (o \in Rotations /\ (c.kind = "rotate" => o.cred # c.cred))
    <3>1. o.kind = "rotate" /\ (o \in strays' \/ \E d \in Daemon : o = call[d])
      BY <2>3, <2>6 DEF Rotations
    <3>2. CASE o \in strays'
      BY <2>2, <3>1, <3>2 DEF Rotations, IndInv, RotationsApart
    <3>3. ASSUME NEW d \in Daemon, o = call[d] PROVE o \in Rotations /\ (c.kind = "rotate" => o.cred # c.cred)
      BY <1>1, <3>1, <3>3 DEF Rotations, IndInv, RotationsApart
    <3> QED BY <3>1, <3>2, <3>3
  <2> QED BY <2>2, <2>3, <2>5, <2>6, CoreKeepsRows
<1>3. ASSUME NEW d \in Daemon, CoreAnswers(d)
      PROVE  RotationsApart' /\ RowsHeld' /\ RevokeWaits' /\ OneCurrentOneRetiring'
  <2>1. PICK after : CoreHandles(call[d], after) /\ call' = [call EXCEPT ![d] = after]
    BY <1>3 DEF CoreAnswers
  <2>2. PICK c \in Calls : c = call[d] /\ c # NoCall
    BY <1>0, <1>3 DEF CoreAnswers
  <2>3. after.kind = c.kind /\ after.cred = c.cred
    BY <1>0, <2>1, <2>2, CoreEffect DEF TypeOK
  <2>4. /\ strays' = strays
        /\ \A e \in Daemon : call'[e] = IF e = d THEN after ELSE call[e]
    BY <1>0, <1>3, <2>1 DEF CoreAnswers, TypeOK
  <2>5. RotationsApart'
    BY <2>2, <2>3, <2>4 DEF IndInv, RotationsApart
  <2>6. ASSUME NEW o \in Rotations'
        PROVE  o = after \/ (o \in Rotations /\ (c.kind = "rotate" => o.cred # c.cred))
    <3>1. o.kind = "rotate" /\ (o \in strays \/ \E e \in Daemon : o = call'[e])
      BY <2>4, <2>6 DEF Rotations
    <3>2. CASE o \in strays
      BY <2>2, <3>1, <3>2 DEF Rotations, IndInv, RotationsApart
    <3>3. ASSUME NEW e \in Daemon, o = call[e], e # d, c.kind = "rotate" PROVE o.cred # c.cred
      <4>1. call[e] # NoCall
        BY <1>1, <3>1, <3>3
      <4>2. Holds(e, o.cred) /\ Holds(d, c.cred) /\ o.cred \in Credential
        BY <1>0, <2>2, <3>3, <4>1 DEF Holds
      <4> QED BY <3>3, <4>2 DEF IndInv, HeldApart
    <3>4. ASSUME NEW e \in Daemon, o = call'[e]
          PROVE  o = after \/ (o \in Rotations /\ (c.kind = "rotate" => o.cred # c.cred))
      BY <2>4, <3>1, <3>3, <3>4 DEF Rotations
    <3> QED BY <3>1, <3>2, <3>4
  <2> QED BY <2>1, <2>2, <2>5, <2>6, CoreKeepsRows
<1> QED BY <1>2, <1>3

\* A daemon's step opens calls that hold nothing yet, ends calls, which rolls
\* back what they hold, or leaves them behind as they are.
LEMMA DaemonKeepsRotations ==
    ASSUME IndInv, NEW d \in Daemon, DaemonStep(d)
    PROVE  RotationsApart' /\ RowsHeld' /\ RevokeWaits' /\ OneCurrentOneRetiring'
<1>0. /\ TypeOK
      /\ made \in Nat
      /\ \A k \in Credential : k \in Nat
      /\ \A e \in Daemon : call[e] # NoCall => call[e] \in Calls /\ call[e].cred \in Credential
      /\ \A c \in strays : c \in Calls /\ c.cred \in Credential
      /\ \A c \in strays : c.cred <= made
  BY NaturalIds DEF IndInv, CredentialsExist
<1>1. UNCHANGED coreVars
  BY DEF DaemonStep, Start, Configure, KeepIdentity, FirstEnrollment, Reenrollment, EnterLoop, Rotate,
     Stop, FinalWeek, CallSucceeds, CallRefused, CallLost
<1>2. NoCall.kind # "rotate"
  BY DEF NoCall
<1>3. \/ UNCHANGED <<call, strays>>
      \/ /\ strays' = strays
         /\ \A e \in Daemon : e # d => call'[e] = call[e]
         /\ \/ call'[d] = NoCall
            \/ call'[d].kind # "rotate"
            \/ call'[d].cred = made + 1 /\ call'[d].revokes = {} /\ call'[d].retires = {}
      \/ /\ call[d] # NoCall /\ strays' = strays \cup {call[d]}
         /\ \A e \in Daemon : call'[e] = IF e = d THEN NoCall ELSE call[e]
  <2>1. CASE FirstEnrollment(d) \/ Reenrollment(d) \/ Rotate(d)
    BY <1>0, <2>1 DEF FirstEnrollment, Reenrollment, Rotate, NewCall, TypeOK
  <2>2. CASE CallSucceeds(d) \/ CallRefused(d)
    BY <1>0, <2>2 DEF CallSucceeds, CallRefused, TypeOK
  <2>3. CASE CallLost(d)
    BY <1>0, <2>3 DEF CallLost, TypeOK
  <2> QED BY <2>1, <2>2, <2>3 DEF DaemonStep, Start, Configure, KeepIdentity, EnterLoop, Stop, FinalWeek
<1>4. RotationsApart'
  <2>1. CASE UNCHANGED <<call, strays>>
    BY <2>1 DEF IndInv, RotationsApart
  <2>2. CASE /\ strays' = strays
             /\ \A e \in Daemon : e # d => call'[e] = call[e]
             /\ \/ call'[d] = NoCall
                \/ call'[d].kind # "rotate"
                \/ call'[d].cred = made + 1
    BY <1>0, <2>2 DEF IndInv, RotationsApart
  <2>3. CASE /\ call[d] # NoCall /\ strays' = strays \cup {call[d]}
             /\ \A e \in Daemon : call'[e] = IF e = d THEN NoCall ELSE call[e]
    <3>1. \A e \in Daemon : e # d /\ call[e] # NoCall => call[e].cred # call[d].cred
      BY <1>0, <2>3 DEF IndInv, HeldApart, Holds
    <3> QED BY <2>3, <3>1 DEF IndInv, RotationsApart
  <2> QED BY <1>3, <2>1, <2>2, <2>3
<1>5. \A o \in Rotations' : o \in Rotations \/ (o.revokes = {} /\ o.retires = {})
  BY <1>2, <1>3 DEF Rotations
<1>6. RowsHeld'
  BY <1>1, <1>5 DEF IndInv, RowsHeld, HeldBy, InState, coreVars
<1> QED BY <1>1, <1>4, <1>6 DEF IndInv, RevokeWaits, OneCurrentOneRetiring, InState, coreVars

-----------------------------------------------------------------------------
(* The theorems. *)

\* The initial states satisfy the inductive invariant.
LEMMA IndInvInit == ASSUME Init PROVE IndInv
<1>1. TypeOK
  BY TypeInit
<1>2. None \in Nat
  BY DEF None
<1> QED
  BY <1>1, <1>2 DEF Init, IndInv, EnrolledHasCredential, CredentialsExist, FirstUse, WhoCalls, HeldApart,
     AnswerMeansUsed, SecretHasOwner, SecretEnrollsOneDaemon, FreshReenrollment, FirstFault,
     OneEnrollment, Handover, Holds, Enrolled, Answered, InHand, Undisturbed, Credential, None,
     RotationsApart, RowsHeld, RevokeWaits, OneCurrentOneRetiring, Rotations, NoCall

\* Every step keeps the inductive invariant.
LEMMA IndInvStep == ASSUME IndInv, [Next]_vars PROVE IndInv'
<1>0. TypeOK' /\ EnrolledHasCredential'
  BY TypeStep, EnrolledStep DEF IndInv
<1>1. CASE Administration
  BY <1>0, <1>1, AdministrationKeeps, AdministrationKeepsRows DEF IndInv
<1>2. CASE CoreHandlesStray
  BY <1>0, <1>2, CoreHandlesStrayKeeps, CoreKeepsRotations DEF IndInv
<1>3. ASSUME NEW d \in Daemon, CoreAnswers(d) PROVE IndInv'
  BY <1>0, <1>3, CoreAnswersKeeps, CoreKeepsRotations DEF IndInv
<1>4. ASSUME NEW d \in Daemon, DaemonStep(d) PROVE IndInv'
  <2>1. CASE (\E s \in Secret : Configure(d, s)) \/ KeepIdentity(d) \/ EnterLoop(d) \/ Stop(d) \/ FinalWeek(d)
    BY <1>0, <1>4, <2>1, LocalStepsKeep, DaemonKeepsRotations DEF IndInv
  <2>2. CASE FirstEnrollment(d) \/ Reenrollment(d) \/ Rotate(d)
    BY <1>0, <1>4, <2>2, NewCallKeeps, DaemonKeepsRotations DEF IndInv
  <2>3. CASE CallSucceeds(d)
    BY <1>0, <1>4, <2>3, CallSucceedsKeeps, DaemonKeepsRotations DEF IndInv
  <2>4. CASE CallRefused(d) \/ CallLost(d)
    BY <1>0, <1>4, <2>4, FailedCallKeeps, DaemonKeepsRotations DEF IndInv
  <2> QED BY <1>4, <2>1, <2>2, <2>3, <2>4 DEF DaemonStep, Start
<1>5. CASE UNCHANGED vars
  BY <1>0, <1>5 DEF vars, coreVars, daemonVars, IndInv, CredentialsExist, FirstUse, WhoCalls,
     HeldApart, AnswerMeansUsed, SecretHasOwner, SecretEnrollsOneDaemon, FreshReenrollment, FirstFault,
     OneEnrollment, Handover, Holds, Enrolled, Answered, InHand, Undisturbed, RotationsApart, RowsHeld,
     RevokeWaits, OneCurrentOneRetiring, Rotations, HeldBy, InState
<1> QED BY <1>1, <1>2, <1>3, <1>4, <1>5 DEF Next

\* The inductive invariant always holds.
THEOREM IndInvCorrect == Spec => []IndInv
<1>1. Init => IndInv
  BY IndInvInit
<1>2. IndInv /\ [Next]_vars => IndInv'
  BY IndInvStep
<1> QED BY <1>1, <1>2, PTL DEF Spec

\* One enrollment secret never makes two daemons hold the connector, for any
\* number of daemons, secrets, lost answers and failed saves
\* (SecretEnrollsOneDaemon, Core's Enroll and the daemon's ensureIdentity).
THEOREM SecretCorrect == Spec => []SecretEnrollsOneDaemon
<1>1. IndInv => SecretEnrollsOneDaemon
  BY DEF IndInv
<1> QED BY <1>1, IndInvCorrect, PTL

\* After one lost call or failed save the identity on an enrolled daemon's
\* volume is one Core still knows, unless the connector was revoked, deleted
\* or re-enrolled (HandoverCoversOneFailure, the handover window of
\* RotateCredential).
THEOREM HandoverCorrect == Spec => []HandoverCoversOneFailure
<1>1. IndInv => HandoverCoversOneFailure
  <2> SUFFICES ASSUME IndInv, NEW d \in Daemon, identity[d].enrolled, call[d] = NoCall,
                      lifecycle \in {"active", "disabled"}, superseded = {}, faults <= 1
               PROVE  cred[identity[d].cred] \in {"current", "retiring"}
    BY DEF HandoverCoversOneFailure
  <2>1. InHand(d) = identity[d].cred
    BY DEF InHand, Answered
  <2> QED BY <2>1 DEF IndInv, Handover, Undisturbed, Enrolled
<1> QED BY <1>1, IndInvCorrect, PTL

\* Whatever is committed while the connector is enrolled is an enrollment or a
\* rotation that commits as if no other rotation had run at once
\* (CredentialsSerial, the statements of RotateCredential and the partial
\* unique indexes that refuse the rotations that lost).
THEOREM CredentialsCorrect == Spec => CredentialsSerial
<1> DEFINE Serial ==
        cred' # cred /\ lifecycle' \in {"active", "disabled"} =>
          \E k \in InState("none") :
             /\ cred'[k] = "current"
             /\ LET others == Credential \ {k} IN
                \/ \A o \in others : cred'[o] = IF cred[o] = "none" THEN "none" ELSE "revoked"
                \/ /\ InState("current") # {}
                   /\ \A o \in others : cred'[o] = CASE cred[o] = "current"  -> "retiring"
                                                     [] cred[o] = "retiring" -> "revoked"
                                                     [] OTHER                -> cred[o]
<1>1. ASSUME IndInv, [Next]_vars PROVE [Serial]_vars
  <2> SUFFICES ASSUME cred' # cred, lifecycle' \in {"active", "disabled"} PROVE Serial
    OBVIOUS
  <2>0. TypeOK
    BY <1>1 DEF IndInv
  <2>1. ASSUME NEW c \in Calls, EnrollsAnew(c) PROVE Serial
    <3>1. c.cred \in InState("none") /\ cred'[c.cred] = "current"
      BY <2>1, CallShape DEF EnrollsAnew, InState
    <3>2. \A o \in Credential \ {c.cred} : cred'[o] = IF cred[o] = "none" THEN "none" ELSE "revoked"
      BY <1>1, <2>1 DEF EnrollsAnew, IndInv, FirstUse
    <3> QED BY <3>1, <3>2
  <2>2. ASSUME NEW c \in Calls, c \in Rotations, RotatesTo(c) PROVE Serial
    <3>1. c.cred \in InState("none") /\ cred'[c.cred] = "current"
      BY <2>2, CallShape DEF RotatesTo, InState
    <3>2. lifecycle \in {"active", "disabled"} /\ InState("current") # {}
      BY <1>1, <2>2 DEF RotatesTo, IndInv, OneCurrentOneRetiring
    <3>3. \A o \in Credential \ {c.cred} :
             cred'[o] = CASE cred[o] = "current"  -> "retiring"
                          [] cred[o] = "retiring" -> "revoked"
                          [] OTHER                -> cred[o]
      BY <1>1, <2>2, <3>2, SerialRotation
    <3> QED BY <3>1, <3>2, <3>3
  <2>3. ASSUME NEW c \in Calls, c \in strays \/ \E d \in Daemon : c = call[d],
               NEW after, CoreHandles(c, after)
        PROVE  Serial
    <3>1. CallMoves(c, after) \/ EnrollsAnew(c) \/ RotatesTo(c)
      BY <2>0, <2>3, CoreEffect DEF TypeOK
    <3>2. RotatesTo(c) => c \in Rotations
      BY <2>3 DEF RotatesTo, Rotations
    <3> QED BY <2>1, <2>2, <3>1, <3>2 DEF CallMoves, coreVars
  <2>4. CASE CoreHandlesStray
    BY <2>0, <2>3, <2>4 DEF CoreHandlesStray, TypeOK
  <2>5. ASSUME NEW d \in Daemon, CoreAnswers(d) PROVE Serial
    BY <2>0, <2>3, <2>5 DEF CoreAnswers, TypeOK
  <2>6. CASE Administration
    BY <2>6 DEF Administration, IssueEnrollment, EnrollmentExpires, Update, Revoke, RevokeGoesOn, Revokes,
       Delete, Lapses
  <2>7. ASSUME NEW d \in Daemon, DaemonStep(d) PROVE Serial
    BY <2>7 DEF coreVars, DaemonStep, Start, Configure, KeepIdentity, FirstEnrollment, Reenrollment,
       EnterLoop, Rotate, Stop, FinalWeek, CallSucceeds, CallRefused, CallLost
  <2> QED BY <1>1, <2>4, <2>5, <2>6, <2>7 DEF Next, vars, coreVars
<1> QED BY <1>1, IndInvCorrect, PTL DEF CredentialsSerial, Spec
\* FirstSecretNotWasted, and what it needs of the calls left behind in Core:
\* they may still use a secret, so their candidates are on a volume too.
CandidatesKept ==
    /\ FirstSecretNotWasted
    /\ (\A d \in Daemon : ~Enrolled(d)) => \A c \in strays : \E d \in Daemon : identity[d].cred = c.cred

\* Core stores for a secret only the candidate of the call it handles.
LEMMA SecretUsedByCall ==
    ASSUME NEW c \in Calls, NEW after, CallMoves(c, after) \/ EnrollsAnew(c) \/ RotatesTo(c),
           NEW s \in Secret
    PROVE  enrollment'[s].cred \in {enrollment[s].cred, c.cred}
BY DEF CallMoves, EnrollsAnew, RotatesTo, coreVars

\* Every step keeps the candidates of the first enrollments on their volumes.
LEMMA CandidatesStep ==
    ASSUME IndInv, CandidatesKept, [Next]_vars
    PROVE  CandidatesKept'
<1>0. TypeOK /\ WhoCalls
  BY DEF IndInv
<1>1. SUFFICES ASSUME \A d \in Daemon : ~identity'[d].enrolled
               PROVE  /\ \A s \in Secret : enrollment'[s].cred # None =>
                             \E d \in Daemon : identity'[d].cred = enrollment'[s].cred
                      /\ \A c \in strays' : \E d \in Daemon : identity'[d].cred = c.cred
  BY DEF CandidatesKept, FirstSecretNotWasted, Enrolled
<1>2. CASE UNCHANGED identity
  <2>1. /\ \A s \in Secret : enrollment[s].cred # None => \E d \in Daemon : identity[d].cred = enrollment[s].cred
        /\ \A c \in strays : \E d \in Daemon : identity[d].cred = c.cred
    BY <1>1, <1>2 DEF CandidatesKept, FirstSecretNotWasted, Enrolled
  <2>2. \A d \in Daemon : call[d] # NoCall => call[d].cred = identity[d].cred
    BY <1>0, <1>1, <1>2 DEF WhoCalls, Enrolled
  <2>3. SUFFICES /\ \A s \in Secret : \/ enrollment'[s].cred \in {None, enrollment[s].cred}
                                      \/ \E d \in Daemon : identity[d].cred = enrollment'[s].cred
                 /\ \A c \in strays' : \/ \E b \in strays : c.cred = b.cred
                                       \/ \E d \in Daemon : identity[d].cred = c.cred
    BY <1>2, <2>1
  <2>4. CASE Administration
    <3>1. \A s \in Secret : WithOpenRevoked(enrollment)[s].cred = enrollment[s].cred
      BY <1>0 DEF WithOpenRevoked, TypeOK
    <3>2. WithOpenRevoked(enrollment) \in [Secret -> [state : {"none", "open", "consumed", "revoked", "expired"},
                                                      cred  : Credential \cup {None}]]
      BY <1>0 DEF WithOpenRevoked, TypeOK
    <3>3. ASSUME NEW t \in Secret, IssueEnrollment(t) \/ EnrollmentExpires(t)
          PROVE  \A s \in Secret : enrollment'[s].cred = enrollment[s].cred
      BY <1>0, <3>1, <3>2, <3>3 DEF IssueEnrollment, EnrollmentExpires, TypeOK
    <3>4. ASSUME Delete
          PROVE  \A s \in Secret : enrollment'[s].cred = enrollment[s].cred
      BY <1>0, <3>4 DEF Delete, TypeOK
    <3>5. ASSUME Update \/ Revoke \/ RevokeGoesOn \/ \E c \in Credential : Lapses(c)
          PROVE  \A s \in Secret : enrollment'[s].cred = enrollment[s].cred
      <4>1. UNCHANGED enrollment \/ enrollment' = WithOpenRevoked(enrollment)
        BY <3>5 DEF Update, Revoke, RevokeGoesOn, Revokes, Lapses
      <4> QED BY <3>1, <4>1
    <3>6. strays' = strays
      BY <2>4 DEF Administration, IssueEnrollment, EnrollmentExpires, Update, Revoke, RevokeGoesOn, Revokes,
         Delete, Lapses, daemonVars
    <3>7. \A s \in Secret : enrollment'[s].cred = enrollment[s].cred
      BY <2>4, <3>3, <3>4, <3>5 DEF Administration
    <3> QED BY <3>6, <3>7
  <2>5. ASSUME NEW c \in strays, NEW after, CoreHandles(c, after),
               strays' = (strays \ {c}) \cup (IF after.stage \in {"ok", "error"} THEN {} ELSE {after})
        PROVE  /\ \A s \in Secret : \/ enrollment'[s].cred = enrollment[s].cred
                                    \/ \E d \in Daemon : identity[d].cred = enrollment'[s].cred
               /\ \A b \in strays' : \E a \in strays : b.cred = a.cred
    <3>1. c \in Calls
      BY <1>0, <2>5 DEF TypeOK
    <3>2. after.cred = c.cred /\ (CallMoves(c, after) \/ EnrollsAnew(c) \/ RotatesTo(c))
      BY <1>0, <2>5, <3>1, CoreEffect DEF TypeOK
    <3> QED BY <2>1, <2>5, <3>1, <3>2, SecretUsedByCall
  <2>6. ASSUME NEW d \in Daemon, CoreAnswers(d)
        PROVE  /\ \A s \in Secret : \/ enrollment'[s].cred = enrollment[s].cred
                                    \/ \E e \in Daemon : identity[e].cred = enrollment'[s].cred
               /\ strays' = strays
    <3>1. call[d] \in Calls /\ call[d] # NoCall
      BY <1>0, <2>6 DEF TypeOK, CoreAnswers
    <3>2. PICK after : CoreHandles(call[d], after)
      BY <2>6 DEF CoreAnswers
    <3>3. CallMoves(call[d], after) \/ EnrollsAnew(call[d]) \/ RotatesTo(call[d])
      BY <1>0, <3>1, <3>2, CoreEffect DEF TypeOK
    <3> QED BY <2>2, <2>6, <3>1, <3>3, SecretUsedByCall DEF CoreAnswers
  <2>7. ASSUME NEW d \in Daemon, DaemonStep(d)
        PROVE  /\ UNCHANGED enrollment
               /\ strays' \in {strays} \cup {strays \cup {c} : c \in {x \in {call[d]} : call[d] # NoCall}}
    BY <2>7 DEF coreVars, DaemonStep, Start, Configure, KeepIdentity, FirstEnrollment, Reenrollment,
       EnterLoop, Rotate, Stop, FinalWeek, CallSucceeds, CallRefused, CallLost
  <2> QED BY <2>2, <2>4, <2>5, <2>6, <2>7 DEF Next, CoreHandlesStray, vars, coreVars, daemonVars
<1>3. ASSUME NEW d \in Daemon, FirstEnrollment(d)
      PROVE  /\ \A s \in Secret : enrollment'[s].cred # None =>
                     \E e \in Daemon : identity'[e].cred = enrollment'[s].cred
             /\ \A c \in strays' : \E e \in Daemon : identity'[e].cred = c.cred
  <2>1. /\ \A e \in Daemon : identity'[e] = IF e = d THEN [identity[e] EXCEPT !.cred = Candidate(d)] ELSE identity[e]
        /\ UNCHANGED <<enrollment, strays>>
    BY <1>0, <1>3 DEF FirstEnrollment, TypeOK, coreVars
  <2>2. /\ \A e \in Daemon : identity[e].enrolled = identity'[e].enrolled
        /\ \A e \in Daemon : identity[e].cred # None => identity'[e].cred = identity[e].cred
    BY <1>0, <2>1 DEF TypeOK, Candidate
  <2>3. \A c \in strays : c.cred # None
    BY <1>0, CallShape, CredentialBounds DEF TypeOK, Credential, None
  <2> QED BY <1>1, <2>1, <2>2, <2>3 DEF CandidatesKept, FirstSecretNotWasted, Enrolled
<1>4. ASSUME NEW d \in Daemon, CallSucceeds(d) PROVE FALSE
  BY <1>0, <1>1, <1>4 DEF CallSucceeds, TypeOK
<1> QED
  BY <1>2, <1>3, <1>4 DEF Next, vars, daemonVars, Administration, IssueEnrollment, EnrollmentExpires,
     Update, Revoke, RevokeGoesOn, Revokes, Delete, Lapses, CoreHandlesStray, CoreAnswers, DaemonStep,
     Start, Configure, KeepIdentity, Reenrollment, EnterLoop, Stop, FinalWeek, Rotate, CallRefused, CallLost

\* No lost answer, failed save or restart wastes the secret of a first
\* enrollment, for any number of daemons and secrets (FirstSecretNotWasted, the
\* candidate ensureIdentity saves before the call and Enroll's replay).
THEOREM FirstSecretCorrect == Spec => []FirstSecretNotWasted
<1>1. Init => CandidatesKept
  BY DEF Init, CandidatesKept, FirstSecretNotWasted
<1>2. IndInv /\ CandidatesKept /\ [Next]_vars => CandidatesKept'
  BY CandidatesStep
<1>3. CandidatesKept => FirstSecretNotWasted
  BY DEF CandidatesKept
<1> QED BY <1>1, <1>2, <1>3, IndInvCorrect, PTL DEF Spec
=============================================================================
