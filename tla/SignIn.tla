------------------------------- MODULE SignIn -------------------------------
(***************************************************************************)
(* One account: its password, its sessions and its two-step sign-in        *)
(* (src/src/accounts/users.rs, mfa.rs, store/postgres.rs).  A call is a     *)
(* request of a person or an admin; each of its calls of the account store *)
(* is one step, atomic on either store, and others' come in between.       *)
(* A call is made once, so what it makes (a password, a session, a pending *)
(* sign-in, a secret, recovery codes, an invite) is named for it.             *)
(***************************************************************************)
EXTENDS Integers, FiniteSets

CONSTANTS Calls,
          ForProviders, \* mfa.for_providers: whether sign-ins by a provider owe a code too
          Overlap,      \* bound: calls under way at once
          MaxTries,     \* MAX_FAILURES_PER_PENDING
          MaxFailures,  \* MAX_FAILURES_PER_ACCOUNT
          TotpSteps     \* bound: the 30-second steps whose codes are given

ASSUME SignInAssumption ==
    /\ ForProviders \in BOOLEAN
    /\ Overlap \in Nat /\ MaxTries \in Nat /\ MaxFailures \in Nat
    /\ TotpSteps \subseteq Nat \ {0}
    /\ {"nothing", "first", "held"} \intersect Calls = {}

VARIABLES required,  \* the site's policy requires two-step sign-in of the account
          password,  \* users.password_hash: who set it
          disabled,  \* users.disabled_at
          invite,      \* accounts.invites: the invite out for the account
          sessions,  \* accounts.sessions
          pendings,  \* accounts.mfa_pending
          mfa,       \* accounts.mfa
          recovery,  \* accounts.recovery_codes not yet used, one for each set made
          failures,  \* accounts.mfa_failures of the last 15 minutes: whose code each row counts
          calls,
          onBy,      \* history: the call that turned two-step sign-in on
          closed     \* history: calls that ended what the old password, or no code, had opened

accountVars == <<required, password, disabled, invite, mfa, recovery, failures, onBy>>
signInVars == <<accountVars, sessions, pendings, calls, closed>>

Nothing == "nothing"
First == "first"   \* what the account had to begin with
Held == "held"     \* the pending sign-in it began with
Names == Calls \union {Nothing, First, Held}

\* History of a sign-in: pw is the password there was when it began, past the
\* changes that it got past, as it was on its way when they ended what there was,
\* and free the two-step sign-in that was on when it was let by without a code.
Session == [id : Names, scope : {"site", "app"}, pw : Names, coded : BOOLEAN,
            past : SUBSET Calls, free : Names]
Pending == [id : Names, stage : {"code", "setup"}, tries : 0..MaxTries, pw : Names,
            past : SUBSET Calls, free : Names]
Mfa == [secret : Names, on : BOOLEAN, last : TotpSteps \union {0}, by : Names]
Proof == [secret : Names, step : TotpSteps \union {0}]
Call == [op : {"none", "login", "provider", "app", "change", "accept", "disable", "finish", "finishSetup",
               "begin", "confirm", "regenerate", "turnOff", "reset"},
         at : {"idle", "primary", "code", "setup", "active", "insert", "insertApp", "set", "sessions",
               "pendings", "ours", "try", "attempt", "read", "advance", "release", "enable", "codes",
               "delete", "drop", "begin", "remove", "done"},
         by : Names, pw : Names, coded : BOOLEAN, past : SUBSET Calls, free : Names,
         tries : 0..MaxTries, code : Proof, proof : Proof]

NoMfa == [secret |-> Nothing, on |-> FALSE, last |-> 0, by |-> Nothing]
NoProof == [secret |-> Nothing, step |-> 0]
NotMade == [op |-> "none", at |-> "idle", by |-> Nothing, pw |-> Nothing, coded |-> FALSE,
           past |-> {}, free |-> Nothing, tries |-> 0, code |-> NoProof, proof |-> NoProof]

SignInTypeOK ==
    /\ required \in BOOLEAN /\ disabled \in BOOLEAN
    /\ {password, invite, onBy} \subseteq Names
    /\ sessions \subseteq Session
    /\ pendings \subseteq Pending
    /\ mfa \in Mfa
    /\ recovery \subseteq Names
    /\ failures \subseteq Calls
    /\ calls \in [Calls -> Call]
    /\ closed \subseteq Names

\* An account with a session, with or without two-step sign-in, and a sign-in
\* that waits for its second step where one is owed.
SignInInit ==
    /\ required \in BOOLEAN
    /\ password = First
    /\ disabled = FALSE
    /\ invite = Nothing
    /\ mfa \in {NoMfa, [NoMfa EXCEPT !.secret = First, !.on = TRUE]}
    /\ recovery = IF mfa.on THEN {First} ELSE {}
    /\ sessions = {[id |-> First, scope |-> "site", pw |-> First, coded |-> mfa.on,
                     past |-> {}, free |-> Nothing]}
    /\ pendings = IF mfa.on \/ required
                  THEN {[id |-> Held, stage |-> IF mfa.on THEN "code" ELSE "setup",
                         tries |-> 0, pw |-> First, past |-> {}, free |-> Nothing]}
                  ELSE {}
    /\ failures = {}
    /\ calls = [c \in Calls |-> NotMade]
    /\ onBy = First
    /\ closed = {First}

-----------------------------------------------------------------------------
(* Calls.                                                                  *)

UnderWay == {c \in Calls : calls[c].at \notin {"idle", "done"}}

CallAt(c, at) == calls[c].at = at

CallBegins(c, op, at, by, pw, coded, past, free) ==
    /\ CallAt(c, "idle")
    /\ Cardinality(UnderWay) < Overlap
    /\ calls' = [calls EXCEPT ![c] =
                    [NotMade EXCEPT !.op = op, !.at = at, !.by = by, !.pw = pw,
                                    !.coded = coded, !.past = past, !.free = free]]

CallGoes(c, at) == calls' = [calls EXCEPT ![c].at = at]

\* Of a call that is over only the try it took and the code it was let in by matter.
Over(k) == [NotMade EXCEPT !.at = "done", !.proof = k.proof, !.tries = k.tries,
                           !.by = IF k.tries > 0 THEN k.by ELSE Nothing]

CallEnds(c) == calls' = [calls EXCEPT ![c] = Over(calls[c])]

GoesOrEnds(c, over, at) == IF over THEN CallEnds(c) ELSE CallGoes(c, at)

\* A call of one step.
AtOnce(c) ==
    /\ CallAt(c, "idle")
    /\ CallEnds(c)

SiteSession(k) == k \in sessions /\ k.scope = "site" /\ ~disabled

\* An error of the store, or a process that ends: what was done stays done.
BreaksOff(c) ==
    /\ c \in UnderWay
    /\ CallEnds(c)
    /\ UNCHANGED <<accountVars, sessions, pendings, closed>>

-----------------------------------------------------------------------------
(* The first proof and what follows it.                                    *)

\* check_password, with the right one.
LogIn(c) ==
    /\ ~disabled
    /\ CallBegins(c, "login", "primary", Nothing, password, FALSE, {}, Nothing)
    /\ UNCHANGED <<accountVars, sessions, pendings, closed>>

\* A provider answered for the account, whatever its password.
LogInByProvider(c) ==
    /\ ~disabled
    /\ CallBegins(c, "provider", "primary", Nothing, password, FALSE, {}, Nothing)
    /\ UNCHANGED <<accountVars, sessions, pendings, closed>>

Applies(c) == calls[c].op # "provider" \/ ForProviders

\* The one door.  A read that fails says that two-step sign-in is off.
AfterPrimary(c) ==
    /\ CallAt(c, "primary")
    /\ \/ Applies(c) /\ mfa.on /\ CallGoes(c, "code")
       \/ calls' = [calls EXCEPT ![c].at = IF Applies(c) /\ required THEN "setup" ELSE "active",
                                 ![c].free = IF mfa.on THEN onBy ELSE Nothing]
    /\ UNCHANGED <<accountVars, sessions, pendings, closed>>

NewPending(c) ==
    /\ calls[c].at \in {"code", "setup"}
    /\ pendings' = pendings \union
          {[id |-> c, stage |-> calls[c].at, tries |-> 0, pw |-> calls[c].pw,
            past |-> calls[c].past, free |-> calls[c].free]}
    /\ CallEnds(c)
    /\ UNCHANGED <<accountVars, sessions, closed>>

\* start_session reads is_active, and then inserts.
IsActive(c) ==
    /\ CallAt(c, "active")
    /\ GoesOrEnds(c, disabled, "insert")
    /\ UNCHANGED <<accountVars, sessions, pendings, closed>>

InsertSession(c) ==
    /\ calls[c].at \in {"insert", "insertApp"}
    /\ sessions' = sessions \union
          {[id |-> c, scope |-> IF CallAt(c, "insert") THEN "site" ELSE "app",
            pw |-> calls[c].pw, coded |-> calls[c].coded, past |-> calls[c].past, free |-> calls[c].free]}
    /\ CallEnds(c)
    /\ UNCHANGED <<accountVars, pendings, closed>>

CreateAppSession(c, k) ==
    /\ SiteSession(k)
    /\ CallBegins(c, "app", "insertApp", k.id, k.pw, k.coded, k.past, k.free)
    /\ UNCHANGED <<accountVars, sessions, pendings, closed>>

\* end_session: a site session, and every app session of the account.
LogOut(c, k) ==
    /\ SiteSession(k)
    /\ AtOnce(c)
    /\ sessions' = {s \in sessions \ {k} : s.scope = "site"}
    /\ UNCHANGED <<accountVars, pendings, closed>>

-----------------------------------------------------------------------------
(* Changes of the password and of the account.                             *)

\* change_password: the hash is read and the current password is right.
ChangePassword(c, k) ==
    /\ SiteSession(k)
    /\ CallBegins(c, "change", "set", k.id, Nothing, FALSE, {}, Nothing)
    /\ UNCHANGED <<accountVars, sessions, pendings, closed>>

\* accept_invite: the invite is taken in one conditional write.
AcceptInvite(c) ==
    /\ invite # Nothing
    /\ ~disabled
    /\ CallBegins(c, "accept", "set", Nothing, Nothing, FALSE, {}, Nothing)
    /\ invite' = Nothing
    /\ UNCHANGED <<required, password, disabled, mfa, recovery, failures, onBy, sessions, pendings, closed>>

SetPasswordHash(c) ==
    /\ CallAt(c, "set")
    /\ password' = c
    /\ calls' = [calls EXCEPT ![c].at = "sessions", ![c].pw = c]
    /\ UNCHANGED <<required, disabled, invite, mfa, recovery, failures, onBy, sessions, pendings, closed>>

\* Mutant: a setup at the door leaves what was signed in.
KeptAtTheDoor(c, s) == calls[c].op = "finishSetup" \/ s.id = calls[c].by

\* The session a change leaves signed in.
Kept(c, s) == calls[c].op \in {"change", "confirm"} /\ s.id = calls[c].by

\* What is on its way when sessions are ended gets past it.
GetPast(c) == [d \in Calls |-> IF d \in UnderWay THEN [calls[d] EXCEPT !.past = @ \union {c}] ELSE calls[d]]

DeleteSessionsFor(c) ==
    /\ CallAt(c, "sessions")
    /\ sessions' = {IF s.id = calls[c].by THEN [s EXCEPT !.past = @ \union {c}] ELSE s :
                         s \in {t \in sessions : Kept(c, t)}}
    /\ IF calls[c].op \in {"reset", "disable"}
       THEN CallEnds(c)
       ELSE calls' = [GetPast(c) EXCEPT ![c] = [calls[c] EXCEPT !.at = "pendings"]]
    /\ UNCHANGED <<accountVars, pendings, closed>>

\* Mutant: a sign-in that waits for its second step is left to finish.
LeavePending == pendings

DeletePendingFor == {}

\* What follows an accepted invite is after_primary's call.
EndPendings(c) ==
    /\ CallAt(c, "pendings")
    /\ pendings' = DeletePendingFor
    /\ closed' = closed \union {c}
    /\ GoesOrEnds(c, calls[c].op \in {"change", "confirm"},
                  IF calls[c].op = "accept" THEN "primary" ELSE "delete")
    /\ UNCHANGED <<accountVars, sessions>>

\* set_active.  A session of a disabled account opens nothing: SiteSession.
Disable(c) ==
    /\ CallBegins(c, "disable", "sessions", Nothing, Nothing, FALSE, {}, Nothing)
    /\ disabled' = TRUE
    /\ UNCHANGED <<required, password, invite, mfa, recovery, failures, onBy, sessions, pendings, closed>>

Restore(c) ==
    /\ AtOnce(c)
    /\ disabled' = FALSE
    /\ UNCHANGED <<required, password, invite, mfa, recovery, failures, onBy, sessions, pendings, closed>>

Reinvite(c) ==
    /\ AtOnce(c)
    /\ invite' = c
    /\ UNCHANGED <<required, password, disabled, mfa, recovery, failures, onBy, sessions, pendings, closed>>

-----------------------------------------------------------------------------
(* A code: its tries, its check and its spending.                          *)

\* Changes that have ended sessions, and not the pending sign-ins yet.
HalfWay == {c \in Calls : calls[c].at = "pendings"}

\* finish_with_code loads the pending sign-in.
FinishWithCode(c, p) ==
    /\ p \in pendings /\ p.stage = "code"
    /\ ~disabled
    /\ CallBegins(c, "finish", "try", p.id, p.pw, TRUE, p.past \union HalfWay, Nothing)
    /\ UNCHANGED <<accountVars, sessions, pendings, closed>>

\* finish_setup asks besides whether the setup is still the one it showed.
FinishSetup(c, p) ==
    /\ p \in pendings /\ p.stage = "setup"
    /\ ~disabled
    /\ CallBegins(c, "finishSetup", "ours", p.id, p.pw, TRUE, p.past \union HalfWay, Nothing)
    /\ UNCHANGED <<accountVars, sessions, pendings, closed>>

SetupBy(by) == ~mfa.on /\ mfa.secret # Nothing /\ mfa.by = by

StillOurs(c) ==
    /\ CallAt(c, "ours") /\ calls[c].op = "finishSetup"
    /\ CallGoes(c, IF SetupBy(calls[c].by) THEN "try" ELSE "drop")
    /\ UNCHANGED <<accountVars, sessions, pendings, closed>>

\* Mutant: any try is let through.
TryAnyway(p) == TRUE

TryLeft(p) == p.tries < MaxTries

\* take_try counts and asks in one conditional update.
TakeTry(c) ==
    /\ CallAt(c, "try")
    /\ LET mine == {p \in pendings : p.id = calls[c].by /\ TryLeft(p)}
           counted == {[p EXCEPT !.tries = @ + 1] : p \in mine}
       IN  IF mine = {}
           THEN CallGoes(c, "drop") /\ UNCHANGED pendings
           ELSE \E p \in counted :
                   /\ pendings' = (pendings \ mine) \union counted
                   /\ calls' = [calls EXCEPT ![c].tries = p.tries,
                                           ![c].at = IF calls[c].op = "finish" THEN "attempt" ELSE "read"]
    /\ UNCHANGED <<accountVars, sessions, closed>>

\* take_attempt counts the code against the account, whose row is the turn.
TakeAttempt(c) ==
    /\ CallAt(c, "attempt")
    /\ IF Cardinality(failures) < MaxFailures
       THEN CallGoes(c, "read") /\ failures' = failures \union {c}
       ELSE CallEnds(c) /\ UNCHANGED failures
    /\ UNCHANGED <<required, password, disabled, invite, mfa, recovery, onBy, sessions, pendings, closed>>

\* A wrong code ends the pending sign-in if the try was its last.
AfterWrong(c) ==
    GoesOrEnds(c, calls[c].tries < MaxTries, "drop")

Enabled(c) == calls[c].op \in {"finish", "turnOff", "regenerate"}

\* accept: the secret is read, and the code matches a step later than the last.
ReadSecret(c) ==
    /\ CallAt(c, "read")
    /\ \/ AfterWrong(c)
       \/ /\ IF Enabled(c) THEN mfa.on ELSE SetupBy(calls[c].by)
          /\ \E t \in TotpSteps :
                /\ t > mfa.last
                /\ calls' = [calls EXCEPT ![c].at = "advance", ![c].code = [secret |-> mfa.secret, step |-> t]]
    /\ UNCHANGED <<accountVars, sessions, pendings, closed>>

\* An error of the check takes the count back.
CheckFails(c) ==
    /\ calls[c].at \in {"read", "advance"}
    /\ c \in failures
    /\ failures' = failures \ {c}
    /\ CallEnds(c)
    /\ UNCHANGED <<required, password, disabled, invite, mfa, recovery, onBy, sessions, pendings, closed>>

AfterAccepted(c, code) ==
    calls' = [calls EXCEPT ![c].at = IF Enabled(c) THEN "release" ELSE "enable", ![c].proof = code]

\* Mutant: the step is written without asking for the last.
LaterAnyway(step) == TRUE

Later(step) == mfa.last < step

AdvanceStep(c) ==
    /\ CallAt(c, "advance")
    /\ IF mfa.secret # Nothing /\ Later(calls[c].code.step)
       THEN mfa' = [mfa EXCEPT !.last = calls[c].code.step] /\ AfterAccepted(c, calls[c].code)
       ELSE AfterWrong(c) /\ UNCHANGED mfa
    /\ UNCHANGED <<required, password, disabled, invite, recovery, failures, onBy, sessions, pendings, closed>>

SpendRecoveryCode(c, r) ==
    /\ CallAt(c, "read") /\ calls[c].op \in {"finish", "turnOff"}
    /\ r \in recovery
    /\ recovery' = recovery \ {r}
    /\ AfterAccepted(c, [secret |-> r, step |-> 0])
    /\ UNCHANGED <<required, password, disabled, invite, mfa, failures, onBy, sessions, pendings, closed>>

\* A count that cannot be taken back stays, and the call goes on.
ReleaseAttempt(c) ==
    /\ CallAt(c, "release")
    /\ failures' \in {failures, failures \ {c}}
    /\ CallGoes(c, IF calls[c].op = "finish" THEN "delete"
                   ELSE IF calls[c].op = "turnOff" THEN "remove" ELSE "codes")
    /\ UNCHANGED <<required, password, disabled, invite, mfa, recovery, onBy, sessions, pendings, closed>>

\* delete_pending: after a good code the session follows, after the last try nothing does.
DeletePending(c) ==
    /\ calls[c].at \in {"delete", "drop"}
    /\ pendings' = {p \in pendings : p.id # calls[c].by}
    /\ GoesOrEnds(c, CallAt(c, "drop"), "active")
    /\ UNCHANGED <<accountVars, sessions, closed>>

-----------------------------------------------------------------------------
(* Turning two-step sign-in on and off.                                    *)

\* begin_setup from a site session, or from a sign-in the policy holds.
BeginSetup(c, by) ==
    /\ ~mfa.on
    /\ CallBegins(c, "begin", "ours", by, Nothing, FALSE, {}, Nothing)
    /\ UNCHANGED <<accountVars, sessions, pendings, closed>>

SetupSecret(c) ==
    /\ CallAt(c, "ours") /\ calls[c].op = "begin"
    /\ GoesOrEnds(c, SetupBy(calls[c].by), "begin")
    /\ UNCHANGED <<accountVars, sessions, pendings, closed>>

BeginMfa(c) ==
    /\ CallAt(c, "begin")
    /\ mfa' = IF mfa.on THEN mfa ELSE [secret |-> c, on |-> FALSE, last |-> 0, by |-> calls[c].by]
    /\ CallEnds(c)
    /\ UNCHANGED <<required, password, disabled, invite, recovery, failures, onBy, sessions, pendings, closed>>

CancelSetup(c, k) ==
    /\ SiteSession(k)
    /\ AtOnce(c)
    /\ mfa' = IF mfa.on THEN mfa ELSE NoMfa
    /\ UNCHANGED <<required, password, disabled, invite, recovery, failures, onBy, sessions, pendings, closed>>

ConfirmSetup(c, k) ==
    /\ SiteSession(k)
    /\ CallBegins(c, "confirm", "read", k.id, Nothing, FALSE, {}, Nothing)
    /\ UNCHANGED <<accountVars, sessions, pendings, closed>>

EnableMfa(c) ==
    /\ CallAt(c, "enable")
    /\ IF mfa.secret # Nothing /\ ~mfa.on
       THEN /\ mfa' = [mfa EXCEPT !.on = TRUE, !.by = Nothing]
            /\ onBy' = c
            /\ CallGoes(c, "codes")
       ELSE CallEnds(c) /\ UNCHANGED <<mfa, onBy>>
    /\ UNCHANGED <<required, password, disabled, invite, recovery, failures, sessions, pendings, closed>>

ReplaceRecoveryCodes(c) ==
    /\ CallAt(c, "codes")
    /\ recovery' = {c}
    /\ GoesOrEnds(c, calls[c].op = "regenerate", "sessions")
    /\ UNCHANGED <<required, password, disabled, invite, mfa, failures, onBy, sessions, pendings, closed>>

\* regenerate_recovery_codes, and turn_off where the policy lets it be.
AskForCode(c, k, op) ==
    /\ SiteSession(k)
    /\ mfa.on
    /\ op = "regenerate" \/ (op = "turnOff" /\ ~required)
    /\ CallBegins(c, op, "attempt", k.id, Nothing, FALSE, {}, Nothing)
    /\ UNCHANGED <<accountVars, sessions, pendings, closed>>

Reset(c) ==
    /\ CallBegins(c, "reset", "remove", Nothing, Nothing, FALSE, {}, Nothing)
    /\ UNCHANGED <<accountVars, sessions, pendings, closed>>

RemoveMfa(c) ==
    /\ CallAt(c, "remove")
    /\ mfa' = NoMfa
    /\ recovery' = {}
    /\ pendings' = {}
    /\ GoesOrEnds(c, calls[c].op = "turnOff", "sessions")
    /\ UNCHANGED <<required, password, disabled, invite, failures, onBy, sessions, closed>>

-----------------------------------------------------------------------------
(* Time.                                                                   *)

SessionLapses(s) ==
    /\ s \in sessions
    /\ sessions' = sessions \ {s}
    /\ UNCHANGED <<accountVars, pendings, calls, closed>>

PendingLapses(p) ==
    /\ p \in pendings
    /\ pendings' = pendings \ {p}
    /\ UNCHANGED <<accountVars, sessions, calls, closed>>

AttemptLapses(c) ==
    /\ c \in failures
    /\ failures' = failures \ {c}
    /\ UNCHANGED <<required, password, disabled, invite, mfa, recovery, onBy, sessions, pendings, calls, closed>>

-----------------------------------------------------------------------------

StoreStep(c) ==
    \/ AfterPrimary(c) \/ NewPending(c) \/ IsActive(c) \/ InsertSession(c)
    \/ SetPasswordHash(c) \/ DeleteSessionsFor(c) \/ EndPendings(c)
    \/ StillOurs(c) \/ TakeTry(c) \/ TakeAttempt(c) \/ ReadSecret(c) \/ CheckFails(c) \/ AdvanceStep(c)
    \/ \E r \in recovery : SpendRecoveryCode(c, r)
    \/ ReleaseAttempt(c) \/ DeletePending(c)
    \/ SetupSecret(c) \/ BeginMfa(c) \/ EnableMfa(c) \/ ReplaceRecoveryCodes(c) \/ RemoveMfa(c)
    \/ BreaksOff(c)

Asked(c) ==
    \/ LogIn(c) \/ LogInByProvider(c) \/ AcceptInvite(c) \/ Disable(c) \/ Restore(c) \/ Reinvite(c) \/ Reset(c)
    \/ \E k \in sessions :
          \/ CreateAppSession(c, k) \/ LogOut(c, k) \/ ChangePassword(c, k)
          \/ CancelSetup(c, k) \/ ConfirmSetup(c, k)
          \/ SiteSession(k) /\ BeginSetup(c, k.id)
          \/ \E op \in {"regenerate", "turnOff"} : AskForCode(c, k, op)
    \/ \E p \in pendings :
          \/ FinishWithCode(c, p) \/ FinishSetup(c, p)
          \/ p.stage = "setup" /\ BeginSetup(c, p.id)

SignInNext ==
    \/ \E c \in Calls : Asked(c) \/ StoreStep(c)
    \/ \E s \in sessions : SessionLapses(s)
    \/ \E p \in pendings : PendingLapses(p)
    \/ \E c \in Calls : AttemptLapses(c)

SignInSpec == SignInInit /\ [][SignInNext]_signInVars

-----------------------------------------------------------------------------

\* users.rs:375-378, 1961-1963: once a change of password has been answered,
\* nothing opened before it is left, by whatever door, a sign-in that waits for
\* its code included: but the session that made the change, and what was on its
\* way when sessions were ended, which the code does not ask about the password
\* again.  Of what the change did before an error no more is claimed.
ClosedWithItsPassword ==
    password \in closed =>
        \A s \in sessions \union pendings : s.pw = password \/ password \in s.past

\* mfa.rs:419-422, "whatever was signed in without a code now has to sign in with
\* one": once two-step sign-in has been turned on, every session is of a code, but
\* the one that confirmed it, what was on its way when sessions were ended, and
\* what was let by since: a provider's sign-in that owes none (mfa.rs:522), or a
\* sign-in whose read of it failed.
ClosedWithoutACode ==
    mfa.on /\ onBy \in closed =>
        /\ \A s \in sessions : s.coded \/ onBy \in s.past \/ s.free = onBy
        /\ \A p \in pendings : p.stage = "code" \/ onBy \in p.past \/ p.free = onBy

\* mfa.rs:298-300, "two requests racing with the same code cannot both get in":
\* no two calls are let in by one code of the secret that is on, nor ever by one
\* recovery code.
CodesOpenOnce ==
    \A c, d \in Calls :
        c # d /\ calls[c].proof = calls[d].proof /\ calls[c].proof # NoProof =>
            /\ calls[c].proof.step # 0
            /\ ~(mfa.on /\ mfa.secret = calls[c].proof.secret)

\* mfa.rs:599-601, "codes sent at once cannot all be checked": of the codes sent
\* for one sign-in no more are checked than it has tries.
TriesAreCounted ==
    \A by \in Names :
        Cardinality({c \in Calls : calls[c].by = by /\ calls[c].tries > 0}) <= MaxTries

=============================================================================
