--------------------------- MODULE AccountsProofs ---------------------------
(* Proofs about one account, for any calls, tries, failures and steps of    *)
(* codes; and about the repository an app's source is kept in, for any      *)
(* requests and number of pushes.                                           *)
EXTENDS SignIn, Mirror, FiniteSetTheorems, TLAPS

\* Where a call of each kind may be.
OnCourse(k) ==
    /\ k.op = "none" <=> k.at \in {"idle", "done"}
    /\ k.op \in {"login", "provider"} => k.at \in {"primary", "code", "setup", "active", "insert"}
    /\ k.op = "app" => k.at = "insertApp"
    /\ k.op = "change" => k.at \in {"set", "sessions", "pendings"}
    /\ k.op = "accept" => k.at \in {"set", "sessions", "pendings", "primary", "code", "setup", "active", "insert"}
    /\ k.op = "disable" => k.at = "sessions"
    /\ k.op = "finish" => k.at \in {"try", "attempt", "read", "advance", "release", "delete", "drop", "active", "insert"}
    /\ k.op = "finishSetup" => k.at \in {"ours", "try", "read", "advance", "enable", "codes", "sessions", "pendings",
                                         "delete", "drop", "active", "insert"}
    /\ k.op = "begin" => k.at \in {"ours", "begin"}
    /\ k.op = "confirm" => k.at \in {"read", "advance", "enable", "codes", "sessions", "pendings", "drop"}
    /\ k.op = "regenerate" => k.at \in {"attempt", "read", "advance", "release", "codes", "drop"}
    /\ k.op = "turnOff" => k.at \in {"attempt", "read", "advance", "release", "remove", "drop"}
    /\ k.op = "reset" => k.at \in {"remove", "sessions"}

AllOnCourse == \A c \in Calls : OnCourse(calls[c])

\* What a call makes is named for it, and is made as it ends.
IdsMade ==
    \A e \in Calls : calls[e].at # "done" =>
        /\ \A s \in sessions \union pendings : s.id # e
        /\ \A d \in Calls : calls[d].by # e

PendingsApart == \A p, q \in pendings : p.id = q.id => p = q

Tried(by) == {c \in Calls : calls[c].by = by /\ calls[c].tries > 0}

\* A pending sign-in counts the tries its codes have taken.
TriesOnPending ==
    /\ \A by \in Names : IsFiniteSet(Tried(by)) /\ Cardinality(Tried(by)) <= MaxTries
    /\ \A p \in pendings : Cardinality(Tried(p.id)) <= p.tries

TriesInv == IdsMade /\ PendingsApart /\ TriesOnPending

-----------------------------------------------------------------------------

\* A secret is made once, by a begin of setup; nothing was read of it before.
SecretsMade ==
    /\ mfa.on => mfa.secret # Nothing
    /\ \A d \in Calls :
          /\ calls[d].code.step # 0 => calls[d].code.secret # Nothing
          /\ calls[d].proof.step # 0 => calls[d].proof.secret # Nothing
    /\ \A e \in Calls : calls[e].at \in {"idle", "ours", "begin"} =>
          /\ mfa.secret # e
          /\ \A d \in Calls :
                /\ calls[d].code.step # 0 => calls[d].code.secret # e
                /\ calls[d].proof.step # 0 => calls[d].proof.secret # e

BeforeCodes == {"idle", "ours", "try", "attempt", "read", "advance", "release", "enable", "codes"}

\* A set of recovery codes is made once, and a code that was spent is in none.
RecoveryMade ==
    /\ Nothing \notin recovery
    /\ \A d \in Calls : calls[d].proof.step = 0 => calls[d].proof.secret \notin recovery
    /\ \A e \in Calls : calls[e].at \in BeforeCodes =>
          /\ e \notin recovery
          /\ \A d \in Calls : calls[d].proof.step = 0 => calls[d].proof.secret # e

\* The last step is no earlier than that of any code taken.
LastIsLatest ==
    \A c \in Calls :
        calls[c].proof.step # 0 /\ calls[c].proof.secret = mfa.secret => calls[c].proof.step <= mfa.last

ProofsApart ==
    \A c, d \in Calls :
        c # d /\ calls[c].proof = calls[d].proof /\ calls[c].proof # NoProof =>
            calls[c].proof.step # 0 /\ calls[c].proof.secret # mfa.secret

CodesInv == SecretsMade /\ RecoveryMade /\ LastIsLatest /\ ProofsApart

-----------------------------------------------------------------------------

AfterClosing == {"primary", "code", "setup", "active", "insert", "delete", "done"}

\* What a change does it does before it is counted closed.
ClosedIsDone ==
    \A c \in Calls : c \in closed =>
        calls[c].at \in AfterClosing

PasswordByItsCall ==
    /\ password \in Calls => calls[password].op \in {"change", "accept"} \/ calls[password].at = "done"
    /\ \A c \in Calls : calls[c].op \in {"change", "accept"} /\ calls[c].at # "set" => calls[c].pw = c

OfPassword(s) == s.pw = password \/ password \in s.past

\* A call that may yet open something.
Opens(k) ==
    \/ k.op \in {"login", "provider", "app", "finish", "finishSetup"}
    \/ k.op = "accept" /\ k.at # "set"

\* The call has ended the sessions there were.
Ended(c) == c \in closed \/ (c \in Calls /\ calls[c].at = "pendings")

\* ClosedWithItsPassword, of sessions as soon as they were ended, and already of
\* what is to be opened.
PasswordMet ==
    /\ Ended(password) =>
          /\ \A s \in sessions : OfPassword(s)
          /\ \A d \in Calls : Opens(calls[d]) => OfPassword(calls[d])
    /\ password \in closed => \A p \in pendings : OfPassword(p)

CodedWhenFinished == \A c \in Calls : calls[c].op \in {"finish", "finishSetup"} => calls[c].coded

\* It got past the call that turned two-step sign-in on, or was let by since.
LetBy(s) == onBy \in s.past \/ s.free = onBy

WithCode(s) == s.coded \/ LetBy(s)

\* ClosedWithoutACode, in the same way.
CodeMet ==
    /\ mfa.on /\ Ended(onBy) =>
          /\ \A s \in sessions : WithCode(s)
          /\ \A d \in Calls :
                /\ calls[d].at \in {"active", "insert", "insertApp"} => WithCode(calls[d])
                /\ calls[d].at = "setup" => LetBy(calls[d])
    /\ mfa.on /\ onBy \in closed => \A p \in pendings : p.stage = "code" \/ LetBy(p)

ClosedInv ==
    /\ ClosedIsDone /\ PasswordByItsCall /\ PasswordMet /\ CodedWhenFinished /\ CodeMet

SignInInv == SignInTypeOK /\ AllOnCourse /\ TriesInv /\ CodesInv /\ ClosedInv

-----------------------------------------------------------------------------
(* What the helpers of the model do.                                          *)

LEMMA NamesFacts ==
    /\ Nothing \in Names /\ First \in Names /\ Held \in Names /\ Calls \subseteq Names
    /\ Nothing \notin Calls /\ First \notin Calls /\ Held \notin Calls
    /\ Nothing # First /\ Nothing # Held /\ First # Held
BY SignInAssumption DEF Names, Nothing, First, Held

LEMMA NoProofType == NoProof \in Proof /\ NoProof.step = 0 /\ NoProof.secret = Nothing
BY NamesFacts DEF NoProof, Proof

LEMMA NoMfaType == NoMfa \in Mfa /\ NoMfa.secret = Nothing /\ ~NoMfa.on
<1> DEFINE no == FALSE
<1>1. no \in BOOLEAN /\ NoMfa = [secret |-> Nothing, on |-> no, last |-> 0, by |-> Nothing]
  BY DEF NoMfa
<1> QED
  <2>1. [secret |-> Nothing, on |-> no, last |-> 0, by |-> Nothing] \in Mfa
    <3> HIDE DEF no
    <3> QED
      BY <1>1, NamesFacts DEF Mfa
  <2> QED
    BY <1>1, <2>1

LEMMA NotMadeType ==
    /\ NotMade \in Call /\ NotMade.op = "none" /\ NotMade.at = "idle" /\ NotMade.by = Nothing
    /\ NotMade.tries = 0 /\ NotMade.code = NoProof /\ NotMade.proof = NoProof
<1> DEFINE no == FALSE
           none == {}
<1>1. /\ no \in BOOLEAN /\ none \in SUBSET Calls /\ 0 \in 0..MaxTries
      /\ NotMade = [op |-> "none", at |-> "idle", by |-> Nothing, pw |-> Nothing, coded |-> no,
                    past |-> none, free |-> Nothing, tries |-> 0, code |-> NoProof, proof |-> NoProof]
  BY SignInAssumption DEF NotMade
<1> QED
  <2> HIDE DEF no, none
  <2> QED
    BY <1>1, NamesFacts, NoProofType DEF Call

LEMMA CallFields ==
    ASSUME SignInTypeOK, NEW c \in Calls
    PROVE  /\ calls[c] \in Call /\ calls \in [Calls -> Call]
           /\ calls[c].by \in Names /\ calls[c].pw \in Names /\ calls[c].coded \in BOOLEAN
           /\ calls[c].past \subseteq Calls /\ calls[c].free \in Names /\ calls[c].tries \in 0..MaxTries
           /\ calls[c].code \in Proof /\ calls[c].proof \in Proof
BY DEF SignInTypeOK, Call

Ats == {"idle", "primary", "code", "setup", "active", "insert", "insertApp", "set", "sessions",
        "pendings", "ours", "try", "attempt", "read", "advance", "release", "enable", "codes",
        "delete", "drop", "begin", "remove", "done"}

\* A call that goes on is where it was led, and else as it was.
LEMMA GoesFacts ==
    ASSUME SignInTypeOK, NEW c \in Calls, NEW at \in Ats, CallGoes(c, at)
    PROVE  /\ calls' \in [Calls -> Call] /\ \A d \in Calls : d # c => calls'[d] = calls[d]
           /\ calls'[c].at = at /\ calls'[c].op = calls[c].op /\ calls'[c].by = calls[c].by
           /\ calls'[c].pw = calls[c].pw /\ calls'[c].coded = calls[c].coded
           /\ calls'[c].past = calls[c].past /\ calls'[c].tries = calls[c].tries
           /\ calls'[c].free = calls[c].free
           /\ calls'[c].code = calls[c].code /\ calls'[c].proof = calls[c].proof
<1> DEFINE k == [calls[c] EXCEPT !.at = at]
<1>1. /\ k \in Call /\ k.at = at /\ k.op = calls[c].op /\ k.by = calls[c].by
      /\ k.pw = calls[c].pw /\ k.coded = calls[c].coded /\ k.past = calls[c].past
      /\ k.tries = calls[c].tries /\ k.code = calls[c].code /\ k.proof = calls[c].proof
      /\ k.free = calls[c].free
  BY CallFields DEF Call, Ats
<1>2. calls' = [calls EXCEPT ![c] = k] /\ calls \in [Calls -> Call]
  BY CallFields DEF CallGoes
<1> QED
  <2> HIDE DEF k
  <2> QED
    BY <1>1, <1>2

LEMMA EndsFacts ==
    ASSUME SignInTypeOK, NEW c \in Calls, CallEnds(c)
    PROVE  /\ calls' \in [Calls -> Call] /\ \A d \in Calls : d # c => calls'[d] = calls[d]
           /\ calls'[c].op = "none" /\ calls'[c].at = "done"
           /\ calls'[c].by \in {calls[c].by, Nothing}
           /\ calls'[c].tries = calls[c].tries
           /\ calls'[c].tries > 0 => calls'[c].by = calls[c].by
           /\ calls'[c].code = NoProof /\ calls'[c].proof = calls[c].proof
<1> DEFINE by == IF calls[c].tries > 0 THEN calls[c].by ELSE Nothing
           k == [NotMade EXCEPT !.at = "done", !.proof = calls[c].proof,
                                !.tries = calls[c].tries, !.by = by]
<1>1. by \in Names
  BY CallFields, NamesFacts
<1>2. /\ k \in Call /\ k.at = "done" /\ k.op = "none" /\ k.by = by /\ k.tries = calls[c].tries
      /\ k.code = NoProof /\ k.proof = calls[c].proof
  <2> HIDE DEF by
  <2> QED
    BY <1>1, CallFields, NotMadeType DEF Call
<1>3. calls' = [calls EXCEPT ![c] = k] /\ calls \in [Calls -> Call]
  BY CallFields DEF CallEnds, Over
<1>4. /\ calls' \in [Calls -> Call] /\ calls'[c] = k
      /\ \A d \in Calls : d # c => calls'[d] = calls[d]
  <2> HIDE DEF k
  <2> QED
    BY <1>2, <1>3
<1> QED
  <2> HIDE DEF k
  <2> QED
    BY <1>2, <1>4

Ops == {"none", "login", "provider", "app", "change", "accept", "disable", "finish", "finishSetup",
        "begin", "confirm", "regenerate", "turnOff", "reset"}

-----------------------------------------------------------------------------
(* Steps that do no more to the tries, the codes, or what is opened, than      *)
(* every step may.                                                            *)

TriesQuiet ==
    /\ \A d \in Calls : calls[d].at = "done" => calls'[d].at = "done"
    /\ \A d \in Calls :
          \/ calls'[d].by \in {calls[d].by, Nothing}
          \/ \E s \in sessions \union pendings : calls'[d].by = s.id
    /\ \A d \in Calls :
          calls'[d].tries > 0 => calls'[d].tries = calls[d].tries /\ calls'[d].by = calls[d].by
    /\ pendings' \subseteq pendings
    /\ \A s \in sessions' :
          \/ \E t \in sessions : t.id = s.id
          \/ s.id \in Calls => calls'[s.id].at = "done"

\* What every step does to the names.
IdsStep ==
    /\ \A d \in Calls : calls[d].at = "done" => calls'[d].at = "done"
    /\ \A d \in Calls :
          \/ calls'[d].by \in {calls[d].by, Nothing}
          \/ \E s \in sessions \union pendings : calls'[d].by = s.id
    /\ \A s \in sessions' \union pendings' :
          \/ \E t \in sessions \union pendings : t.id = s.id
          \/ s.id \in Calls => calls'[s.id].at = "done"

LEMMA IdsStepKeeps ==
    ASSUME IdsMade, IdsStep
    PROVE  IdsMade'
<1> SUFFICES ASSUME NEW e \in Calls, calls'[e].at # "done"
             PROVE  /\ \A s \in sessions' \union pendings' : s.id # e
                    /\ \A d \in Calls : calls'[d].by # e
  BY DEF IdsMade
<1>1. /\ calls[e].at # "done"
      /\ \A s \in sessions \union pendings : s.id # e
      /\ \A d \in Calls : calls[d].by # e
  BY DEF IdsMade, IdsStep
<1>2. \A s \in sessions' \union pendings' : s.id # e
  BY <1>1 DEF IdsStep
<1>3. \A d \in Calls : calls'[d].by # e
  BY <1>1, NamesFacts DEF IdsStep
<1> QED
  BY <1>2, <1>3

LEMMA TriesQuietKeeps ==
    ASSUME SignInTypeOK, TriesInv, TriesQuiet
    PROVE  TriesInv'
<1> DEFINE TriedNext(by) == {c \in Calls : calls'[c].by = by /\ calls'[c].tries > 0}
<1>1. IdsMade'
  <2>1. IdsStep
    BY DEF TriesQuiet, IdsStep
  <2> QED
    BY <2>1, IdsStepKeeps DEF TriesInv
<1>2. PendingsApart'
  BY DEF TriesInv, PendingsApart, TriesQuiet
<1>3. ASSUME NEW by \in Names
      PROVE  /\ IsFiniteSet(TriedNext(by)) /\ Cardinality(TriedNext(by)) <= MaxTries
             /\ Cardinality(TriedNext(by)) <= Cardinality(Tried(by))
             /\ Cardinality(TriedNext(by)) \in Nat
  <2>1. TriedNext(by) \subseteq Tried(by)
    BY DEF Tried, TriesQuiet
  <2>2. IsFiniteSet(Tried(by)) /\ Cardinality(Tried(by)) <= MaxTries
    BY DEF TriesInv, TriesOnPending
  <2>3. Cardinality(Tried(by)) \in Nat /\ Cardinality(TriedNext(by)) \in Nat
        /\ IsFiniteSet(TriedNext(by)) /\ Cardinality(TriedNext(by)) <= Cardinality(Tried(by))
    BY <2>1, <2>2, FS_Subset, FS_CardinalityType
  <2> QED
    BY <2>2, <2>3, SignInAssumption
<1>4. ASSUME NEW p \in pendings' PROVE Cardinality(TriedNext(p.id)) <= p.tries
  <2>1. p \in pendings /\ p.id \in Names /\ p.tries \in Nat
    BY SignInAssumption DEF TriesQuiet, SignInTypeOK, Pending
  <2>2. Cardinality(Tried(p.id)) <= p.tries /\ Cardinality(Tried(p.id)) \in Nat
    BY <2>1, FS_CardinalityType DEF TriesInv, TriesOnPending
  <2> HIDE DEF TriedNext
  <2> QED
    BY <1>3, <2>1, <2>2
<1>5. TriesOnPending'
  BY <1>3, <1>4 DEF TriesOnPending, Tried
<1> QED
  BY <1>1, <1>2, <1>5 DEF TriesInv

CodesQuiet ==
    /\ \A d \in Calls :
          /\ calls'[d].code \in {calls[d].code, NoProof}
          /\ calls'[d].proof \in {calls[d].proof, NoProof}
          /\ calls'[d].at \in {"idle", "ours", "begin"} => calls[d].at \in {"idle", "ours", "begin"}
          /\ calls'[d].at \in BeforeCodes => calls[d].at \in BeforeCodes
    /\ \/ recovery' \subseteq recovery
       \/ \E c \in Calls : recovery' = {c} /\ calls[c].at \in BeforeCodes /\ calls'[c].at \notin BeforeCodes
    /\ \/ mfa'.secret = mfa.secret /\ mfa'.last = mfa.last /\ (mfa'.on => mfa.secret # Nothing)
       \/ mfa'.secret = Nothing /\ ~mfa'.on
       \/ \E c \in Calls :
             /\ mfa'.secret = c /\ ~mfa'.on
             /\ calls[c].at = "begin" /\ calls'[c].at \notin {"idle", "ours", "begin"}

LEMMA CodesQuietKeeps ==
    ASSUME SignInTypeOK, CodesInv, CodesQuiet
    PROVE  CodesInv'
<1>1. SecretsMade'
  <2>1. mfa'.on => mfa'.secret # Nothing
    BY NamesFacts DEF CodesQuiet
  <2>2. \A d \in Calls :
           /\ calls'[d].code.step # 0 => calls'[d].code = calls[d].code
           /\ calls'[d].proof.step # 0 => calls'[d].proof = calls[d].proof
    BY NoProofType DEF CodesQuiet
  <2>3. \A d \in Calls :
           /\ calls'[d].code.step # 0 => calls'[d].code.secret # Nothing
           /\ calls'[d].proof.step # 0 => calls'[d].proof.secret # Nothing
    BY <2>2 DEF CodesInv, SecretsMade
  <2>4. ASSUME NEW e \in Calls, calls'[e].at \in {"idle", "ours", "begin"}
        PROVE  /\ mfa'.secret # e
               /\ \A d \in Calls :
                     /\ calls'[d].code.step # 0 => calls'[d].code.secret # e
                     /\ calls'[d].proof.step # 0 => calls'[d].proof.secret # e
    BY <2>2, <2>4, NamesFacts DEF CodesInv, SecretsMade, CodesQuiet
  <2> QED
    BY <2>1, <2>3, <2>4 DEF SecretsMade
<1>2. RecoveryMade'
  <2>1. Nothing \notin recovery'
    BY NamesFacts DEF CodesInv, RecoveryMade, CodesQuiet
  <2>2. \A d \in Calls : calls'[d].proof.step = 0 => calls'[d].proof.secret \notin recovery'
    BY <2>1, NoProofType DEF CodesInv, RecoveryMade, CodesQuiet
  <2>3. ASSUME NEW e \in Calls, calls'[e].at \in BeforeCodes
        PROVE  /\ e \notin recovery'
               /\ \A d \in Calls : calls'[d].proof.step = 0 => calls'[d].proof.secret # e
    BY <2>3, NamesFacts, NoProofType DEF CodesInv, RecoveryMade, CodesQuiet
  <2> QED
    BY <2>1, <2>2, <2>3 DEF RecoveryMade
<1>3. LastIsLatest'
  <2>1. ASSUME NEW d \in Calls, calls'[d].proof.step # 0, calls'[d].proof.secret = mfa'.secret
        PROVE  calls'[d].proof.step <= mfa'.last
    <3>1. calls'[d].proof = calls[d].proof /\ calls[d].proof.secret # Nothing
      BY <2>1, NoProofType DEF CodesInv, SecretsMade, CodesQuiet
    <3>2. \A e \in Calls : calls[e].at = "begin" => calls[d].proof.secret # e
      BY <2>1, <3>1 DEF CodesInv, SecretsMade
    <3> QED
      BY <2>1, <3>1, <3>2 DEF CodesInv, LastIsLatest, CodesQuiet
  <2> QED
    BY <2>1 DEF LastIsLatest
<1>4. ProofsApart'
  <2>1. ASSUME NEW c \in Calls, NEW d \in Calls, c # d,
               calls'[c].proof = calls'[d].proof, calls'[c].proof # NoProof
        PROVE  calls'[c].proof.step # 0 /\ calls'[c].proof.secret # mfa'.secret
    <3>1. calls'[c].proof = calls[c].proof /\ calls'[d].proof = calls[d].proof
      BY <2>1 DEF CodesQuiet
    <3>2. calls[c].proof.step # 0 /\ calls[c].proof.secret # mfa.secret
      BY <2>1, <3>1 DEF CodesInv, ProofsApart
    <3>3. /\ calls[c].proof.secret # Nothing
          /\ \A e \in Calls : calls[e].at = "begin" => calls[c].proof.secret # e
      BY <3>2 DEF CodesInv, SecretsMade
    <3> QED
      BY <3>1, <3>2, <3>3 DEF CodesQuiet
  <2> QED
    BY <2>1 DEF ProofsApart
<1> QED
  BY <1>1, <1>2, <1>3, <1>4 DEF CodesInv

\* A call goes on, further than a change of password or its sessions' end.
Onward(d) ==
    /\ calls[d].at \notin {"idle", "done", "set"} /\ calls'[d].at \notin {"idle", "done", "set"}
    /\ calls'[d].op = calls[d].op /\ calls'[d].pw = calls[d].pw
    /\ calls[d].coded => calls'[d].coded
    /\ calls[d].past \subseteq calls'[d].past
    /\ calls[d].at = "primary" \/ calls'[d].free = calls[d].free
    /\ calls[d].at \in AfterClosing => calls'[d].at \in AfterClosing
    /\ calls'[d].at \in {"active", "insert", "insertApp"} =>
          \/ calls[d].at \in {"active", "insert", "insertApp"} \/ calls[d].coded
          \/ ~mfa'.on \/ calls'[d].free = onBy
    /\ calls'[d].at = "setup" => calls[d].at = "setup" \/ ~mfa'.on \/ calls'[d].free = onBy
    /\ calls'[d].at # "pendings"

\* What a call opens it opens with what it carries.
SessionOf(s, d) ==
    /\ calls[d].at \in {"insert", "insertApp"} /\ Opens(calls[d])
    /\ s.pw = calls[d].pw /\ s.coded = calls[d].coded /\ s.past = calls[d].past /\ s.free = calls[d].free

PendingOf(p, d) ==
    /\ calls[d].at \in {"code", "setup"} /\ Opens(calls[d])
    /\ p.pw = calls[d].pw /\ p.stage = calls[d].at /\ p.past = calls[d].past /\ p.free = calls[d].free

ClosedQuiet ==
    /\ UNCHANGED <<password, closed>>
    /\ \/ onBy' = onBy /\ (mfa'.on => mfa.on)
       \/ onBy' \notin closed /\ (onBy' \in Calls => calls'[onBy'].at # "pendings")
    /\ \A s \in sessions' :
          \/ \E t \in sessions :
                s.pw = t.pw /\ (t.coded => s.coded) /\ t.past \subseteq s.past /\ s.free = t.free
          \/ \E d \in Calls : SessionOf(s, d)
    /\ \A p \in pendings' :
          \/ \E q \in pendings : p.pw = q.pw /\ p.stage = q.stage /\ p.past = q.past /\ p.free = q.free
          \/ \E d \in Calls : PendingOf(p, d)
    /\ \A d \in Calls :
          \/ calls'[d] = calls[d]
          \/ calls'[d].at = "done" /\ calls'[d].op = "none"
          \/ Onward(d)

LEMMA ClosedQuietKeeps ==
    ASSUME SignInTypeOK, AllOnCourse, ClosedInv, ClosedQuiet
    PROVE  ClosedInv'
<1>1. ASSUME NEW c, Ended(c)' PROVE Ended(c)
  BY <1>1 DEF Ended, ClosedQuiet, Onward
<1>2. ASSUME NEW d \in Calls, Opens(calls'[d])
      PROVE  Opens(calls[d]) /\ calls'[d].pw = calls[d].pw /\ calls[d].past \subseteq calls'[d].past
  BY <1>2 DEF ClosedQuiet, Onward, Opens
<1>3. ClosedIsDone'
  BY DEF ClosedInv, ClosedIsDone, ClosedQuiet, Onward, AfterClosing
<1>4. PasswordByItsCall'
  <2>1. password' \in Calls => calls'[password'].op \in {"change", "accept"} \/ calls'[password'].at = "done"
    BY DEF ClosedInv, PasswordByItsCall, ClosedQuiet, Onward
  <2>2. \A c \in Calls : calls'[c].op \in {"change", "accept"} /\ calls'[c].at # "set" => calls'[c].pw = c
    BY DEF ClosedInv, PasswordByItsCall, ClosedQuiet, Onward
  <2> QED
    BY <2>1, <2>2 DEF PasswordByItsCall
<1>5. PasswordMet'
  <2>1. ASSUME Ended(password)'
        PROVE  /\ \A s \in sessions' : s.pw = password \/ password \in s.past
               /\ \A d \in Calls : Opens(calls'[d]) => calls'[d].pw = password \/ password \in calls'[d].past
    <3>1. Ended(password)
      BY <2>1, <1>1 DEF ClosedQuiet, Ended
    <3>2. /\ \A s \in sessions : s.pw = password \/ password \in s.past
          /\ \A d \in Calls : Opens(calls[d]) => calls[d].pw = password \/ password \in calls[d].past
      BY <3>1 DEF ClosedInv, PasswordMet, OfPassword
    <3>3. \A s \in sessions' : s.pw = password \/ password \in s.past
      BY <3>2 DEF ClosedQuiet, SessionOf
    <3>4. ASSUME NEW d \in Calls, Opens(calls'[d])
          PROVE  calls'[d].pw = password \/ password \in calls'[d].past
      BY <1>2, <3>2, <3>4
    <3> QED
      BY <3>3, <3>4
  <2>2. ASSUME password \in closed
        PROVE  \A p \in pendings' : p.pw = password \/ password \in p.past
    <3>1. \A p \in pendings : p.pw = password \/ password \in p.past
      BY <2>2 DEF ClosedInv, PasswordMet, OfPassword
    <3>2. \A d \in Calls : Opens(calls[d]) => calls[d].pw = password \/ password \in calls[d].past
      BY <2>2 DEF ClosedInv, PasswordMet, OfPassword, Ended
    <3> QED
      BY <3>1, <3>2 DEF ClosedQuiet, PendingOf
  <2> QED
    BY <2>1, <2>2 DEF PasswordMet, OfPassword, ClosedQuiet
<1>6. CodedWhenFinished'
  BY DEF ClosedInv, CodedWhenFinished, ClosedQuiet, Onward
<1>7. CodeMet'
  <2>1. ASSUME mfa'.on, Ended(onBy)'
        PROVE  /\ onBy' = onBy /\ mfa.on /\ Ended(onBy)
               /\ \A s \in sessions' : s.coded \/ onBy \in s.past \/ s.free = onBy
               /\ \A d \in Calls :
                     /\ calls'[d].at \in {"active", "insert", "insertApp"} =>
                           calls'[d].coded \/ onBy \in calls'[d].past \/ calls'[d].free = onBy
                     /\ calls'[d].at = "setup" => onBy \in calls'[d].past \/ calls'[d].free = onBy
    <3>1. onBy' = onBy /\ mfa.on
      BY <2>1 DEF ClosedQuiet, Ended
    <3>2. Ended(onBy)
      BY <1>1, <2>1, <3>1 DEF Ended
    <3>3. /\ \A s \in sessions : s.coded \/ onBy \in s.past \/ s.free = onBy
          /\ \A d \in Calls :
                /\ calls[d].at \in {"active", "insert", "insertApp"} =>
                      calls[d].coded \/ onBy \in calls[d].past \/ calls[d].free = onBy
                /\ calls[d].at = "setup" => onBy \in calls[d].past \/ calls[d].free = onBy
      BY <3>1, <3>2 DEF ClosedInv, CodeMet, WithCode, LetBy
    <3>4. \A s \in sessions' : s.coded \/ onBy \in s.past \/ s.free = onBy
      BY <3>3 DEF ClosedQuiet, SessionOf
    <3>5. ASSUME NEW d \in Calls
          PROVE  /\ calls'[d].at \in {"active", "insert", "insertApp"} =>
                       calls'[d].coded \/ onBy \in calls'[d].past \/ calls'[d].free = onBy
                 /\ calls'[d].at = "setup" => onBy \in calls'[d].past \/ calls'[d].free = onBy
      <4>1. CASE Onward(d)
        BY <2>1, <3>3, <4>1 DEF Onward
      <4>2. CASE calls'[d] = calls[d] \/ calls'[d].at = "done"
        BY <3>3, <4>2
      <4> QED
        BY <4>1, <4>2 DEF ClosedQuiet
    <3> QED
      BY <3>1, <3>2, <3>4, <3>5
  <2>2. ASSUME mfa'.on, onBy' \in closed
        PROVE  \A p \in pendings' : p.stage = "code" \/ onBy \in p.past \/ p.free = onBy
    <3>1. onBy' = onBy /\ mfa.on /\ onBy \in closed
      BY <2>2 DEF ClosedQuiet
    <3>2. /\ \A p \in pendings : p.stage = "code" \/ onBy \in p.past \/ p.free = onBy
          /\ \A d \in Calls : calls[d].at = "setup" => onBy \in calls[d].past \/ calls[d].free = onBy
      BY <3>1 DEF ClosedInv, CodeMet, LetBy, Ended
    <3> QED
      BY <3>2 DEF ClosedQuiet, PendingOf
  <2>3. ASSUME mfa'.on, onBy' \in closed PROVE onBy' = onBy
    BY <2>3 DEF ClosedQuiet
  <2> QED
    BY <2>1, <2>2, <2>3 DEF CodeMet, WithCode, LetBy, ClosedQuiet
<1> QED
  BY <1>3, <1>4, <1>5, <1>6, <1>7 DEF ClosedInv

-----------------------------------------------------------------------------
(* Ordinary steps: one call goes on or ends.                                   *)

CallMoves(c) ==
    /\ calls' \in [Calls -> Call] /\ \A d \in Calls : d # c => calls'[d] = calls[d]
    /\ OnCourse(calls'[c])
    /\ calls[c].at # "done"
    /\ calls'[c].by \in {calls[c].by, Nothing}
    /\ calls'[c].tries > 0 => calls'[c].tries = calls[c].tries /\ calls'[c].by = calls[c].by
    /\ calls'[c].code \in {calls[c].code, NoProof}
    /\ calls'[c].proof \in {calls[c].proof, NoProof}
    /\ calls'[c].at \in {"idle", "ours", "begin"} => calls[c].at \in {"idle", "ours", "begin"}
    /\ calls'[c].at \in BeforeCodes => calls[c].at \in BeforeCodes
    /\ \/ calls'[c].at = "done" /\ calls'[c].op = "none"
       \/ Onward(c)

LEMMA EndsMoves ==
    ASSUME SignInInv, NEW c \in Calls, CallEnds(c), calls[c].at # "done"
    PROVE  CallMoves(c)
BY EndsFacts DEF SignInInv, CallMoves, OnCourse, BeforeCodes

LEMMA GoesMoves ==
    ASSUME SignInInv, NEW c \in Calls, NEW to \in Ats, CallGoes(c, to),
           calls[c].at \notin {"idle", "done", "set"}, to \notin {"idle", "done", "set"},
           to # "pendings",
           OnCourse(calls'[c]),
           to \in {"ours", "begin"} => calls[c].at \in {"ours", "begin"},
           to \in BeforeCodes => calls[c].at \in BeforeCodes,
           calls[c].at \in AfterClosing => to \in AfterClosing,
           to \in {"active", "insert", "insertApp"} =>
               calls[c].at \in {"active", "insert", "insertApp"} \/ calls[c].coded \/ ~mfa'.on,
           to = "setup" => ~mfa'.on
    PROVE  CallMoves(c)
<1>1. SignInTypeOK
  BY DEF SignInInv
<1>2. /\ calls' \in [Calls -> Call] /\ \A d \in Calls : d # c => calls'[d] = calls[d]
      /\ calls'[c].at = to /\ calls'[c].op = calls[c].op /\ calls'[c].by = calls[c].by
      /\ calls'[c].pw = calls[c].pw /\ calls'[c].coded = calls[c].coded
      /\ calls'[c].past = calls[c].past /\ calls'[c].tries = calls[c].tries
      /\ calls'[c].free = calls[c].free
      /\ calls'[c].code = calls[c].code /\ calls'[c].proof = calls[c].proof
  BY <1>1, GoesFacts
<1>3. Onward(c)
  BY <1>2 DEF Onward
<1> QED
  BY <1>2, <1>3 DEF CallMoves

\* No more of the rest than an ordinary step changes.
OrdinaryRest ==
    /\ UNCHANGED <<password, closed, onBy>>
    /\ sessions' \subseteq sessions /\ pendings' \subseteq pendings /\ recovery' \subseteq recovery
    /\ mfa' \in Mfa /\ (mfa'.on => mfa.on)
    /\ \/ mfa'.secret = mfa.secret /\ mfa'.last = mfa.last
       \/ mfa'.secret = Nothing /\ ~mfa'.on
    /\ required' \in BOOLEAN /\ disabled' \in BOOLEAN /\ invite' \in Names /\ failures' \subseteq Calls

LEMMA OrdinaryStep ==
    ASSUME SignInInv, NEW c \in Calls, CallMoves(c), OrdinaryRest
    PROVE  SignInInv'
<1>1. SignInTypeOK /\ AllOnCourse /\ TriesInv /\ CodesInv /\ ClosedInv
  BY DEF SignInInv
<1>2. SignInTypeOK'
  BY <1>1 DEF SignInTypeOK, OrdinaryRest, CallMoves
<1>3. AllOnCourse'
  BY <1>1 DEF AllOnCourse, CallMoves
<1>4. TriesQuiet
  BY DEF TriesQuiet, OrdinaryRest, CallMoves
<1>5. CodesQuiet
  BY <1>1 DEF CodesQuiet, OrdinaryRest, CallMoves, CodesInv, SecretsMade
<1>6. ClosedQuiet
  BY DEF ClosedQuiet, OrdinaryRest, CallMoves
<1> QED
  BY <1>1, <1>2, <1>3, <1>4, <1>5, <1>6, TriesQuietKeeps, CodesQuietKeeps, ClosedQuietKeeps DEF SignInInv

LEMMA RestAsItIs ==
    ASSUME SignInInv, UNCHANGED <<password, closed, onBy, required>>,
           sessions' \subseteq sessions, pendings' \subseteq pendings, recovery' \subseteq recovery,
           mfa' = mfa \/ mfa' = NoMfa,
           disabled' \in BOOLEAN, invite' \in Names, failures' \subseteq Calls
    PROVE  OrdinaryRest
BY NoMfaType DEF SignInInv, SignInTypeOK, OrdinaryRest

LEMMA EndStep ==
    ASSUME SignInInv, NEW c \in Calls, CallEnds(c), calls[c].at # "done", OrdinaryRest
    PROVE  SignInInv'
BY EndsMoves, OrdinaryStep

\* Where it is led a call of its kind may be.
LEMMA GoStep ==
    ASSUME SignInInv, NEW c \in Calls, NEW to \in Ats, CallGoes(c, to), OrdinaryRest,
           calls[c].at \notin {"idle", "done", "set"}, to \notin {"idle", "done", "set", "pendings"},
           \A k \in Call : k.op = calls[c].op /\ k.at = to => OnCourse(k),
           to \in {"ours", "begin"} => calls[c].at \in {"ours", "begin"},
           to \in BeforeCodes => calls[c].at \in BeforeCodes,
           calls[c].at \in AfterClosing => to \in AfterClosing,
           to \in {"active", "insert", "insertApp"} =>
               calls[c].at \in {"active", "insert", "insertApp"} \/ calls[c].coded \/ ~mfa'.on,
           to = "setup" => ~mfa'.on
    PROVE  SignInInv'
<1>1. calls'[c] \in Call /\ calls'[c].op = calls[c].op /\ calls'[c].at = to
  BY GoesFacts DEF SignInInv
<1>2. OnCourse(calls'[c])
  BY <1>1
<1> QED
  BY <1>2, GoesMoves, OrdinaryStep

LEMMA AfterPrimaryStep ==
    ASSUME SignInInv, NEW c \in Calls, AfterPrimary(c)
    PROVE  SignInInv'
<1> DEFINE to == IF Applies(c) /\ required THEN "setup" ELSE "active"
           free == IF mfa.on THEN onBy ELSE Nothing
           k == [calls[c] EXCEPT !.at = to, !.free = free]
<1>1. /\ calls[c].at = "primary" /\ mfa' = mfa
      /\ \/ mfa.on /\ CallGoes(c, "code")
         \/ calls' = [calls EXCEPT ![c].at = to, ![c].free = free]
  BY DEF AfterPrimary, CallAt, accountVars
<1>2. OrdinaryRest
  BY RestAsItIs DEF AfterPrimary, accountVars, SignInInv, SignInTypeOK
<1>3. OnCourse(calls[c]) /\ calls[c] \in Call /\ calls \in [Calls -> Call] /\ onBy \in Names
  BY CallFields DEF SignInInv, AllOnCourse, SignInTypeOK
<1>4. CASE mfa.on /\ CallGoes(c, "code")
  <2>1. \A j \in Call : j.op = calls[c].op /\ j.at = "code" => OnCourse(j)
    BY <1>1, <1>3 DEF OnCourse
  <2> QED
    BY <1>1, <1>2, <1>4, <2>1, GoStep DEF Ats, BeforeCodes, AfterClosing
<1>5. CASE calls' = [calls EXCEPT ![c].at = to, ![c].free = free]
  <2>1. to \in {"setup", "active"} /\ free \in Names /\ (mfa.on => free = onBy)
    BY <1>3, NamesFacts
  <2> HIDE DEF to, free
  <2>2. calls' = [calls EXCEPT ![c] = k]
    BY <1>3, <1>5
  <2>3. /\ k \in Call /\ k.at = to /\ k.free = free /\ k.op = calls[c].op /\ k.by = calls[c].by
        /\ k.pw = calls[c].pw /\ k.coded = calls[c].coded /\ k.past = calls[c].past
        /\ k.tries = calls[c].tries /\ k.code = calls[c].code /\ k.proof = calls[c].proof
    BY <1>3, <2>1 DEF Call
  <2> HIDE DEF k
  <2>4. /\ calls' \in [Calls -> Call] /\ calls'[c] = k /\ \A d \in Calls : d # c => calls'[d] = calls[d]
    BY <1>3, <2>2, <2>3
  <2>5. OnCourse(calls'[c])
    BY <1>1, <1>3, <2>1, <2>3, <2>4 DEF OnCourse
  <2>6. Onward(c)
    BY <1>1, <2>1, <2>3, <2>4 DEF Onward, AfterClosing
  <2>7. CallMoves(c)
    BY <1>1, <2>1, <2>3, <2>4, <2>5, <2>6 DEF CallMoves, BeforeCodes
  <2> QED
    BY <1>2, <2>7, OrdinaryStep
<1> QED
  BY <1>1, <1>4, <1>5

LEMMA IsActiveStep ==
    ASSUME SignInInv, NEW c \in Calls, IsActive(c)
    PROVE  SignInInv'
<1>1. calls[c].at = "active" /\ (CallEnds(c) \/ CallGoes(c, "insert"))
  BY DEF IsActive, CallAt, GoesOrEnds
<1>2. OrdinaryRest
  BY RestAsItIs DEF IsActive, accountVars, SignInInv, SignInTypeOK
<1>3. OnCourse(calls[c])
  BY DEF SignInInv, AllOnCourse
<1>4. \A k \in Call : k.op = calls[c].op /\ k.at = "insert" => OnCourse(k)
  BY <1>1, <1>3 DEF OnCourse
<1> QED
  BY <1>1, <1>2, <1>4, GoStep, EndStep DEF Ats, BeforeCodes, AfterClosing

LEMMA StillOursStep ==
    ASSUME SignInInv, NEW c \in Calls, StillOurs(c)
    PROVE  SignInInv'
<1> DEFINE to == IF SetupBy(calls[c].by) THEN "try" ELSE "drop"
<1>1. /\ CallGoes(c, to) /\ calls[c].at = "ours" /\ calls[c].op = "finishSetup"
      /\ to \in {"try", "drop"}
  BY DEF StillOurs, CallAt
<1>2. OrdinaryRest
  BY RestAsItIs DEF StillOurs, accountVars, SignInInv, SignInTypeOK
<1> HIDE DEF to
<1>3. \A k \in Call : k.op = calls[c].op /\ k.at = to => OnCourse(k)
  BY <1>1 DEF OnCourse
<1> QED
  BY <1>1, <1>2, <1>3, GoStep DEF Ats, BeforeCodes, AfterClosing

LEMMA TakeAttemptStep ==
    ASSUME SignInInv, NEW c \in Calls, TakeAttempt(c)
    PROVE  SignInInv'
<1>1. calls[c].at = "attempt" /\ (CallEnds(c) \/ CallGoes(c, "read"))
  BY DEF TakeAttempt, CallAt
<1>2. OrdinaryRest
  BY RestAsItIs DEF TakeAttempt, SignInInv, SignInTypeOK
<1>3. OnCourse(calls[c])
  BY DEF SignInInv, AllOnCourse
<1>4. \A k \in Call : k.op = calls[c].op /\ k.at = "read" => OnCourse(k)
  BY <1>1, <1>3 DEF OnCourse
<1> QED
  BY <1>1, <1>2, <1>4, GoStep, EndStep DEF Ats, BeforeCodes, AfterClosing

LEMMA AfterWrongStep ==
    ASSUME SignInInv, NEW c \in Calls, calls[c].at \in {"read", "advance"}, AfterWrong(c), OrdinaryRest
    PROVE  SignInInv'
<1>1. CallEnds(c) \/ CallGoes(c, "drop")
  BY DEF AfterWrong, GoesOrEnds
<1>2. OnCourse(calls[c])
  BY DEF SignInInv, AllOnCourse
<1>3. \A k \in Call : k.op = calls[c].op /\ k.at = "drop" => OnCourse(k)
  BY <1>2 DEF OnCourse
<1> QED
  BY <1>1, <1>3, GoStep, EndStep DEF Ats, BeforeCodes, AfterClosing

LEMMA CheckFailsStep ==
    ASSUME SignInInv, NEW c \in Calls, CheckFails(c)
    PROVE  SignInInv'
<1>1. OrdinaryRest
  BY RestAsItIs DEF CheckFails, SignInInv, SignInTypeOK
<1> QED
  BY <1>1, EndStep DEF CheckFails

LEMMA ReleaseAttemptStep ==
    ASSUME SignInInv, NEW c \in Calls, ReleaseAttempt(c)
    PROVE  SignInInv'
<1> DEFINE to == IF calls[c].op = "finish" THEN "delete"
                 ELSE IF calls[c].op = "turnOff" THEN "remove" ELSE "codes"
<1>1. CallGoes(c, to) /\ calls[c].at = "release" /\ to \in {"delete", "remove", "codes"}
  BY DEF ReleaseAttempt, CallAt
<1>2. OrdinaryRest
  BY RestAsItIs DEF ReleaseAttempt, SignInInv, SignInTypeOK
<1>3. OnCourse(calls[c])
  BY DEF SignInInv, AllOnCourse
<1>4. \/ calls[c].op = "finish" /\ to = "delete"
      \/ calls[c].op = "turnOff" /\ to = "remove"
      \/ calls[c].op = "regenerate" /\ to = "codes"
  BY <1>1, <1>3, CallFields DEF OnCourse, Call, SignInInv
<1> HIDE DEF to
<1>5. \A k \in Call : k.op = calls[c].op /\ k.at = to => OnCourse(k)
  BY <1>4 DEF OnCourse
<1> QED
  BY <1>1, <1>2, <1>5, GoStep DEF Ats, BeforeCodes, AfterClosing

LEMMA DeletePendingStep ==
    ASSUME SignInInv, NEW c \in Calls, DeletePending(c)
    PROVE  SignInInv'
<1>1. /\ calls[c].at \in {"delete", "drop"}
      /\ CallEnds(c) \/ (calls[c].at = "delete" /\ CallGoes(c, "active"))
  BY DEF DeletePending, CallAt, GoesOrEnds
<1>2. OrdinaryRest
  BY RestAsItIs DEF DeletePending, accountVars, SignInInv, SignInTypeOK
<1>3. OnCourse(calls[c])
  BY DEF SignInInv, AllOnCourse
<1>4. CASE CallEnds(c)
  BY <1>1, <1>2, <1>4, EndStep
<1>5. CASE calls[c].at = "delete" /\ CallGoes(c, "active")
  <2>1. calls[c].op \in {"finish", "finishSetup"}
    BY <1>3, <1>5, CallFields DEF OnCourse, Call, SignInInv
  <2>2. calls[c].coded /\ \A k \in Call : k.op = calls[c].op /\ k.at = "active" => OnCourse(k)
    BY <2>1 DEF OnCourse, SignInInv, ClosedInv, CodedWhenFinished
  <2> QED
    BY <1>2, <1>5, <2>2, GoStep DEF Ats, BeforeCodes, AfterClosing
<1> QED
  BY <1>1, <1>4, <1>5

LEMMA SetupSecretStep ==
    ASSUME SignInInv, NEW c \in Calls, SetupSecret(c)
    PROVE  SignInInv'
<1>1. /\ calls[c].at = "ours" /\ calls[c].op = "begin"
      /\ CallEnds(c) \/ CallGoes(c, "begin")
  BY DEF SetupSecret, CallAt, GoesOrEnds
<1>2. OrdinaryRest
  BY RestAsItIs DEF SetupSecret, accountVars, SignInInv, SignInTypeOK
<1>3. \A k \in Call : k.op = calls[c].op /\ k.at = "begin" => OnCourse(k)
  BY <1>1 DEF OnCourse
<1> QED
  BY <1>1, <1>2, <1>3, GoStep, EndStep DEF Ats, BeforeCodes, AfterClosing

LEMMA RemoveMfaStep ==
    ASSUME SignInInv, NEW c \in Calls, RemoveMfa(c)
    PROVE  SignInInv'
<1>1. /\ calls[c].at = "remove"
      /\ CallEnds(c) \/ (calls[c].op # "turnOff" /\ CallGoes(c, "sessions"))
  BY DEF RemoveMfa, CallAt, GoesOrEnds
<1>2. OrdinaryRest
  BY RestAsItIs DEF RemoveMfa, SignInInv, SignInTypeOK
<1>3. OnCourse(calls[c])
  BY DEF SignInInv, AllOnCourse
<1>4. CASE CallEnds(c)
  BY <1>1, <1>2, <1>4, EndStep
<1>5. CASE calls[c].op # "turnOff" /\ CallGoes(c, "sessions")
  <2>1. calls[c].op = "reset"
    BY <1>1, <1>3, <1>5, CallFields DEF OnCourse, Call, SignInInv
  <2>2. \A k \in Call : k.op = calls[c].op /\ k.at = "sessions" => OnCourse(k)
    BY <2>1 DEF OnCourse
  <2> QED
    BY <1>1, <1>2, <1>5, <2>2, GoStep DEF Ats, BeforeCodes, AfterClosing
<1> QED
  BY <1>1, <1>4, <1>5

LEMMA BreaksOffStep ==
    ASSUME SignInInv, NEW c \in Calls, BreaksOff(c)
    PROVE  SignInInv'
<1>1. OrdinaryRest
  BY RestAsItIs DEF BreaksOff, accountVars, SignInInv, SignInTypeOK
<1> QED
  BY <1>1, EndStep DEF BreaksOff, UnderWay

LEMMA AtOnceSteps ==
    ASSUME SignInInv, NEW c \in Calls,
           \/ Restore(c) \/ Reinvite(c)
           \/ \E k \in sessions : LogOut(c, k) \/ CancelSetup(c, k)
    PROVE  SignInInv'
<1>1. CallEnds(c) /\ calls[c].at # "done"
  BY DEF Restore, Reinvite, LogOut, CancelSetup, AtOnce, CallAt
<1>2. OrdinaryRest
  <2>1. CASE Restore(c)
    BY <2>1, RestAsItIs DEF Restore, SignInInv, SignInTypeOK
  <2>2. CASE Reinvite(c)
    BY <2>2, RestAsItIs, NamesFacts DEF Reinvite, SignInInv, SignInTypeOK
  <2>3. CASE \E k \in sessions : LogOut(c, k)
    BY <2>3, RestAsItIs DEF LogOut, accountVars, SignInInv, SignInTypeOK
  <2>4. CASE \E k \in sessions : CancelSetup(c, k)
    BY <2>4, RestAsItIs DEF CancelSetup, SignInInv, SignInTypeOK
  <2> QED
    BY <2>1, <2>2, <2>3, <2>4
<1> QED
  BY <1>1, <1>2, EndStep

LEMMA LapseSteps ==
    ASSUME SignInInv,
           \/ \E s \in sessions : SessionLapses(s)
           \/ \E p \in pendings : PendingLapses(p)
           \/ \E c \in Calls : AttemptLapses(c)
           \/ UNCHANGED signInVars
    PROVE  SignInInv'
<1>1. SignInTypeOK /\ AllOnCourse /\ TriesInv /\ CodesInv /\ ClosedInv
  BY DEF SignInInv
<1>2. UNCHANGED calls /\ OrdinaryRest
  BY <1>1, RestAsItIs DEF SessionLapses, PendingLapses, AttemptLapses, accountVars, signInVars, SignInTypeOK
<1>3. SignInTypeOK'
  BY <1>1, <1>2 DEF SignInTypeOK, OrdinaryRest
<1>4. AllOnCourse'
  BY <1>1, <1>2 DEF AllOnCourse
<1>5. TriesQuiet
  BY <1>2 DEF TriesQuiet, OrdinaryRest
<1>6. CodesQuiet
  BY <1>1, <1>2 DEF CodesQuiet, OrdinaryRest, CodesInv, SecretsMade
<1>7. ClosedQuiet
  BY <1>2 DEF ClosedQuiet, OrdinaryRest
<1> QED
  BY <1>1, <1>3, <1>4, <1>5, <1>6, <1>7, TriesQuietKeeps, CodesQuietKeeps, ClosedQuietKeeps DEF SignInInv

-----------------------------------------------------------------------------
(* A call begins.                                                              *)

\* What it carries was opened by the password of now, or has met its change; and
\* likewise with a code.
Rightly(op, at, by, pw, coded, past, free) ==
    /\ by = Nothing \/ \E s \in sessions \union pendings : by = s.id
    /\ \A k \in Call : k.op = op /\ k.at = at => OnCourse(k)
    /\ at \notin {"idle", "done", "pendings", "setup", "active", "insert"}
    /\ op \in {"change", "accept"} => at = "set"
    /\ op \in {"finish", "finishSetup"} => coded
    /\ op \in {"login", "provider", "app", "finish", "finishSetup"} /\ Ended(password) =>
          pw = password \/ password \in past
    /\ at = "insertApp" /\ mfa.on /\ Ended(onBy) => coded \/ onBy \in past \/ free = onBy

LEMMA BeginStep ==
    ASSUME SignInInv, NEW c \in Calls, NEW op \in Ops, NEW at \in Ats, NEW by \in Names,
           NEW pw \in Names, NEW coded \in BOOLEAN, NEW past \in SUBSET Calls, NEW free \in Names,
           CallBegins(c, op, at, by, pw, coded, past, free),
           Rightly(op, at, by, pw, coded, past, free), OrdinaryRest
    PROVE  SignInInv'
<1>1. SignInTypeOK /\ AllOnCourse /\ TriesInv /\ CodesInv /\ ClosedInv
  BY DEF SignInInv
<1>2. /\ calls' \in [Calls -> Call] /\ calls[c].at = "idle"
      /\ \A d \in Calls : d # c => calls'[d] = calls[d]
      /\ calls'[c].op = op /\ calls'[c].at = at /\ calls'[c].by = by /\ calls'[c].pw = pw
      /\ calls'[c].coded = coded /\ calls'[c].past = past /\ calls'[c].free = free
      /\ calls'[c].tries = 0 /\ calls'[c].code = NoProof /\ calls'[c].proof = NoProof
  <2> DEFINE j == [NotMade EXCEPT !.op = op, !.at = at, !.by = by, !.pw = pw]
             k == [j EXCEPT !.coded = coded, !.past = past, !.free = free]
  <2>1. calls[c].at = "idle" /\ calls' = [calls EXCEPT ![c] = k] /\ calls \in [Calls -> Call]
    BY <1>1, CallFields DEF CallBegins, CallAt
  <2>2. /\ j \in Call /\ j.op = op /\ j.at = at /\ j.by = by /\ j.pw = pw
        /\ j.tries = 0 /\ j.code = NoProof /\ j.proof = NoProof
    <3>1. /\ op \in Ops /\ at \in Ats /\ by \in Names /\ pw \in Names
          /\ Call = [op : Ops, at : Ats, by : Names, pw : Names, coded : BOOLEAN, past : SUBSET Calls,
                     free : Names, tries : 0..MaxTries, code : Proof, proof : Proof]
      BY DEF Call, Ops, Ats
    <3> QED
      BY <3>1, NotMadeType
  <2> HIDE DEF j
  <2>3. k \in Call /\ k.coded = coded
    BY <2>2 DEF Call
  <2>4. /\ k.op = op /\ k.at = at /\ k.by = by /\ k.pw = pw /\ k.past = past /\ k.free = free
        /\ k.tries = 0 /\ k.code = NoProof /\ k.proof = NoProof
    BY <2>2 DEF Call
  <2> HIDE DEF k
  <2> QED
    BY <2>1, <2>3, <2>4
<1>3. SignInTypeOK'
  BY <1>1, <1>2 DEF SignInTypeOK, OrdinaryRest
<1>4. AllOnCourse'
  <2>1. OnCourse(calls'[c])
    BY <1>2 DEF Rightly
  <2> QED
    BY <1>1, <1>2, <2>1 DEF AllOnCourse
<1>5. TriesQuiet
  BY <1>2 DEF TriesQuiet, OrdinaryRest, Rightly
<1>6. CodesQuiet
  BY <1>1, <1>2 DEF CodesQuiet, OrdinaryRest, CodesInv, SecretsMade, BeforeCodes
<1>7. ClosedIsDone'
  BY <1>1, <1>2 DEF ClosedInv, ClosedIsDone, AfterClosing, OrdinaryRest
<1>8. password # c
  <2>1. calls[c].op = "none"
    BY <1>1, <1>2 DEF AllOnCourse, OnCourse
  <2> QED
    BY <1>1, <1>2, <2>1 DEF ClosedInv, PasswordByItsCall
<1>9. PasswordByItsCall'
  BY <1>1, <1>2, <1>8 DEF ClosedInv, PasswordByItsCall, OrdinaryRest, Rightly
<1>10. /\ password' = password /\ closed' = closed /\ onBy' = onBy /\ (mfa'.on => mfa.on)
       /\ sessions' \subseteq sessions /\ pendings' \subseteq pendings
  BY DEF OrdinaryRest
<1>11. \A e : Ended(e)' => Ended(e)
  BY <1>2, <1>10 DEF Ended, Rightly
<1>12. PasswordMet'
  <2>1. ASSUME Ended(password)'
        PROVE  /\ \A s \in sessions' : s.pw = password \/ password \in s.past
               /\ \A d \in Calls : Opens(calls'[d]) => calls'[d].pw = password \/ password \in calls'[d].past
    <3>1. Ended(password)
      BY <1>10, <1>11, <2>1
    <3>2. /\ \A s \in sessions : s.pw = password \/ password \in s.past
          /\ \A d \in Calls : Opens(calls[d]) => calls[d].pw = password \/ password \in calls[d].past
      BY <1>1, <3>1 DEF ClosedInv, PasswordMet, OfPassword
    <3>3. Opens(calls'[c]) => calls'[c].pw = password \/ password \in calls'[c].past
      BY <1>2, <3>1 DEF Opens, Rightly
    <3> QED
      BY <1>2, <1>10, <3>2, <3>3
  <2>2. password \in closed => \A p \in pendings' : p.pw = password \/ password \in p.past
    BY <1>1, <1>10 DEF ClosedInv, PasswordMet, OfPassword
  <2> QED
    BY <1>10, <2>1, <2>2 DEF PasswordMet, OfPassword
<1>13. CodedWhenFinished'
  BY <1>1, <1>2 DEF ClosedInv, CodedWhenFinished, Rightly
<1>14. CodeMet'
  <2>1. ASSUME mfa'.on, Ended(onBy)'
        PROVE  /\ \A s \in sessions' : WithCode(s)
               /\ \A d \in Calls :
                     /\ calls'[d].at \in {"active", "insert", "insertApp"} => WithCode(calls'[d])
                     /\ calls'[d].at = "setup" => LetBy(calls'[d])
    <3>1. mfa.on /\ Ended(onBy)
      BY <1>10, <1>11, <2>1
    <3>2. /\ \A s \in sessions : WithCode(s)
          /\ \A d \in Calls :
                /\ calls[d].at \in {"active", "insert", "insertApp"} => WithCode(calls[d])
                /\ calls[d].at = "setup" => LetBy(calls[d])
      BY <1>1, <3>1 DEF ClosedInv, CodeMet
    <3>3. /\ calls'[c].at \in {"active", "insert", "insertApp"} => WithCode(calls'[c])
          /\ calls'[c].at # "setup"
      BY <1>2, <3>1 DEF Rightly, WithCode, LetBy
    <3> QED
      BY <1>2, <1>10, <3>2, <3>3
  <2>2. mfa'.on /\ onBy \in closed => \A p \in pendings' : p.stage = "code" \/ LetBy(p)
    BY <1>1, <1>10 DEF ClosedInv, CodeMet
  <2> QED
    BY <1>10, <2>1, <2>2 DEF CodeMet, WithCode, LetBy
<1>15. ClosedInv'
  BY <1>7, <1>9, <1>12, <1>13, <1>14 DEF ClosedInv
<1> QED
  BY <1>1, <1>3, <1>4, <1>5, <1>6, <1>15, TriesQuietKeeps, CodesQuietKeeps DEF SignInInv

LEMMA SessionFields ==
    ASSUME SignInTypeOK
    PROVE  /\ \A k \in sessions : /\ k.id \in Names /\ k.pw \in Names /\ k.coded \in BOOLEAN
                                  /\ k.past \in SUBSET Calls /\ k.free \in Names
           /\ \A p \in pendings : /\ p.id \in Names /\ p.pw \in Names /\ p.past \in SUBSET Calls
                                  /\ p.free \in Names /\ p.tries \in 0..MaxTries
           /\ password \in Names
BY DEF SignInTypeOK, Session, Pending

\* One that brings nothing with it.
BeginsPlainly(c, op, at, by, pw) == CallBegins(c, op, at, by, pw, FALSE, {}, Nothing)

LEMMA PlainBeginStep ==
    ASSUME SignInInv, NEW c \in Calls, NEW op \in Ops \ {"app", "finish", "finishSetup"}, NEW at \in Ats,
           NEW by \in Names, NEW pw \in {Nothing, password},
           BeginsPlainly(c, op, at, by, pw),
           by = Nothing \/ \E s \in sessions \union pendings : by = s.id,
           \A k \in Call : k.op = op /\ k.at = at => OnCourse(k),
           at \notin {"idle", "done", "pendings", "setup", "active", "insert", "insertApp"},
           op \in {"change", "accept"} => at = "set",
           op \in {"login", "provider"} => pw = password,
           OrdinaryRest
    PROVE  SignInInv'
<1> DEFINE no == FALSE
           none == {}
<1>1. /\ no \in BOOLEAN /\ none \in SUBSET Calls /\ pw \in Names /\ op \in Ops /\ Nothing \in Names
      /\ CallBegins(c, op, at, by, pw, no, none, Nothing)
  BY SessionFields, NamesFacts DEF SignInInv, BeginsPlainly
<1> HIDE DEF no, none
<1>2. Rightly(op, at, by, pw, no, none, Nothing)
  BY DEF Rightly
<1> QED
  BY <1>1, <1>2, BeginStep

LEMMA LogInStep ==
    ASSUME SignInInv, NEW c \in Calls, LogIn(c)
    PROVE  SignInInv'
<1>1. BeginsPlainly(c, "login", "primary", Nothing, password) /\ OrdinaryRest
  BY RestAsItIs DEF BeginsPlainly, LogIn, accountVars, SignInInv, SignInTypeOK
<1>2. \A k \in Call : k.op = "login" /\ k.at = "primary" => OnCourse(k)
  BY DEF OnCourse
<1> QED
  BY <1>1, <1>2, NamesFacts, PlainBeginStep DEF Ops, Ats

LEMMA LogInByProviderStep ==
    ASSUME SignInInv, NEW c \in Calls, LogInByProvider(c)
    PROVE  SignInInv'
<1>1. BeginsPlainly(c, "provider", "primary", Nothing, password) /\ OrdinaryRest
  BY RestAsItIs DEF BeginsPlainly, LogInByProvider, accountVars, SignInInv, SignInTypeOK
<1>2. \A k \in Call : k.op = "provider" /\ k.at = "primary" => OnCourse(k)
  BY DEF OnCourse
<1> QED
  BY <1>1, <1>2, NamesFacts, PlainBeginStep DEF Ops, Ats

LEMMA ChangePasswordStep ==
    ASSUME SignInInv, NEW c \in Calls, NEW k \in sessions, ChangePassword(c, k)
    PROVE  SignInInv'
<1>1. BeginsPlainly(c, "change", "set", k.id, Nothing) /\ OrdinaryRest /\ k.id \in Names
  BY RestAsItIs, SessionFields DEF BeginsPlainly, ChangePassword, accountVars, SignInInv, SignInTypeOK
<1>2. \A j \in Call : j.op = "change" /\ j.at = "set" => OnCourse(j)
  BY DEF OnCourse
<1> QED
  BY <1>1, <1>2, PlainBeginStep DEF Ops, Ats

LEMMA AcceptInviteStep ==
    ASSUME SignInInv, NEW c \in Calls, AcceptInvite(c)
    PROVE  SignInInv'
<1>1. BeginsPlainly(c, "accept", "set", Nothing, Nothing) /\ OrdinaryRest
  BY RestAsItIs, NamesFacts DEF BeginsPlainly, AcceptInvite, SignInInv, SignInTypeOK
<1>2. \A k \in Call : k.op = "accept" /\ k.at = "set" => OnCourse(k)
  BY DEF OnCourse
<1> QED
  BY <1>1, <1>2, NamesFacts, PlainBeginStep DEF Ops, Ats

LEMMA DisableStep ==
    ASSUME SignInInv, NEW c \in Calls, Disable(c)
    PROVE  SignInInv'
<1>1. BeginsPlainly(c, "disable", "sessions", Nothing, Nothing) /\ OrdinaryRest
  BY RestAsItIs DEF BeginsPlainly, Disable, SignInInv, SignInTypeOK
<1>2. \A k \in Call : k.op = "disable" /\ k.at = "sessions" => OnCourse(k)
  BY DEF OnCourse
<1> QED
  BY <1>1, <1>2, NamesFacts, PlainBeginStep DEF Ops, Ats

LEMMA ResetStep ==
    ASSUME SignInInv, NEW c \in Calls, Reset(c)
    PROVE  SignInInv'
<1>1. BeginsPlainly(c, "reset", "remove", Nothing, Nothing) /\ OrdinaryRest
  BY RestAsItIs DEF BeginsPlainly, Reset, accountVars, SignInInv, SignInTypeOK
<1>2. \A k \in Call : k.op = "reset" /\ k.at = "remove" => OnCourse(k)
  BY DEF OnCourse
<1> QED
  BY <1>1, <1>2, NamesFacts, PlainBeginStep DEF Ops, Ats

LEMMA BeginSetupStep ==
    ASSUME SignInInv, NEW c \in Calls, NEW s \in sessions \union pendings, BeginSetup(c, s.id)
    PROVE  SignInInv'
<1>1. BeginsPlainly(c, "begin", "ours", s.id, Nothing) /\ OrdinaryRest /\ s.id \in Names
  BY RestAsItIs, SessionFields DEF BeginsPlainly, BeginSetup, accountVars, SignInInv, SignInTypeOK
<1>2. \A k \in Call : k.op = "begin" /\ k.at = "ours" => OnCourse(k)
  BY DEF OnCourse
<1> QED
  BY <1>1, <1>2, PlainBeginStep DEF Ops, Ats

LEMMA ConfirmSetupStep ==
    ASSUME SignInInv, NEW c \in Calls, NEW k \in sessions, ConfirmSetup(c, k)
    PROVE  SignInInv'
<1>1. BeginsPlainly(c, "confirm", "read", k.id, Nothing) /\ OrdinaryRest /\ k.id \in Names
  BY RestAsItIs, SessionFields DEF BeginsPlainly, ConfirmSetup, accountVars, SignInInv, SignInTypeOK
<1>2. \A j \in Call : j.op = "confirm" /\ j.at = "read" => OnCourse(j)
  BY DEF OnCourse
<1> QED
  BY <1>1, <1>2, PlainBeginStep DEF Ops, Ats

LEMMA AskForCodeStep ==
    ASSUME SignInInv, NEW c \in Calls, NEW k \in sessions, NEW op \in {"regenerate", "turnOff"},
           AskForCode(c, k, op)
    PROVE  SignInInv'
<1>1. BeginsPlainly(c, op, "attempt", k.id, Nothing) /\ OrdinaryRest /\ k.id \in Names
  BY RestAsItIs, SessionFields DEF BeginsPlainly, AskForCode, accountVars, SignInInv, SignInTypeOK
<1>2. \A j \in Call : j.op = op /\ j.at = "attempt" => OnCourse(j)
  BY DEF OnCourse
<1> QED
  BY <1>1, <1>2, PlainBeginStep DEF Ops, Ats

LEMMA CreateAppSessionStep ==
    ASSUME SignInInv, NEW c \in Calls, NEW k \in sessions, CreateAppSession(c, k)
    PROVE  SignInInv'
<1>1. /\ CallBegins(c, "app", "insertApp", k.id, k.pw, k.coded, k.past, k.free) /\ OrdinaryRest
      /\ k.id \in Names /\ k.pw \in Names /\ k.coded \in BOOLEAN /\ k.past \in SUBSET Calls
      /\ k.free \in Names
  BY RestAsItIs, SessionFields DEF CreateAppSession, accountVars, SignInInv, SignInTypeOK
<1>2. \A j \in Call : j.op = "app" /\ j.at = "insertApp" => OnCourse(j)
  BY DEF OnCourse
<1>3. /\ Ended(password) => k.pw = password \/ password \in k.past
      /\ mfa.on /\ Ended(onBy) => k.coded \/ onBy \in k.past \/ k.free = onBy
  BY DEF SignInInv, ClosedInv, PasswordMet, CodeMet, OfPassword, WithCode, LetBy
<1>4. Rightly("app", "insertApp", k.id, k.pw, k.coded, k.past, k.free)
  BY <1>2, <1>3 DEF Rightly
<1> QED
  BY <1>1, <1>4, BeginStep DEF Ops, Ats

LEMMA FinishSteps ==
    ASSUME SignInInv, NEW c \in Calls, NEW p \in pendings, FinishWithCode(c, p) \/ FinishSetup(c, p)
    PROVE  SignInInv'
<1> DEFINE yes == TRUE
           past == p.past \union HalfWay
<1>1. /\ \/ CallBegins(c, "finish", "try", p.id, p.pw, yes, past, Nothing)
         \/ CallBegins(c, "finishSetup", "ours", p.id, p.pw, yes, past, Nothing)
      /\ OrdinaryRest /\ yes \in BOOLEAN
      /\ p.id \in Names /\ p.pw \in Names /\ past \in SUBSET Calls
  BY RestAsItIs, SessionFields DEF FinishWithCode, FinishSetup, accountVars, SignInInv, SignInTypeOK, HalfWay
<1>2. \A j \in Call :
         \/ j.op = "finish" /\ j.at = "try"
         \/ j.op = "finishSetup" /\ j.at = "ours"
         => OnCourse(j)
  BY DEF OnCourse
<1>3. Ended(password) => p.pw = password \/ password \in past
  BY DEF SignInInv, ClosedInv, PasswordMet, OfPassword, Ended, HalfWay
<1> HIDE DEF past
<1>4. /\ Rightly("finish", "try", p.id, p.pw, yes, past, Nothing)
      /\ Rightly("finishSetup", "ours", p.id, p.pw, yes, past, Nothing)
  BY <1>2, <1>3 DEF Rightly
<1>5. {"finish", "finishSetup"} \subseteq Ops /\ {"try", "ours"} \subseteq Ats /\ Nothing \in Names
  BY NamesFacts DEF Ops, Ats
<1> HIDE DEF yes
<1>6. CASE CallBegins(c, "finish", "try", p.id, p.pw, yes, past, Nothing)
  BY <1>1, <1>4, <1>5, <1>6, BeginStep, Zenon
<1>7. CASE CallBegins(c, "finishSetup", "ours", p.id, p.pw, yes, past, Nothing)
  BY <1>1, <1>4, <1>5, <1>7, BeginStep, Zenon
<1> QED
  BY <1>1, <1>6, <1>7

-----------------------------------------------------------------------------
(* The steps that do more.                                                     *)

\* One call goes on or ends, and what is opened is opened with what it carries.
OpeningRest ==
    /\ UNCHANGED <<password, closed>>
    /\ required' \in BOOLEAN /\ disabled' \in BOOLEAN /\ invite' \in Names /\ onBy' \in Names
    /\ sessions' \subseteq Session /\ pendings' \subseteq Pending
    /\ mfa' \in Mfa /\ recovery' \subseteq Names /\ failures' \subseteq Calls

LEMMA OpeningStep ==
    ASSUME SignInInv, NEW c \in Calls, CallMoves(c), OpeningRest,
           TriesInv', CodesQuiet, ClosedQuiet
    PROVE  SignInInv'
<1>1. SignInTypeOK /\ AllOnCourse /\ TriesInv /\ CodesInv /\ ClosedInv
  BY DEF SignInInv
<1>2. SignInTypeOK'
  BY <1>1 DEF SignInTypeOK, OpeningRest, CallMoves
<1>3. AllOnCourse'
  BY <1>1 DEF AllOnCourse, CallMoves
<1> QED
  BY <1>1, <1>2, <1>3, CodesQuietKeeps, ClosedQuietKeeps DEF SignInInv

LEMMA InsertSessionStep ==
    ASSUME SignInInv, NEW c \in Calls, InsertSession(c)
    PROVE  SignInInv'
<1> DEFINE scope == IF CallAt(c, "insert") THEN "site" ELSE "app"
           n == [id |-> c, scope |-> scope, pw |-> calls[c].pw,
                 coded |-> calls[c].coded, past |-> calls[c].past, free |-> calls[c].free]
<1>1. SignInTypeOK /\ AllOnCourse /\ TriesInv /\ CodesInv /\ ClosedInv
  BY DEF SignInInv
<1>2. /\ scope \in {"site", "app"} /\ c \in Names
      /\ calls[c].pw \in Names /\ calls[c].coded \in BOOLEAN /\ calls[c].past \in SUBSET Calls
      /\ calls[c].free \in Names
  BY <1>1, CallFields, NamesFacts
<1>3. /\ n \in Session /\ n.id = c /\ n.pw = calls[c].pw
      /\ n.coded = calls[c].coded /\ n.past = calls[c].past /\ n.free = calls[c].free
  <2> HIDE DEF scope
  <2> QED
    BY <1>2 DEF Session
<1>4. /\ calls[c].at \in {"insert", "insertApp"} /\ CallEnds(c) /\ sessions' = sessions \union {n}
      /\ UNCHANGED <<accountVars, pendings, closed>>
  BY DEF InsertSession
<1> HIDE DEF n
<1>5. CallMoves(c) /\ calls'[c].at = "done"
  BY <1>1, <1>4, EndsMoves, EndsFacts
<1>6. Opens(calls[c])
  <2>1. OnCourse(calls[c]) /\ calls[c] \in Call
    BY <1>1, CallFields DEF AllOnCourse
  <2> QED
    BY <1>4, <2>1 DEF OnCourse, Call, Opens
<1>7. OpeningRest
  BY <1>1, <1>3, <1>4 DEF OpeningRest, accountVars, SignInTypeOK
<1>8. TriesQuiet
  BY <1>3, <1>4, <1>5 DEF TriesQuiet, CallMoves
<1>9. CodesQuiet
  BY <1>1, <1>4, <1>5 DEF CodesQuiet, CallMoves, accountVars, CodesInv, SecretsMade
<1>10. SessionOf(n, c)
  BY <1>3, <1>4, <1>6 DEF SessionOf
<1>11. ClosedQuiet
  BY <1>4, <1>5, <1>10 DEF ClosedQuiet, CallMoves, accountVars
<1> QED
  BY <1>1, <1>5, <1>7, <1>8, <1>9, <1>11, TriesQuietKeeps, OpeningStep

LEMMA NewPendingStep ==
    ASSUME SignInInv, NEW c \in Calls, NewPending(c)
    PROVE  SignInInv'
<1> DEFINE n == [id |-> c, stage |-> calls[c].at, tries |-> 0, pw |-> calls[c].pw, past |-> calls[c].past,
                 free |-> calls[c].free]
           TriedNext(by) == {d \in Calls : calls'[d].by = by /\ calls'[d].tries > 0}
<1>1. SignInTypeOK /\ AllOnCourse /\ TriesInv /\ CodesInv /\ ClosedInv
  BY DEF SignInInv
<1>2. /\ calls[c].at \in {"code", "setup"} /\ CallEnds(c) /\ pendings' = pendings \union {n}
      /\ UNCHANGED <<accountVars, sessions, closed>>
  BY DEF NewPending
<1>3. /\ n \in Pending /\ n.id = c /\ n.pw = calls[c].pw /\ n.stage = calls[c].at
      /\ n.tries = 0 /\ n.past = calls[c].past /\ n.free = calls[c].free
  BY <1>1, <1>2, CallFields, NamesFacts, SignInAssumption DEF Pending
<1> HIDE DEF n
<1>4. CallMoves(c) /\ calls'[c].at = "done"
  BY <1>1, <1>2, EndsMoves, EndsFacts
<1>5. Opens(calls[c])
  <2>1. OnCourse(calls[c]) /\ calls[c] \in Call
    BY <1>1, CallFields DEF AllOnCourse
  <2> QED
    BY <1>2, <2>1 DEF OnCourse, Call, Opens
<1>6. OpeningRest
  BY <1>1, <1>2, <1>3 DEF OpeningRest, accountVars, SignInTypeOK
<1>7. CodesQuiet
  BY <1>1, <1>2, <1>4 DEF CodesQuiet, CallMoves, accountVars, CodesInv, SecretsMade
<1>8. PendingOf(n, c)
  BY <1>2, <1>3, <1>5 DEF PendingOf
<1>9. ClosedQuiet
  BY <1>2, <1>4, <1>8 DEF ClosedQuiet, CallMoves, accountVars
<1>10. \A d \in Calls :
          /\ calls'[d].tries > 0 => calls'[d].tries = calls[d].tries /\ calls'[d].by = calls[d].by
          /\ calls[d].by # c /\ calls'[d].by \in {calls[d].by, Nothing}
  BY <1>1, <1>2, <1>4 DEF CallMoves, TriesInv, IdsMade
<1>11. IdsMade'
  <2>1. IdsStep
    BY <1>2, <1>3, <1>4, <1>10 DEF IdsStep, CallMoves
  <2> QED
    BY <1>1, <2>1, IdsStepKeeps DEF TriesInv
<1>12. PendingsApart'
  <2>1. \A p \in pendings : p.id # c
    BY <1>1, <1>2 DEF TriesInv, IdsMade
  <2> QED
    BY <1>1, <1>2, <1>3, <2>1 DEF TriesInv, PendingsApart
<1>13. ASSUME NEW by \in Names
       PROVE  /\ IsFiniteSet(TriedNext(by)) /\ Cardinality(TriedNext(by)) <= MaxTries
              /\ Cardinality(TriedNext(by)) <= Cardinality(Tried(by))
              /\ Cardinality(TriedNext(by)) \in Nat
  <2>1. TriedNext(by) \subseteq Tried(by)
    BY <1>10 DEF Tried
  <2>2. IsFiniteSet(Tried(by)) /\ Cardinality(Tried(by)) <= MaxTries
    BY <1>1 DEF TriesInv, TriesOnPending
  <2>3. /\ Cardinality(Tried(by)) \in Nat /\ Cardinality(TriedNext(by)) \in Nat
        /\ IsFiniteSet(TriedNext(by)) /\ Cardinality(TriedNext(by)) <= Cardinality(Tried(by))
    BY <2>1, <2>2, FS_Subset, FS_CardinalityType
  <2> QED
    BY <2>2, <2>3, SignInAssumption
<1>14. ASSUME NEW p \in pendings' PROVE Cardinality(TriedNext(p.id)) <= p.tries
  <2>1. CASE p = n
    <3>1. TriedNext(p.id) = {}
      BY <1>3, <1>10, <2>1
    <3>2. Cardinality({}) = 0
      BY FS_EmptySet
    <3> HIDE DEF TriedNext
    <3> QED
      BY <1>3, <2>1, <3>1, <3>2
  <2>2. CASE p \in pendings
    <3>1. p.id \in Names /\ p.tries \in Nat
      BY <1>1, <2>2, SignInAssumption DEF SignInTypeOK, Pending
    <3>2. Cardinality(Tried(p.id)) <= p.tries /\ Cardinality(Tried(p.id)) \in Nat
      BY <1>1, <2>2, <3>1, FS_CardinalityType DEF TriesInv, TriesOnPending
    <3> HIDE DEF TriedNext
    <3> QED
      BY <1>13, <3>1, <3>2
  <2> QED
    BY <1>2, <2>1, <2>2
<1>15. TriesOnPending'
  BY <1>13, <1>14 DEF TriesOnPending, Tried
<1> QED
  BY <1>1, <1>4, <1>6, <1>7, <1>9, <1>11, <1>12, <1>15, OpeningStep DEF TriesInv

LEMMA DeleteSessionsForStep ==
    ASSUME SignInInv, NEW c \in Calls, DeleteSessionsFor(c)
    PROVE  SignInInv'
<1> DEFINE mark(s) == [s EXCEPT !.past = @ \union {c}]
           met(d) == [calls[d] EXCEPT !.past = @ \union {c}]
           k == [calls[c] EXCEPT !.at = "pendings"]
<1>1. SignInTypeOK /\ AllOnCourse /\ TriesInv /\ CodesInv /\ ClosedInv
  BY DEF SignInInv
<1>2. /\ calls[c].at = "sessions" /\ OnCourse(calls[c]) /\ calls[c] \in Call
      /\ \/ CallEnds(c) /\ calls[c].op \in {"reset", "disable"}
         \/ calls' = [GetPast(c) EXCEPT ![c] = k] /\ calls[c].op \notin {"reset", "disable"}
      /\ UNCHANGED <<accountVars, pendings, closed>>
  BY <1>1, CallFields DEF DeleteSessionsFor, CallAt, AllOnCourse
<1>3. ASSUME NEW s \in sessions
      PROVE  /\ mark(s) \in Session /\ mark(s).id = s.id /\ mark(s).pw = s.pw
             /\ mark(s).coded = s.coded /\ mark(s).free = s.free
             /\ s.past \subseteq mark(s).past /\ c \in mark(s).past
  <2> DEFINE more == s.past \union {c}
  <2>1. more \in SUBSET Calls /\ s \in Session
    BY <1>1 DEF SignInTypeOK, Session
  <2>2. mark(s) = [s EXCEPT !.past = more]
    OBVIOUS
  <2> HIDE DEF more, mark
  <2>3. /\ mark(s) \in Session /\ mark(s).id = s.id /\ mark(s).pw = s.pw
        /\ mark(s).coded = s.coded /\ mark(s).free = s.free /\ mark(s).past = more
    BY <2>1, <2>2 DEF Session
  <2> QED
    BY <2>3 DEF more
<1>4. \A s \in sessions' : \E t \in sessions :
         /\ calls[c].op \in {"change", "confirm"} /\ s = mark(t)
  BY DEF DeleteSessionsFor, Kept
<1>5. ASSUME NEW d \in Calls
      PROVE  /\ met(d) \in Call /\ met(d).op = calls[d].op /\ met(d).at = calls[d].at /\ met(d).by = calls[d].by
             /\ met(d).pw = calls[d].pw /\ met(d).coded = calls[d].coded /\ met(d).free = calls[d].free
             /\ met(d).tries = calls[d].tries /\ met(d).code = calls[d].code /\ met(d).proof = calls[d].proof
             /\ calls[d].past \subseteq met(d).past /\ c \in met(d).past
  <2> DEFINE more == calls[d].past \union {c}
  <2>1. more \in SUBSET Calls /\ calls[d] \in Call
    BY <1>1, CallFields
  <2>2. met(d) = [calls[d] EXCEPT !.past = more]
    OBVIOUS
  <2> HIDE DEF more, met
  <2>3. /\ met(d) \in Call /\ met(d).op = calls[d].op /\ met(d).at = calls[d].at /\ met(d).by = calls[d].by
        /\ met(d).pw = calls[d].pw /\ met(d).coded = calls[d].coded /\ met(d).free = calls[d].free
        /\ met(d).tries = calls[d].tries /\ met(d).code = calls[d].code /\ met(d).proof = calls[d].proof
        /\ met(d).past = more
    BY <2>1, <2>2 DEF Call
  <2> QED
    BY <2>3 DEF more
<1>6. /\ k \in Call /\ k.at = "pendings" /\ k.op = calls[c].op /\ k.by = calls[c].by
      /\ k.pw = calls[c].pw /\ k.coded = calls[c].coded /\ k.past = calls[c].past /\ k.free = calls[c].free
      /\ k.tries = calls[c].tries /\ k.code = calls[c].code /\ k.proof = calls[c].proof
  BY <1>2 DEF Call
<1>7. CASE CallEnds(c) /\ calls[c].op \in {"reset", "disable"}
  <2>1. sessions' = {}
    BY <1>4, <1>7
  <2>2. OrdinaryRest
    BY <1>1, <1>2, <2>1, RestAsItIs DEF accountVars, SignInTypeOK
  <2> QED
    BY <1>2, <1>7, <2>2, EndStep
<1>8. CASE calls' = [GetPast(c) EXCEPT ![c] = k] /\ calls[c].op \notin {"reset", "disable"}
  <2>1. \A d \in Calls : calls'[d] =
           IF d = c THEN k ELSE IF calls[d].at \in {"idle", "done"} THEN calls[d] ELSE met(d)
    BY <1>8 DEF GetPast, UnderWay
  <2>2. DOMAIN calls' = Calls /\ calls' = [d \in Calls |-> calls'[d]]
    BY <1>8 DEF GetPast
  <2> HIDE DEF mark, met, k
  <2>3. calls' \in [Calls -> Call]
    <3>1. \A d \in Calls : calls'[d] \in Call
      BY <1>1, <1>5, <1>6, <2>1, CallFields
    <3> QED
      BY <2>2, <3>1
  <2>4. ASSUME NEW d \in Calls
        PROVE  /\ calls'[d].op = calls[d].op /\ calls'[d].by = calls[d].by /\ calls'[d].pw = calls[d].pw
               /\ calls'[d].coded = calls[d].coded /\ calls'[d].free = calls[d].free
               /\ calls'[d].tries = calls[d].tries /\ calls'[d].code = calls[d].code
               /\ calls'[d].proof = calls[d].proof /\ calls[d].past \subseteq calls'[d].past
               /\ calls'[d].at = IF d = c THEN "pendings" ELSE calls[d].at
               /\ d # c /\ calls[d].at \notin {"idle", "done"} => c \in calls'[d].past
    BY <1>5, <1>6, <2>1
  <2>5. SignInTypeOK'
    BY <1>1, <1>2, <1>3, <1>4, <2>3 DEF SignInTypeOK, accountVars
  <2>6. AllOnCourse'
    <3>1. ASSUME NEW d \in Calls PROVE OnCourse(calls'[d])
      <4>1. CASE d = c
        BY <1>2, <1>8, <2>4, <4>1 DEF OnCourse, Call
      <4>2. CASE d # c
        BY <1>1, <2>4, <4>2 DEF AllOnCourse, OnCourse
      <4> QED
        BY <4>1, <4>2
    <3> QED
      BY <3>1 DEF AllOnCourse
  <2>7. TriesQuiet
    BY <1>2, <1>3, <1>4, <2>4 DEF TriesQuiet
  <2>8. CodesQuiet
    BY <1>1, <1>2, <2>4 DEF CodesQuiet, accountVars, CodesInv, SecretsMade, BeforeCodes
  <2>9. /\ password' = password /\ closed' = closed /\ onBy' = onBy /\ mfa' = mfa /\ pendings' = pendings
        /\ \A e : Ended(e)' => Ended(e) \/ e = c
    BY <1>2, <2>4 DEF accountVars, Ended
  <2>10. ClosedIsDone'
    BY <1>1, <1>2, <2>4, <2>9 DEF ClosedInv, ClosedIsDone, AfterClosing
  <2>11. PasswordByItsCall'
    BY <1>1, <1>2, <2>4, <2>9 DEF ClosedInv, PasswordByItsCall
  <2>12. ASSUME NEW d \in Calls, d # c, Opens(calls'[d])
         PROVE  c \in calls'[d].past /\ Opens(calls[d])
    <3>1. calls[d].at \notin {"idle", "done"} /\ Opens(calls[d])
      BY <1>1, <2>4, <2>12 DEF Opens, AllOnCourse, OnCourse
    <3> QED
      BY <2>4, <2>12, <3>1
  <2>13. PasswordMet'
    <3>1. ASSUME Ended(password)'
          PROVE  /\ \A s \in sessions' : s.pw = password \/ password \in s.past
                 /\ \A d \in Calls : Opens(calls'[d]) => calls'[d].pw = password \/ password \in calls'[d].past
      <4>1. CASE password = c
        <5>1. calls[c].op \in {"change", "accept"} /\ calls[c].pw = c
          BY <1>1, <1>2, <4>1 DEF ClosedInv, PasswordByItsCall
        <5>2. calls'[c].pw = c
          BY <2>4, <5>1
        <5> QED
          BY <1>3, <1>4, <2>12, <4>1, <5>2
      <4>2. CASE password # c
        <5>1. /\ \A s \in sessions : s.pw = password \/ password \in s.past
              /\ \A d \in Calls : Opens(calls[d]) => calls[d].pw = password \/ password \in calls[d].past
          BY <1>1, <2>9, <3>1, <4>2 DEF ClosedInv, PasswordMet, OfPassword
        <5>2. \A d \in Calls : Opens(calls'[d]) => Opens(calls[d])
          BY <1>2, <2>4 DEF Opens
        <5> QED
          BY <1>3, <1>4, <2>4, <5>1, <5>2
      <4> QED
        BY <4>1, <4>2
    <3>2. password \in closed => \A p \in pendings : p.pw = password \/ password \in p.past
      BY <1>1 DEF ClosedInv, PasswordMet, OfPassword
    <3> QED
      BY <2>9, <3>1, <3>2 DEF PasswordMet, OfPassword
  <2>14. CodedWhenFinished'
    BY <1>1, <2>4 DEF ClosedInv, CodedWhenFinished
  <2>15. CodeMet'
    <3>1. ASSUME mfa.on, Ended(onBy)'
          PROVE  /\ \A s \in sessions' : s.coded \/ onBy \in s.past \/ s.free = onBy
                 /\ \A d \in Calls :
                       /\ calls'[d].at \in {"active", "insert", "insertApp"} =>
                             calls'[d].coded \/ onBy \in calls'[d].past \/ calls'[d].free = onBy
                       /\ calls'[d].at = "setup" => onBy \in calls'[d].past \/ calls'[d].free = onBy
      <4>1. CASE onBy = c
        BY <1>3, <1>4, <2>4, <4>1
      <4>2. CASE onBy # c
        <5>1. /\ \A s \in sessions : s.coded \/ onBy \in s.past \/ s.free = onBy
              /\ \A d \in Calls :
                    /\ calls[d].at \in {"active", "insert", "insertApp"} =>
                          calls[d].coded \/ onBy \in calls[d].past \/ calls[d].free = onBy
                    /\ calls[d].at = "setup" => onBy \in calls[d].past \/ calls[d].free = onBy
          BY <1>1, <2>9, <3>1, <4>2 DEF ClosedInv, CodeMet, WithCode, LetBy
        <5> QED
          BY <1>3, <1>4, <2>4, <5>1
      <4> QED
        BY <4>1, <4>2
    <3>2. mfa.on /\ onBy \in closed => \A p \in pendings : p.stage = "code" \/ onBy \in p.past \/ p.free = onBy
      BY <1>1 DEF ClosedInv, CodeMet, LetBy
    <3> QED
      BY <2>9, <3>1, <3>2 DEF CodeMet, WithCode, LetBy
  <2>16. ClosedInv'
    BY <2>10, <2>11, <2>13, <2>14, <2>15 DEF ClosedInv
  <2> QED
    BY <1>1, <2>5, <2>6, <2>7, <2>8, <2>16, TriesQuietKeeps, CodesQuietKeeps DEF SignInInv
<1> QED
  BY <1>2, <1>7, <1>8

LEMMA BeginMfaStep ==
    ASSUME SignInInv, NEW c \in Calls, BeginMfa(c)
    PROVE  SignInInv'
<1> DEFINE no == FALSE
           m == [secret |-> c, on |-> no, last |-> 0, by |-> calls[c].by]
<1>1. SignInTypeOK /\ AllOnCourse /\ TriesInv /\ CodesInv /\ ClosedInv
  BY DEF SignInInv
<1>2. /\ calls[c].at = "begin" /\ CallEnds(c)
      /\ \/ mfa' = mfa
         \/ mfa' = m
      /\ UNCHANGED <<required, password, disabled, invite, recovery, failures, onBy, sessions, pendings, closed>>
  BY DEF BeginMfa, CallAt
<1>3. no \in BOOLEAN /\ ~no
  OBVIOUS
<1> HIDE DEF no
<1>4. m \in Mfa /\ m.secret = c /\ ~m.on
  BY <1>1, <1>3, CallFields, NamesFacts DEF Mfa
<1> HIDE DEF m
<1>5. CallMoves(c) /\ calls'[c].at = "done"
  BY <1>1, <1>2, EndsMoves, EndsFacts
<1>6. OpeningRest
  BY <1>1, <1>2, <1>4 DEF OpeningRest, SignInTypeOK
<1>7. TriesQuiet
  BY <1>2, <1>5 DEF TriesQuiet, CallMoves
<1>8. CodesQuiet
  BY <1>1, <1>2, <1>4, <1>5 DEF CodesQuiet, CallMoves, CodesInv, SecretsMade
<1>9. ClosedQuiet
  BY <1>2, <1>4, <1>5 DEF ClosedQuiet, CallMoves
<1> QED
  BY <1>1, <1>5, <1>6, <1>7, <1>8, <1>9, TriesQuietKeeps, OpeningStep

LEMMA EnableMfaStep ==
    ASSUME SignInInv, NEW c \in Calls, EnableMfa(c)
    PROVE  SignInInv'
<1> DEFINE yes == TRUE
           m == [mfa EXCEPT !.on = yes, !.by = Nothing]
<1>1. SignInTypeOK /\ AllOnCourse /\ TriesInv /\ CodesInv /\ ClosedInv
  BY DEF SignInInv
<1>2. /\ calls[c].at = "enable"
      /\ \/ CallEnds(c) /\ UNCHANGED <<mfa, onBy>>
         \/ mfa.secret # Nothing /\ mfa' = m /\ onBy' = c /\ CallGoes(c, "codes")
      /\ UNCHANGED <<required, password, disabled, invite, recovery, failures, sessions, pendings, closed>>
  BY DEF EnableMfa, CallAt
<1>3. yes \in BOOLEAN
  OBVIOUS
<1> HIDE DEF yes
<1>4. m \in Mfa /\ m.secret = mfa.secret /\ m.last = mfa.last
  BY <1>1, <1>3, NamesFacts DEF Mfa, SignInTypeOK
<1> HIDE DEF m
<1>5. CASE CallEnds(c) /\ UNCHANGED <<mfa, onBy>>
  <2>1. OrdinaryRest
    BY <1>1, <1>2, <1>5, RestAsItIs DEF SignInTypeOK
  <2> QED
    BY <1>2, <1>5, <2>1, EndStep
<1>6. CASE mfa.secret # Nothing /\ mfa' = m /\ onBy' = c /\ CallGoes(c, "codes")
  <2>1. calls'[c] \in Call /\ calls'[c].op = calls[c].op /\ calls'[c].at = "codes"
    BY <1>1, <1>6, GoesFacts DEF Ats
  <2>2. OnCourse(calls'[c])
    <3>1. OnCourse(calls[c]) /\ calls[c] \in Call
      BY <1>1, CallFields DEF AllOnCourse
    <3> QED
      BY <1>2, <2>1, <3>1 DEF OnCourse, Call
  <2>3. CallMoves(c)
    BY <1>2, <1>6, <2>2, GoesMoves DEF Ats, BeforeCodes, AfterClosing
  <2>4. OpeningRest
    BY <1>1, <1>2, <1>4, <1>6, NamesFacts DEF OpeningRest, SignInTypeOK
  <2>5. TriesQuiet
    BY <1>2, <2>3 DEF TriesQuiet, CallMoves
  <2>6. CodesQuiet
    BY <1>2, <1>4, <1>6, <2>3 DEF CodesQuiet, CallMoves
  <2>7. c \notin closed
    BY <1>1, <1>2 DEF ClosedInv, ClosedIsDone, AfterClosing
  <2>8. ClosedQuiet
    BY <1>2, <1>6, <2>1, <2>3, <2>7 DEF ClosedQuiet, CallMoves
  <2> QED
    BY <1>1, <2>3, <2>4, <2>5, <2>6, <2>8, TriesQuietKeeps, OpeningStep
<1> QED
  BY <1>2, <1>5, <1>6

LEMMA ReplaceRecoveryCodesStep ==
    ASSUME SignInInv, NEW c \in Calls, ReplaceRecoveryCodes(c)
    PROVE  SignInInv'
<1>1. SignInTypeOK /\ AllOnCourse /\ TriesInv /\ CodesInv /\ ClosedInv
  BY DEF SignInInv
<1>2. /\ calls[c].at = "codes" /\ recovery' = {c}
      /\ CallEnds(c) \/ (calls[c].op # "regenerate" /\ CallGoes(c, "sessions"))
      /\ UNCHANGED <<required, password, disabled, invite, mfa, failures, onBy, sessions, pendings, closed>>
  BY DEF ReplaceRecoveryCodes, CallAt, GoesOrEnds
<1>3. CallMoves(c) /\ calls'[c].at \in {"done", "sessions"}
  <2>1. CASE CallEnds(c)
    BY <1>1, <1>2, <2>1, EndsMoves, EndsFacts
  <2>2. CASE calls[c].op # "regenerate" /\ CallGoes(c, "sessions")
    <3>1. calls'[c] \in Call /\ calls'[c].op = calls[c].op /\ calls'[c].at = "sessions"
      BY <1>1, <2>2, GoesFacts DEF Ats
    <3>2. OnCourse(calls'[c])
      <4>1. OnCourse(calls[c]) /\ calls[c] \in Call
        BY <1>1, CallFields DEF AllOnCourse
      <4> QED
        BY <1>2, <2>2, <3>1, <4>1 DEF OnCourse, Call
    <3> QED
      BY <1>2, <2>2, <3>1, <3>2, GoesMoves DEF Ats, BeforeCodes, AfterClosing
  <2> QED
    BY <1>2, <2>1, <2>2
<1>4. OpeningRest
  BY <1>1, <1>2, NamesFacts DEF OpeningRest, SignInTypeOK
<1>5. TriesQuiet
  BY <1>2, <1>3 DEF TriesQuiet, CallMoves
<1>6. CodesQuiet
  BY <1>1, <1>2, <1>3 DEF CodesQuiet, CallMoves, CodesInv, SecretsMade, BeforeCodes
<1>7. ClosedQuiet
  BY <1>2, <1>3 DEF ClosedQuiet, CallMoves
<1> QED
  BY <1>1, <1>3, <1>4, <1>5, <1>6, <1>7, TriesQuietKeeps, OpeningStep

LEMMA SetPasswordHashStep ==
    ASSUME SignInInv, NEW c \in Calls, SetPasswordHash(c)
    PROVE  SignInInv'
<1> DEFINE k == [calls[c] EXCEPT !.at = "sessions", !.pw = c]
<1>1. SignInTypeOK /\ AllOnCourse /\ TriesInv /\ CodesInv /\ ClosedInv
  BY DEF SignInInv
<1>2. /\ calls[c].at = "set" /\ password' = c /\ calls' = [calls EXCEPT ![c] = k]
      /\ UNCHANGED <<required, disabled, invite, mfa, recovery, failures, onBy, sessions, pendings, closed>>
  BY <1>1, CallFields DEF SetPasswordHash, CallAt
<1>3. /\ k \in Call /\ k.at = "sessions" /\ k.pw = c /\ k.op = calls[c].op /\ k.by = calls[c].by
      /\ k.coded = calls[c].coded /\ k.past = calls[c].past /\ k.free = calls[c].free
      /\ k.tries = calls[c].tries /\ k.code = calls[c].code /\ k.proof = calls[c].proof
  <2>1. calls[c] \in Call /\ c \in Names
    BY <1>1, CallFields, NamesFacts
  <2> QED
    BY <2>1 DEF Call
<1> HIDE DEF k
<1>4. /\ calls' \in [Calls -> Call] /\ calls'[c] = k
      /\ \A d \in Calls : d # c => calls'[d] = calls[d]
  BY <1>1, <1>2, <1>3, CallFields
<1>5. calls[c].op \in {"change", "accept"}
  <2>1. OnCourse(calls[c]) /\ calls[c] \in Call
    BY <1>1, CallFields DEF AllOnCourse
  <2> QED
    BY <1>2, <2>1 DEF OnCourse, Call
<1>6. c \notin closed
  BY <1>1, <1>2 DEF ClosedInv, ClosedIsDone, AfterClosing
<1>7. SignInTypeOK'
  BY <1>1, <1>2, <1>4, NamesFacts DEF SignInTypeOK
<1>8. AllOnCourse'
  <2>1. OnCourse(k)
    BY <1>3, <1>5 DEF OnCourse
  <2> QED
    BY <1>1, <1>4, <2>1 DEF AllOnCourse
<1>9. TriesQuiet
  BY <1>2, <1>3, <1>4 DEF TriesQuiet
<1>10. CodesQuiet
  BY <1>1, <1>2, <1>3, <1>4 DEF CodesQuiet, CodesInv, SecretsMade, BeforeCodes
<1>11. ClosedInv'
  <2>1. ClosedIsDone'
    BY <1>1, <1>2, <1>4, <1>6 DEF ClosedInv, ClosedIsDone
  <2>2. PasswordByItsCall'
    BY <1>1, <1>2, <1>3, <1>4, <1>5 DEF ClosedInv, PasswordByItsCall
  <2>3. PasswordMet'
    BY <1>2, <1>3, <1>4, <1>6 DEF PasswordMet, Ended
  <2>4. CodedWhenFinished'
    BY <1>1, <1>3, <1>4, <1>5 DEF ClosedInv, CodedWhenFinished
  <2>5. CodeMet'
    <3>1. \A e : Ended(e)' => Ended(e)
      BY <1>2, <1>3, <1>4 DEF Ended
    <3>2. \A d \in Calls :
             calls'[d].at \in {"active", "insert", "insertApp", "setup"} => calls'[d] = calls[d]
      BY <1>3, <1>4
    <3> QED
      BY <1>1, <1>2, <3>1, <3>2 DEF ClosedInv, CodeMet, WithCode, LetBy
  <2> QED
    BY <2>1, <2>2, <2>3, <2>4, <2>5 DEF ClosedInv
<1> QED
  BY <1>1, <1>7, <1>8, <1>9, <1>10, <1>11, TriesQuietKeeps, CodesQuietKeeps DEF SignInInv

LEMMA EndPendingsStep ==
    ASSUME SignInInv, NEW c \in Calls, EndPendings(c)
    PROVE  SignInInv'
<1> DEFINE to == IF calls[c].op = "accept" THEN "primary" ELSE "delete"
<1>1. SignInTypeOK /\ AllOnCourse /\ TriesInv /\ CodesInv /\ ClosedInv
  BY DEF SignInInv
<1>2. /\ calls[c].at = "pendings" /\ pendings' = {} /\ closed' = closed \union {c}
      /\ CallEnds(c) \/ (calls[c].op \notin {"change", "confirm"} /\ CallGoes(c, to))
      /\ to \in {"primary", "delete"} /\ (calls[c].op = "accept" <=> to = "primary")
      /\ UNCHANGED <<accountVars, sessions>>
  BY DEF EndPendings, CallAt, GoesOrEnds, DeletePendingFor
<1> HIDE DEF to
<1>3. calls[c].op \in {"change", "accept", "confirm", "finishSetup"}
  <2>1. OnCourse(calls[c]) /\ calls[c] \in Call
    BY <1>1, CallFields DEF AllOnCourse
  <2> QED
    BY <1>2, <2>1 DEF OnCourse, Call
<1>4. /\ calls' \in [Calls -> Call] /\ \A d \in Calls : d # c => calls'[d] = calls[d]
      /\ calls'[c].by \in {calls[c].by, Nothing}
      /\ calls'[c].tries > 0 => calls'[c].tries = calls[c].tries /\ calls'[c].by = calls[c].by
      /\ calls'[c].code \in {calls[c].code, NoProof}
      /\ calls'[c].proof \in {calls[c].proof, NoProof}
      /\ calls'[c].at \in {"primary", "delete", "done"}
      /\ \/ calls'[c].at = "done" /\ calls'[c].op = "none"
         \/ /\ calls'[c].at = to /\ calls'[c].op = calls[c].op /\ calls'[c].pw = calls[c].pw
            /\ calls'[c].coded = calls[c].coded /\ calls'[c].past = calls[c].past
            /\ calls[c].op \in {"accept", "finishSetup"}
  <2>1. CASE CallEnds(c)
    BY <1>1, <2>1, EndsFacts
  <2>2. CASE calls[c].op \notin {"change", "confirm"} /\ CallGoes(c, to)
    BY <1>1, <1>2, <1>3, <2>2, GoesFacts DEF Ats
  <2> QED
    BY <1>2, <2>1, <2>2
<1>5. SignInTypeOK'
  BY <1>1, <1>2, <1>4, NamesFacts DEF SignInTypeOK, accountVars
<1>6. AllOnCourse'
  <2>1. OnCourse(calls'[c])
    BY <1>2, <1>4 DEF OnCourse
  <2> QED
    BY <1>1, <1>4, <2>1 DEF AllOnCourse
<1>7. TriesQuiet
  BY <1>2, <1>4 DEF TriesQuiet
<1>8. CodesQuiet
  BY <1>1, <1>2, <1>4 DEF CodesQuiet, CodesInv, SecretsMade, BeforeCodes, accountVars
<1>9. ClosedIsDone'
  BY <1>1, <1>2, <1>4 DEF ClosedInv, ClosedIsDone, AfterClosing
<1>10. PasswordByItsCall'
  BY <1>1, <1>2, <1>4 DEF ClosedInv, PasswordByItsCall, accountVars
<1>11. \A e : Ended(e)' => Ended(e)
  BY <1>2, <1>4 DEF Ended
<1>12. PasswordMet'
  <2>1. \A d \in Calls : Opens(calls'[d]) =>
           Opens(calls[d]) /\ calls'[d].pw = calls[d].pw /\ calls'[d].past = calls[d].past
    BY <1>2, <1>4 DEF Opens
  <2> QED
    BY <1>1, <1>2, <1>11, <2>1 DEF ClosedInv, PasswordMet, OfPassword, accountVars
<1>13. CodedWhenFinished'
  BY <1>1, <1>4 DEF ClosedInv, CodedWhenFinished
<1>14. CodeMet'
  <2>1. \A d \in Calls :
           calls'[d].at \in {"active", "insert", "insertApp", "setup"} => calls'[d] = calls[d]
    BY <1>4
  <2> QED
    BY <1>1, <1>2, <1>11, <2>1 DEF ClosedInv, CodeMet, WithCode, LetBy, accountVars
<1>15. ClosedInv'
  BY <1>9, <1>10, <1>12, <1>13, <1>14 DEF ClosedInv
<1> QED
  BY <1>1, <1>5, <1>6, <1>7, <1>8, <1>15, TriesQuietKeeps, CodesQuietKeeps DEF SignInInv

\* A call goes on with what it has read or has been let in by.
CallProves(c) ==
    /\ calls' \in [Calls -> Call] /\ \A d \in Calls : d # c => calls'[d] = calls[d]
    /\ calls[c].at \in {"read", "advance"} /\ calls'[c].at \in {"advance", "release", "enable"}
    /\ calls'[c].op = calls[c].op /\ calls'[c].by = calls[c].by /\ calls'[c].pw = calls[c].pw
    /\ calls'[c].coded = calls[c].coded /\ calls'[c].past = calls[c].past
    /\ calls'[c].free = calls[c].free /\ calls'[c].tries = calls[c].tries
    /\ OnCourse(calls'[c])

ProvesRest ==
    /\ UNCHANGED <<required, password, disabled, invite, failures, onBy, sessions, pendings, closed>>
    /\ mfa' \in Mfa /\ mfa'.on = mfa.on /\ recovery' \subseteq recovery

LEMMA ProvesStep ==
    ASSUME SignInInv, NEW c \in Calls, CallProves(c), ProvesRest, CodesInv'
    PROVE  SignInInv'
<1>1. SignInTypeOK /\ AllOnCourse /\ TriesInv /\ CodesInv /\ ClosedInv
  BY DEF SignInInv
<1>2. SignInTypeOK'
  BY <1>1 DEF SignInTypeOK, ProvesRest, CallProves
<1>3. AllOnCourse'
  BY <1>1 DEF AllOnCourse, CallProves
<1>4. TriesQuiet
  BY DEF TriesQuiet, ProvesRest, CallProves
<1>5. Onward(c)
  BY DEF CallProves, Onward, AfterClosing
<1>6. ClosedQuiet
  BY <1>5 DEF ClosedQuiet, ProvesRest, CallProves
<1> QED
  BY <1>1, <1>2, <1>3, <1>4, <1>6, TriesQuietKeeps, ClosedQuietKeeps DEF SignInInv

LEMMA ReadSecretStep ==
    ASSUME SignInInv, NEW c \in Calls, ReadSecret(c)
    PROVE  SignInInv'
<1>1. SignInTypeOK /\ AllOnCourse /\ TriesInv /\ CodesInv /\ ClosedInv
  BY DEF SignInInv
<1>2. /\ calls[c].at = "read"
      /\ UNCHANGED <<accountVars, sessions, pendings, closed>>
  BY DEF ReadSecret, CallAt
<1>3. OrdinaryRest
  BY <1>1, <1>2, RestAsItIs DEF accountVars, SignInTypeOK
<1>4. CASE AfterWrong(c)
  BY <1>2, <1>3, <1>4, AfterWrongStep
<1>5. ASSUME NEW t \in TotpSteps, t > mfa.last, mfa.on \/ SetupBy(calls[c].by),
             calls' = [calls EXCEPT ![c].at = "advance", ![c].code = [secret |-> mfa.secret, step |-> t]]
      PROVE  SignInInv'
  <2> DEFINE code == [secret |-> mfa.secret, step |-> t]
             k == [calls[c] EXCEPT !.at = "advance", !.code = code]
  <2>1. calls' = [calls EXCEPT ![c] = k] /\ calls \in [Calls -> Call] /\ calls[c] \in Call
    BY <1>1, <1>5, CallFields
  <2>2. code \in Proof /\ code.secret = mfa.secret /\ mfa.secret # Nothing
    BY <1>1, <1>5, SignInAssumption DEF Proof, SignInTypeOK, Mfa, SetupBy, CodesInv, SecretsMade
  <2> HIDE DEF code
  <2>3. /\ k \in Call /\ k.at = "advance" /\ k.op = calls[c].op /\ k.by = calls[c].by
        /\ k.pw = calls[c].pw /\ k.coded = calls[c].coded /\ k.past = calls[c].past
        /\ k.free = calls[c].free /\ k.tries = calls[c].tries /\ k.code = code /\ k.proof = calls[c].proof
    BY <2>1, <2>2 DEF Call
  <2> HIDE DEF k
  <2>4. /\ calls' \in [Calls -> Call] /\ calls'[c] = k
        /\ \A d \in Calls : d # c => calls'[d] = calls[d]
    BY <2>1, <2>3
  <2>5. OnCourse(k)
    <3>1. OnCourse(calls[c])
      BY <1>1 DEF AllOnCourse
    <3> QED
      BY <1>2, <2>3, <3>1 DEF OnCourse
  <2>6. CallProves(c) /\ ProvesRest
    BY <1>1, <1>2, <2>3, <2>4, <2>5 DEF CallProves, ProvesRest, accountVars, SignInTypeOK
  <2>7. /\ \A d \in Calls : calls'[d].proof = calls[d].proof
        /\ \A d \in Calls : calls'[d].code = calls[d].code \/ calls'[d].code.secret = mfa.secret
        /\ \A d \in Calls : calls'[d].at \in {"idle", "ours", "begin"} => calls[d].at \in {"idle", "ours", "begin"}
        /\ \A d \in Calls : calls'[d].at \in BeforeCodes => calls[d].at \in BeforeCodes
        /\ mfa' = mfa /\ recovery' = recovery
    BY <1>2, <2>2, <2>3, <2>4 DEF BeforeCodes, accountVars
  <2>8. SecretsMade'
    BY <1>1, <2>2, <2>7 DEF CodesInv, SecretsMade
  <2>9. RecoveryMade'
    BY <1>1, <2>7 DEF CodesInv, RecoveryMade
  <2>10. LastIsLatest' /\ ProofsApart'
    BY <1>1, <2>7 DEF CodesInv, LastIsLatest, ProofsApart
  <2> QED
    BY <2>6, <2>8, <2>9, <2>10, ProvesStep DEF CodesInv
<1> QED
  BY <1>4, <1>5 DEF ReadSecret

\* What a call is let in by it has from its check; the rest of it stays.
LEMMA AcceptedFacts ==
    ASSUME SignInInv, NEW c \in Calls, NEW code \in Proof,
           calls[c].at = "advance" \/ (calls[c].at = "read" /\ Enabled(c)), AfterAccepted(c, code)
    PROVE  /\ CallProves(c) /\ calls'[c].proof = code
           /\ \A d \in Calls :
                 /\ calls'[d].code = calls[d].code
                 /\ d # c => calls'[d].proof = calls[d].proof
                 /\ calls'[d].at \in {"idle", "ours", "begin"} => calls[d].at \in {"idle", "ours", "begin"}
                 /\ calls'[d].at \in BeforeCodes => calls[d].at \in BeforeCodes
<1> DEFINE to == IF Enabled(c) THEN "release" ELSE "enable"
           k == [calls[c] EXCEPT !.at = to, !.proof = code]
<1>1. /\ calls' = [calls EXCEPT ![c] = k] /\ calls \in [Calls -> Call] /\ calls[c] \in Call
      /\ OnCourse(calls[c])
  BY CallFields DEF AfterAccepted, SignInInv, AllOnCourse
<1>2. /\ to \in {"release", "enable"}
      /\ to = "release" <=> calls[c].op \in {"finish", "turnOff", "regenerate"}
  BY DEF Enabled
<1> HIDE DEF to
<1>3. /\ k \in Call /\ k.at = to /\ k.op = calls[c].op /\ k.by = calls[c].by
      /\ k.pw = calls[c].pw /\ k.coded = calls[c].coded /\ k.past = calls[c].past
      /\ k.free = calls[c].free /\ k.tries = calls[c].tries /\ k.code = calls[c].code /\ k.proof = code
  BY <1>1, <1>2 DEF Call
<1> HIDE DEF k
<1>4. /\ calls' \in [Calls -> Call] /\ calls'[c] = k
      /\ \A d \in Calls : d # c => calls'[d] = calls[d]
  BY <1>1, <1>3
<1>5. OnCourse(k)
  BY <1>1, <1>2, <1>3 DEF OnCourse, Call, Enabled
<1> QED
  BY <1>2, <1>3, <1>4, <1>5 DEF CallProves, BeforeCodes

LEMMA AdvanceStepStep ==
    ASSUME SignInInv, NEW c \in Calls, AdvanceStep(c)
    PROVE  SignInInv'
<1> DEFINE code == calls[c].code
           m == [mfa EXCEPT !.last = code.step]
<1>1. SignInTypeOK /\ AllOnCourse /\ TriesInv /\ CodesInv /\ ClosedInv
  BY DEF SignInInv
<1>2. /\ calls[c].at = "advance"
      /\ \/ AfterWrong(c) /\ mfa' = mfa
         \/ mfa.last < code.step /\ mfa' = m /\ AfterAccepted(c, code)
      /\ UNCHANGED <<required, password, disabled, invite, recovery, failures, onBy, sessions, pendings, closed>>
  BY DEF AdvanceStep, CallAt, Later
<1>3. CASE AfterWrong(c) /\ mfa' = mfa
  <2>1. OrdinaryRest
    BY <1>1, <1>2, <1>3, RestAsItIs DEF SignInTypeOK
  <2> QED
    BY <1>2, <1>3, <2>1, AfterWrongStep
<1>4. CASE mfa.last < code.step /\ mfa' = m /\ AfterAccepted(c, code)
  <2>1. code \in Proof /\ code.step \in TotpSteps \union {0} /\ mfa \in Mfa /\ mfa.last \in Nat /\ code.step \in Nat
    <3>1. code \in Proof /\ mfa \in Mfa
      BY <1>1, CallFields DEF SignInTypeOK
    <3>2. code.step \in TotpSteps \union {0} /\ mfa.last \in TotpSteps \union {0}
      BY <3>1 DEF Proof, Mfa
    <3>3. \A t \in TotpSteps \union {0} : t \in Nat
      BY SignInAssumption
    <3> HIDE DEF code
    <3> QED
      BY <3>1, <3>2, <3>3
  <2>2. m \in Mfa /\ m.on = mfa.on /\ m.secret = mfa.secret /\ m.last = code.step
    <3> HIDE DEF code
    <3> QED
      BY <2>1 DEF Mfa
  <2>3. code.step # 0
    BY <1>4, <2>1
  <2> HIDE DEF m
  <2>4. /\ CallProves(c) /\ calls'[c].proof = code
        /\ \A d \in Calls :
              /\ calls'[d].code = calls[d].code
              /\ d # c => calls'[d].proof = calls[d].proof
              /\ calls'[d].at \in {"idle", "ours", "begin"} => calls[d].at \in {"idle", "ours", "begin"}
              /\ calls'[d].at \in BeforeCodes => calls[d].at \in BeforeCodes
    BY <1>2, <1>4, <2>1, AcceptedFacts
  <2>5. ProvesRest
    BY <1>2, <1>4, <2>2 DEF ProvesRest
  <2>6. SecretsMade'
    BY <1>1, <1>4, <2>2, <2>3, <2>4 DEF CodesInv, SecretsMade
  <2>7. RecoveryMade'
    BY <1>1, <1>2, <2>3, <2>4 DEF CodesInv, RecoveryMade
  <2>8. LastIsLatest'
    <3>1. ASSUME NEW d \in Calls, calls'[d].proof.step # 0, calls'[d].proof.secret = mfa.secret
          PROVE  calls'[d].proof.step <= code.step
      <4>1. CASE d = c
        BY <2>1, <2>4, <4>1
      <4>2. CASE d # c
        <5>1. calls[d].proof.step <= mfa.last /\ calls[d].proof.step \in Nat
          BY <1>1, <2>4, <3>1, <4>2, CallFields, SignInAssumption DEF CodesInv, LastIsLatest, Proof
        <5> QED
          BY <1>4, <2>1, <2>4, <4>2, <5>1
      <4> QED
        BY <4>1, <4>2
    <3> QED
      BY <1>4, <2>2, <3>1 DEF LastIsLatest
  <2>9. ProofsApart'
    <3>1. ASSUME NEW d \in Calls, d # c, calls[d].proof = code
          PROVE  code.secret # mfa.secret
      <4>1. SUFFICES ASSUME code.secret = mfa.secret PROVE FALSE
        OBVIOUS
      <4>2. calls[d].proof.step <= mfa.last
        BY <1>1, <2>3, <3>1, <4>1 DEF CodesInv, LastIsLatest
      <4> QED
        BY <1>4, <2>1, <3>1, <4>2
    <3>2. ASSUME NEW d \in Calls, NEW e \in Calls, d # e,
                 calls'[d].proof = calls'[e].proof, calls'[d].proof # NoProof
          PROVE  calls'[d].proof.step # 0 /\ calls'[d].proof.secret # mfa.secret
      <4>1. CASE d = c
        BY <2>3, <2>4, <3>1, <3>2, <4>1
      <4>2. CASE e = c
        BY <2>3, <2>4, <3>1, <3>2, <4>2
      <4>3. CASE d # c /\ e # c
        BY <1>1, <2>4, <3>2, <4>3 DEF CodesInv, ProofsApart
      <4> QED
        BY <4>1, <4>2, <4>3
    <3> QED
      BY <1>4, <2>2, <3>2 DEF ProofsApart
  <2> QED
    BY <2>4, <2>5, <2>6, <2>7, <2>8, <2>9, ProvesStep DEF CodesInv
<1> QED
  BY <1>2, <1>3, <1>4

LEMMA SpendRecoveryCodeStep ==
    ASSUME SignInInv, NEW c \in Calls, NEW r \in recovery, SpendRecoveryCode(c, r)
    PROVE  SignInInv'
<1> DEFINE code == [secret |-> r, step |-> 0]
<1>1. SignInTypeOK /\ AllOnCourse /\ TriesInv /\ CodesInv /\ ClosedInv
  BY DEF SignInInv
<1>2. /\ calls[c].at = "read" /\ Enabled(c) /\ AfterAccepted(c, code)
      /\ recovery' = recovery \ {r}
      /\ UNCHANGED <<required, password, disabled, invite, mfa, failures, onBy, sessions, pendings, closed>>
  BY DEF SpendRecoveryCode, CallAt, Enabled
<1>3. code \in Proof /\ code.secret = r /\ code.step = 0
  BY <1>1 DEF Proof, SignInTypeOK
<1> HIDE DEF code
<1>4. /\ CallProves(c) /\ calls'[c].proof = code
      /\ \A d \in Calls :
            /\ calls'[d].code = calls[d].code
            /\ d # c => calls'[d].proof = calls[d].proof
            /\ calls'[d].at \in {"idle", "ours", "begin"} => calls[d].at \in {"idle", "ours", "begin"}
            /\ calls'[d].at \in BeforeCodes => calls[d].at \in BeforeCodes
  BY <1>2, <1>3, AcceptedFacts
<1>5. ProvesRest
  BY <1>1, <1>2 DEF ProvesRest, SignInTypeOK
<1>6. SecretsMade'
  BY <1>1, <1>2, <1>3, <1>4 DEF CodesInv, SecretsMade
<1>7. RecoveryMade'
  BY <1>1, <1>2, <1>3, <1>4 DEF CodesInv, RecoveryMade
<1>8. LastIsLatest'
  BY <1>1, <1>2, <1>3, <1>4 DEF CodesInv, LastIsLatest
<1>9. ProofsApart'
  <2>1. \A d \in Calls : calls[d].proof # code
    BY <1>1, <1>3 DEF CodesInv, RecoveryMade
  <2> QED
    BY <1>1, <1>2, <1>4, <2>1 DEF CodesInv, ProofsApart
<1> QED
  BY <1>4, <1>5, <1>6, <1>7, <1>8, <1>9, ProvesStep DEF CodesInv

LEMMA TakeTryStep ==
    ASSUME SignInInv, NEW c \in Calls, TakeTry(c)
    PROVE  SignInInv'
<1> DEFINE mine == {p \in pendings : p.id = calls[c].by /\ TryLeft(p)}
           count(p) == [p EXCEPT !.tries = @ + 1]
           to == IF calls[c].op = "finish" THEN "attempt" ELSE "read"
<1>1. SignInTypeOK /\ AllOnCourse /\ TriesInv /\ CodesInv /\ ClosedInv
  BY DEF SignInInv
<1>2. /\ calls[c].at = "try" /\ calls[c] \in Call /\ OnCourse(calls[c])
      /\ UNCHANGED <<accountVars, sessions, closed>>
  BY <1>1, CallFields DEF TakeTry, CallAt, AllOnCourse
<1>3. calls[c].op \in {"finish", "finishSetup"}
  BY <1>2 DEF OnCourse, Call
<1>4. CASE mine = {}
  <2>1. CallGoes(c, "drop") /\ pendings' = pendings
    BY <1>4 DEF TakeTry
  <2>2. OrdinaryRest
    BY <1>1, <1>2, <2>1, RestAsItIs DEF accountVars, SignInTypeOK
  <2>3. \A k \in Call : k.op = calls[c].op /\ k.at = "drop" => OnCourse(k)
    BY <1>3 DEF OnCourse
  <2> QED
    BY <1>2, <2>1, <2>2, <2>3, GoStep DEF Ats, BeforeCodes, AfterClosing
<1>5. ASSUME NEW q \in pendings, q.id = calls[c].by, q.tries < MaxTries,
             pendings' = (pendings \ {q}) \union {count(q)},
             calls' = [calls EXCEPT ![c].tries = count(q).tries, ![c].at = to]
      PROVE  SignInInv'
  <2> DEFINE n == count(q)
             k == [calls[c] EXCEPT !.tries = n.tries, !.at = to]
             TriedNext(by) == {d \in Calls : calls'[d].by = by /\ calls'[d].tries > 0}
  <2>1. /\ n \in Pending /\ n.id = q.id /\ n.stage = q.stage /\ n.tries = q.tries + 1
        /\ n.pw = q.pw /\ n.past = q.past /\ n.free = q.free /\ q.tries \in Nat /\ n.tries \in 0..MaxTries
    BY <1>1, <1>5, SignInAssumption DEF SignInTypeOK, Pending
  <2>2. pendings' = (pendings \ {q}) \union {n} /\ calls' = [calls EXCEPT ![c] = k]
    <3>1. /\ pendings' = (pendings \ {q}) \union {n}
          /\ calls' = [calls EXCEPT ![c].tries = n.tries, ![c].at = to]
      BY <1>5
    <3> HIDE DEF n, to
    <3> QED
      BY <1>1, <3>1, CallFields
  <2> HIDE DEF n
  <2>3. to \in {"attempt", "read"} /\ (calls[c].op = "finish" <=> to = "attempt")
    OBVIOUS
  <2> HIDE DEF to
  <2>4. /\ k \in Call /\ k.at = to /\ k.op = calls[c].op /\ k.by = calls[c].by
        /\ k.pw = calls[c].pw /\ k.coded = calls[c].coded /\ k.past = calls[c].past
        /\ k.free = calls[c].free /\ k.tries = n.tries /\ k.code = calls[c].code /\ k.proof = calls[c].proof
    BY <1>2, <2>1, <2>3 DEF Call
  <2> HIDE DEF k
  <2>5. /\ calls' \in [Calls -> Call] /\ calls'[c] = k
        /\ \A d \in Calls : d # c => calls'[d] = calls[d]
    BY <1>1, <2>2, <2>4, CallFields
  <2>6. SignInTypeOK'
    BY <1>1, <1>2, <2>1, <2>2, <2>5 DEF SignInTypeOK, accountVars
  <2>7. AllOnCourse'
    <3>1. OnCourse(k)
      BY <1>3, <2>3, <2>4 DEF OnCourse
    <3> QED
      BY <1>1, <2>5, <3>1 DEF AllOnCourse
  <2>8. CodesQuiet
    BY <1>1, <1>2, <2>3, <2>4, <2>5 DEF CodesQuiet, CodesInv, SecretsMade, BeforeCodes, accountVars
  <2>9. Onward(c)
    BY <1>2, <2>3, <2>4, <2>5 DEF Onward, AfterClosing
  <2>10. ClosedQuiet
    BY <1>2, <2>1, <2>2, <2>5, <2>9 DEF ClosedQuiet, accountVars
  <2>11. IdsMade'
    <3>1. IdsStep
      BY <1>2, <1>5, <2>1, <2>2, <2>4, <2>5 DEF IdsStep
    <3> QED
      BY <1>1, <3>1, IdsStepKeeps DEF TriesInv
  <2>12. PendingsApart'
    BY <1>1, <2>1, <2>2 DEF TriesInv, PendingsApart
  <2>13. ASSUME NEW by \in Names
         PROVE  /\ IsFiniteSet(Tried(by)) /\ Cardinality(Tried(by)) <= MaxTries
                /\ Cardinality(Tried(by)) \in Nat
    BY <1>1, <2>13, FS_CardinalityType DEF TriesInv, TriesOnPending
  <2>14. ASSUME NEW by \in Names, by # q.id
         PROVE  /\ IsFiniteSet(TriedNext(by)) /\ Cardinality(TriedNext(by)) <= MaxTries
                /\ Cardinality(TriedNext(by)) <= Cardinality(Tried(by))
                /\ Cardinality(TriedNext(by)) \in Nat
    <3>1. TriedNext(by) \subseteq Tried(by)
      BY <1>5, <2>4, <2>5, <2>14 DEF Tried
    <3>2. /\ Cardinality(Tried(by)) \in Nat /\ Cardinality(TriedNext(by)) \in Nat
          /\ IsFiniteSet(TriedNext(by)) /\ Cardinality(TriedNext(by)) <= Cardinality(Tried(by))
      BY <2>13, <3>1, FS_Subset, FS_CardinalityType
    <3> QED
      BY <2>13, <3>2, SignInAssumption
  <2>15. /\ q.id \in Names /\ IsFiniteSet(TriedNext(q.id)) /\ Cardinality(TriedNext(q.id)) <= n.tries
    <3>1. q.id \in Names /\ Cardinality(Tried(q.id)) <= q.tries
      BY <1>1 DEF SignInTypeOK, Pending, TriesInv, TriesOnPending
    <3>2. /\ TriedNext(q.id) \subseteq Tried(q.id) \union {c}
      BY <2>5 DEF Tried
    <3>3. /\ IsFiniteSet(Tried(q.id) \union {c})
          /\ Cardinality(Tried(q.id) \union {c}) <= Cardinality(Tried(q.id)) + 1
          /\ Cardinality(Tried(q.id) \union {c}) \in Nat
      <4>1. IsFiniteSet(Tried(q.id)) /\ Cardinality(Tried(q.id)) \in Nat
        BY <2>13, <3>1
      <4>2. Cardinality(Tried(q.id) \union {c}) \in
               {Cardinality(Tried(q.id)), Cardinality(Tried(q.id)) + 1}
        BY <4>1, FS_AddElement
      <4> QED
        BY <4>1, <4>2, FS_AddElement
    <3>4. /\ IsFiniteSet(TriedNext(q.id)) /\ Cardinality(TriedNext(q.id)) \in Nat
          /\ Cardinality(TriedNext(q.id)) <= Cardinality(Tried(q.id) \union {c})
      BY <3>2, <3>3, FS_Subset, FS_CardinalityType
    <3> QED
      BY <2>1, <2>13, <3>1, <3>3, <3>4
  <2>16. ASSUME NEW p \in pendings' PROVE Cardinality(TriedNext(p.id)) <= p.tries
    <3>1. CASE p = n
      BY <2>1, <2>15, <3>1
    <3>2. CASE p # n
      <4>1. p \in pendings /\ p.id # q.id
        BY <1>1, <2>2, <3>2 DEF TriesInv, PendingsApart
      <4>2. p.id \in Names /\ p.tries \in Nat
        BY <1>1, <4>1, SignInAssumption DEF SignInTypeOK, Pending
      <4>3. Cardinality(Tried(p.id)) <= p.tries
        BY <1>1, <4>1 DEF TriesInv, TriesOnPending
      <4> HIDE DEF TriedNext
      <4> QED
        BY <2>13, <2>14, <4>1, <4>2, <4>3
    <3> QED
      BY <3>1, <3>2
  <2>17. \A by \in Names : IsFiniteSet(TriedNext(by)) /\ Cardinality(TriedNext(by)) <= MaxTries
    <3>1. Cardinality(TriedNext(q.id)) <= MaxTries
      BY <2>1, <2>15, SignInAssumption, FS_CardinalityType
    <3> HIDE DEF TriedNext
    <3> QED
      BY <2>14, <2>15, <3>1
  <2>18. TriesOnPending'
    BY <2>16, <2>17 DEF TriesOnPending, Tried
  <2> QED
    BY <1>1, <2>6, <2>7, <2>8, <2>10, <2>11, <2>12, <2>18, CodesQuietKeeps, ClosedQuietKeeps
    DEF SignInInv, TriesInv
<1>6. CASE mine # {}
  <2>1. PICK q \in mine : TRUE
    BY <1>6
  <2>2. mine = {q}
    BY <1>1, <2>1 DEF TriesInv, PendingsApart
  <2>3. /\ pendings' = (pendings \ {q}) \union {count(q)}
        /\ calls' = [calls EXCEPT ![c].tries = count(q).tries, ![c].at = to]
    <3>1. {count(p) : p \in mine} = {count(q)}
      BY <2>2
    <3> QED
      BY <1>6, <2>2, <3>1 DEF TakeTry
  <2> QED
    BY <1>5, <2>1, <2>3 DEF TryLeft
<1> QED
  BY <1>4, <1>6

-----------------------------------------------------------------------------

LEMMA Beginning == SignInInit => SignInInv
<1> SUFFICES ASSUME SignInInit PROVE SignInInv
  OBVIOUS
<1>1. /\ calls \in [Calls -> Call]
      /\ \A c \in Calls : calls[c] = NotMade
  BY NotMadeType DEF SignInInit
<1>2. /\ mfa \in Mfa /\ mfa.secret \in {Nothing, First} /\ (mfa.on => mfa.secret # Nothing)
      /\ recovery \subseteq {First} /\ failures = {} /\ closed = {First} /\ onBy = First
      /\ password = First /\ disabled = FALSE /\ invite = Nothing /\ required \in BOOLEAN
  <2> DEFINE yes == TRUE
             m == [NoMfa EXCEPT !.secret = First, !.on = yes]
  <2>1. yes \in BOOLEAN /\ NoMfa \in Mfa
    BY NoMfaType
  <2>2. mfa \in {NoMfa, m}
    BY DEF SignInInit
  <2> HIDE DEF yes
  <2>3. m \in Mfa /\ m.secret = First
    BY <2>1, NamesFacts DEF Mfa
  <2> HIDE DEF m
  <2>4. mfa \in Mfa /\ mfa.secret \in {Nothing, First} /\ (mfa.on => mfa.secret # Nothing)
    BY <2>2, <2>3, NoMfaType, NamesFacts
  <2> QED
    BY <2>4 DEF SignInInit
<1>3. ASSUME NEW s \in sessions
      PROVE  s \in Session /\ s.id = First /\ s.pw = First /\ s.coded = mfa.on
  <2> DEFINE none == {}
             on == mfa.on
  <2>1. none \in SUBSET Calls /\ on \in BOOLEAN
    BY <1>2 DEF Mfa
  <2>2. s = [id |-> First, scope |-> "site", pw |-> First, coded |-> on, past |-> none, free |-> Nothing]
    BY DEF SignInInit
  <2> HIDE DEF none, on
  <2>3. s \in Session /\ s.id = First /\ s.pw = First /\ s.coded = on
    BY <2>1, <2>2, NamesFacts DEF Session
  <2> QED
    BY <2>3 DEF on
<1>4. /\ pendings \subseteq Pending
      /\ \A p, q \in pendings : p = q
      /\ \A p \in pendings : p.id = Held /\ p.pw = First /\ p.tries = 0 /\ (mfa.on => p.stage = "code")
  <2> DEFINE none == {}
             stage == IF mfa.on THEN "code" ELSE "setup"
             n == [id |-> Held, stage |-> stage, tries |-> 0, pw |-> First, past |-> none,
                   free |-> Nothing]
  <2>1. none \in SUBSET Calls /\ stage \in {"code", "setup"} /\ (mfa.on => stage = "code")
    OBVIOUS
  <2>2. pendings \subseteq {n}
    BY DEF SignInInit
  <2> HIDE DEF none, stage
  <2>3. n \in Pending /\ n.id = Held /\ n.pw = First /\ n.tries = 0 /\ n.stage = stage
    BY <2>1, NamesFacts, SignInAssumption DEF Pending
  <2> HIDE DEF n
  <2> QED
    BY <2>1, <2>2, <2>3
<1>5. SignInTypeOK
  BY <1>1, <1>2, <1>3, <1>4, NamesFacts DEF SignInTypeOK
<1>6. AllOnCourse
  BY <1>1, NotMadeType DEF AllOnCourse, OnCourse
<1>7. TriesInv
  <2>1. IdsMade /\ PendingsApart
    BY <1>1, <1>3, <1>4, NotMadeType, NamesFacts DEF IdsMade, PendingsApart
  <2>2. \A by : Tried(by) = {}
    BY <1>1, NotMadeType DEF Tried
  <2>3. IsFiniteSet({}) /\ Cardinality({}) = 0
    BY FS_EmptySet
  <2>4. TriesOnPending
    BY <1>4, <2>2, <2>3, SignInAssumption DEF TriesOnPending
  <2> QED
    BY <2>1, <2>4 DEF TriesInv
<1>8. CodesInv
  <2>1. SecretsMade
    BY <1>1, <1>2, NotMadeType, NoProofType, NamesFacts DEF SecretsMade
  <2>2. RecoveryMade
    BY <1>1, <1>2, NotMadeType, NoProofType, NamesFacts DEF RecoveryMade
  <2>3. LastIsLatest /\ ProofsApart
    BY <1>1, NotMadeType, NoProofType DEF LastIsLatest, ProofsApart
  <2> QED
    BY <2>1, <2>2, <2>3 DEF CodesInv
<1>9. ClosedInv
  <2>1. ClosedIsDone /\ PasswordByItsCall /\ CodedWhenFinished
    BY <1>1, <1>2, NotMadeType, NamesFacts DEF ClosedIsDone, PasswordByItsCall, CodedWhenFinished
  <2>2. PasswordMet
    BY <1>1, <1>2, <1>3, <1>4, NotMadeType, NamesFacts DEF PasswordMet, OfPassword, Opens
  <2>3. CodeMet
    BY <1>1, <1>2, <1>3, <1>4, NotMadeType, NamesFacts DEF CodeMet, WithCode
  <2> QED
    BY <2>1, <2>2, <2>3 DEF ClosedInv
<1> QED
  BY <1>5, <1>6, <1>7, <1>8, <1>9 DEF SignInInv

LEMMA AskedStep ==
    ASSUME SignInInv, NEW c \in Calls, Asked(c)
    PROVE  SignInInv'
<1>1. CASE LogIn(c) \/ LogInByProvider(c) \/ AcceptInvite(c) \/ Disable(c) \/ Restore(c) \/ Reinvite(c) \/ Reset(c)
  BY <1>1, LogInStep, LogInByProviderStep, AcceptInviteStep, DisableStep, AtOnceSteps, ResetStep
<1>2. ASSUME NEW k \in sessions,
             \/ CreateAppSession(c, k) \/ LogOut(c, k) \/ ChangePassword(c, k)
             \/ CancelSetup(c, k) \/ ConfirmSetup(c, k)
             \/ SiteSession(k) /\ BeginSetup(c, k.id)
             \/ \E op \in {"regenerate", "turnOff"} : AskForCode(c, k, op)
      PROVE  SignInInv'
  BY <1>2, CreateAppSessionStep, AtOnceSteps, ChangePasswordStep, ConfirmSetupStep, BeginSetupStep, AskForCodeStep
<1>3. ASSUME NEW p \in pendings,
             \/ FinishWithCode(c, p) \/ FinishSetup(c, p)
             \/ p.stage = "setup" /\ BeginSetup(c, p.id)
      PROVE  SignInInv'
  BY <1>3, FinishSteps, BeginSetupStep
<1> QED
  BY <1>1, <1>2, <1>3 DEF Asked

LEMMA StoreStepStep ==
    ASSUME SignInInv, NEW c \in Calls, StoreStep(c)
    PROVE  SignInInv'
BY AfterPrimaryStep, NewPendingStep, IsActiveStep, InsertSessionStep, SetPasswordHashStep,
   DeleteSessionsForStep, EndPendingsStep, StillOursStep, TakeTryStep, TakeAttemptStep,
   ReadSecretStep, CheckFailsStep, AdvanceStepStep, SpendRecoveryCodeStep, ReleaseAttemptStep,
   DeletePendingStep, SetupSecretStep, BeginMfaStep, EnableMfaStep, ReplaceRecoveryCodesStep,
   RemoveMfaStep, BreaksOffStep DEF StoreStep

\* Every reachable state satisfies the invariant.
THEOREM SignInInvariance == SignInSpec => []SignInInv
<1>1. SignInInv /\ [SignInNext]_signInVars => SignInInv'
  BY AskedStep, StoreStepStep, LapseSteps DEF SignInNext
<1> QED
  BY Beginning, <1>1, PTL DEF SignInSpec

\* Whatever is stored of an account, and of the calls on it, is of its type.
THEOREM SignInTypeCorrect == SignInSpec => []SignInTypeOK
<1>1. SignInInv => SignInTypeOK
  BY DEF SignInInv
<1> QED
  BY <1>1, SignInInvariance, PTL

\* A change of password that was answered has ended what the old password had
\* opened (change_password, accept_invite): its sessions, its pending sign-ins.
THEOREM PasswordChangeCloses == SignInSpec => []ClosedWithItsPassword
<1>1. SignInInv => ClosedWithItsPassword
  BY DEF SignInInv, ClosedInv, PasswordMet, OfPassword, Ended, ClosedWithItsPassword
<1> QED
  BY <1>1, SignInInvariance, PTL

\* Two-step sign-in that was turned on has ended what was opened without a code
\* (confirm_setup, finish_setup).
THEOREM TwoStepCloses == SignInSpec => []ClosedWithoutACode
<1>1. SignInInv => ClosedWithoutACode
  BY DEF SignInInv, ClosedInv, CodeMet, WithCode, LetBy, Ended, ClosedWithoutACode
<1> QED
  BY <1>1, SignInInvariance, PTL

\* One code lets one call in (advance_step, spend_recovery_code).
THEOREM OneCallForACode == SignInSpec => []CodesOpenOnce
<1>1. SignInInv => CodesOpenOnce
  BY DEF SignInInv, CodesInv, ProofsApart, CodesOpenOnce
<1> QED
  BY <1>1, SignInInvariance, PTL

\* Of the codes sent for one sign-in no more are checked than it has tries
\* (take_try).
THEOREM TriesBound == SignInSpec => []TriesAreCounted
<1>1. SignInInv => TriesAreCounted
  BY DEF SignInInv, TriesInv, TriesOnPending, Tried, TriesAreCounted
<1> QED
  BY <1>1, SignInInvariance, PTL

-----------------------------------------------------------------------------
(* The repository of an app's source.                                        *)

\* What a commit or an archive holds.
MirrorValues == Requests \cup Nat

RequestSteps == {"idle", "link", "tracked", "parent", "move", "record", "heard", "head", "tarball",
                 "store", "create", "write", "done", "failed"}

MirrorRecord ==
    [op : {"none", "publish", "hook", "pull", "import", "create"},
     at : RequestSteps,
     tracked : Nat, sha : Nat, holds : MirrorValues \X Nat, alone : BOOLEAN]

MirrorTypes ==
    /\ branch \in Seq(MirrorValues)
    /\ hooks \in SUBSET Nat
    /\ source \in MirrorValues \X Nat
    /\ link \in [live : BOOLEAN, push : Nat, deployed : Nat]
    /\ request \in [Requests -> MirrorRecord]
    /\ pushed \in Nat

\* Who goes by a link or a branch found one.
BranchThere ==
    /\ link.live => branch # <<>>
    /\ \A r \in Requests :
          request[r].at \in RequestSteps \ {"idle", "link", "create", "done", "failed"} => branch # <<>>

\* No request is alone with another at work.
AloneAtWork == \A r \in Requests : request[r].alone /\ r \in Working => Working = {r}

Pulls(r) == request[r].op \in {"hook", "pull"}

\* What a request goes by at each step: a pull's commit is in the branch, then in
\* its archive, then, if it is alone, in the app's source.
GoesBy(r) ==
    /\ request[r].at = "tarball" => request[r].sha <= Len(branch)
    /\ request[r].at = "store" => request[r].sha <= request[r].holds[2]
    /\ request[r].at = "record" /\ Pulls(r) /\ request[r].alone => request[r].sha <= source[2]
    /\ request[r].at = "head" => request[r].op \in {"hook", "pull", "import"}
    /\ request[r].at = "link" => request[r].op \in {"publish", "hook", "pull"}
    /\ request[r].at = "heard" => request[r].op = "hook"
    /\ request[r].at \in {"tracked", "parent", "move"} => request[r].op = "publish"

MirrorInv == MirrorTypes /\ BranchThere /\ AloneAtWork /\ \A r \in Requests : GoesBy(r)

LEMMA NoRequestIs ==
    /\ NoRequest \in [op : {"none"}, at : {"idle"}, tracked : Nat, sha : Nat, holds : Nat \X Nat, alone : BOOLEAN]
    /\ NoRequest.at = "idle" /\ NoRequest.op = "none"
    /\ NoRequest \in MirrorRecord
<1> DEFINE yes == TRUE
<1>1. NoRequest = [op |-> "none", at |-> "idle", tracked |-> 0, sha |-> 0, holds |-> <<0, 0>>, alone |-> yes]
  BY Zenon DEF NoRequest
<1>2. yes \in BOOLEAN
  OBVIOUS
<1> HIDE DEF yes
<1>3. <<0, 0>> \in Nat \X Nat /\ <<0, 0>> \in MirrorValues \X Nat
  BY DEF MirrorValues
<1> QED
  BY <1>1, <1>2, <1>3 DEF MirrorRecord, RequestSteps

LEMMA MovesTo ==
    ASSUME MirrorTypes, NEW r \in Requests, NEW at \in RequestSteps, Moves(r, at)
    PROVE  /\ request' \in [Requests -> MirrorRecord]
           /\ \A q \in Requests \ {r} : request'[q] = request[q]
           /\ request'[r].at = at /\ request'[r].op = request[r].op
           /\ at \notin {"done", "failed"} =>
                  /\ request'[r].sha = request[r].sha /\ request'[r].holds = request[r].holds
                  /\ request'[r].alone = request[r].alone
<1>1. request \in [Requests -> MirrorRecord] /\ request[r] \in MirrorRecord
  BY DEF MirrorTypes
<1>2. CASE at \in {"done", "failed"}
  <2> DEFINE over == [NoRequest EXCEPT !.op = request[r].op, !.at = at]
  <2>1. over \in MirrorRecord /\ over.at = at /\ over.op = request[r].op
    BY <1>1, NoRequestIs DEF MirrorRecord
  <2>2. request' = [request EXCEPT ![r] = over]
    BY <1>2 DEF Moves
  <2> HIDE DEF over
  <2> QED
    BY <1>1, <1>2, <2>1, <2>2
<1>3. CASE at \notin {"done", "failed"}
  <2> DEFINE on == [request[r] EXCEPT !.at = at]
  <2>1. /\ on \in MirrorRecord /\ on.at = at /\ on.op = request[r].op
        /\ on.sha = request[r].sha /\ on.holds = request[r].holds /\ on.alone = request[r].alone
    BY <1>1 DEF MirrorRecord
  <2>2. request' = [request EXCEPT ![r] = on]
    BY <1>3 DEF Moves
  <2> HIDE DEF on
  <2> QED
    BY <1>1, <2>1, <2>2
<1> QED
  BY <1>2, <1>3

\* What one request does leaves the invariant true of the others: one that is alone
\* has none beside it.
LEMMA StepOfOne ==
    ASSUME MirrorInv, MirrorTypes', NEW r \in Requests,
           \/ r \in Working
           \/ r \notin Working' /\ source' = source,
           \A q \in Requests \ {r} : request'[q] = request[q],
           r \in Working' /\ request'[r].alone => request[r].alone,
           Len(branch') >= Len(branch),
           link'.live => branch' # <<>>,
           request'[r].at \in RequestSteps \ {"idle", "link", "create", "done", "failed"} => branch' # <<>>,
           GoesBy(r)'
    PROVE  MirrorInv'
<1>1. branch # <<>> => branch' # <<>>
  BY DEF MirrorInv, MirrorTypes
<1>2. BranchThere'
  BY <1>1 DEF MirrorInv, BranchThere
<1>3. ASSUME NEW q \in Requests \ {r}, request[q].alone, q \in Working PROVE r \notin Working
  BY <1>3 DEF MirrorInv, AloneAtWork
<1>4. \A q \in Requests \ {r} : q \in Working' <=> q \in Working
  BY DEF Working
<1>5. AloneAtWork'
  <2> SUFFICES ASSUME NEW q \in Requests, request'[q].alone, q \in Working' PROVE Working' = {q}
    BY DEF AloneAtWork
  <2>1. CASE q = r
    <3>1. r \in Working /\ request[r].alone
      BY <2>1
    <3>2. Working = {r}
      BY <3>1 DEF MirrorInv, AloneAtWork
    <3> QED
      BY <1>4, <2>1, <3>2 DEF Working
  <2>2. CASE q # r
    <3>1. request[q].alone /\ q \in Working
      BY <1>4, <2>2
    <3>2. r \notin Working /\ Working = {q}
      BY <1>3, <2>2, <3>1 DEF MirrorInv, AloneAtWork
    <3>3. r \notin Working'
      BY <3>2
    <3> QED
      BY <1>4, <2>2, <3>2, <3>3 DEF Working
  <2> QED
    BY <2>1, <2>2
<1>6. ASSUME NEW q \in Requests \ {r} PROVE GoesBy(q)'
  <2>1. request'[q] = request[q] /\ GoesBy(q) /\ request[q] \in MirrorRecord
    BY DEF MirrorInv, MirrorTypes
  <2>2. request[q].at = "record" /\ request[q].alone => source' = source
    BY <1>3 DEF Working
  <2>3. request[q].sha \in Nat
    BY <2>1 DEF MirrorRecord
  <2>4. Len(branch) \in Nat /\ Len(branch') \in Nat
    <3>1. branch \in Seq(MirrorValues) /\ branch' \in Seq(MirrorValues)
      BY DEF MirrorInv, MirrorTypes
    <3> QED
      BY <3>1
  <2> QED
    BY <2>1, <2>2, <2>3, <2>4 DEF GoesBy, Pulls
<1> QED
  BY <1>2, <1>5, <1>6 DEF MirrorInv

\* A request that comes ends the others' being alone.
LEMMA StepOfNew ==
    ASSUME MirrorInv, NEW r \in Requests, NEW op, NEW at \in {"link", "done", "heard", "head", "create"},
           NEW sha \in Nat, NEW holds \in MirrorValues \X Nat,
           op \in {"publish", "hook", "pull", "import", "create"},
           Comes(r, op, at, sha, holds),
           at = "head" => op = "import",
           at = "link" => op \in {"publish", "pull"},
           at = "heard" => op = "hook",
           at \in {"head", "heard"} => branch # <<>>,
           source' \in MirrorValues \X Nat, hooks' \in SUBSET Nat, UNCHANGED <<branch, link, pushed>>
    PROVE  MirrorInv'
<1> DEFINE alone == Working = {}
           came == [NoRequest EXCEPT !.op = op, !.at = at, !.sha = sha, !.holds = holds, !.alone = alone]
           still(q) == [request[q] EXCEPT !.alone = @ /\ q \notin Working]
<1>1. request' = [q \in Requests |-> IF q = r THEN came ELSE still(q)]
  BY Zenon DEF Comes
<1>2. came \in MirrorRecord /\ came.at = at /\ came.op = op /\ came.alone = alone
  <2>1. alone \in BOOLEAN
    OBVIOUS
  <2> HIDE DEF alone
  <2>2. at \in RequestSteps
    BY DEF RequestSteps
  <2> QED
    BY <2>1, <2>2, NoRequestIs DEF MirrorRecord
<1>3. ASSUME NEW q \in Requests
      PROVE  /\ still(q) \in MirrorRecord /\ still(q).at = request[q].at
             /\ still(q).op = request[q].op /\ still(q).sha = request[q].sha
             /\ still(q).holds = request[q].holds
             /\ still(q).alone => q \notin Working
  <2> DEFINE both == request[q].alone /\ q \notin Working
  <2>1. request[q] \in MirrorRecord
    BY DEF MirrorInv, MirrorTypes
  <2>2. both \in BOOLEAN /\ (both => q \notin Working)
    OBVIOUS
  <2>3. still(q) = [request[q] EXCEPT !.alone = both]
    BY <2>1 DEF MirrorRecord
  <2> HIDE DEF both, still
  <2>4. still(q) \in MirrorRecord
    BY <2>1, <2>2, <2>3 DEF MirrorRecord
  <2>5. /\ still(q).at = request[q].at /\ still(q).op = request[q].op /\ still(q).sha = request[q].sha
        /\ still(q).holds = request[q].holds /\ still(q).alone = both
    BY <2>1, <2>3 DEF MirrorRecord
  <2> QED
    BY <2>2, <2>4, <2>5
<1> HIDE DEF came, still
<1>4. request' \in [Requests -> MirrorRecord] /\ request'[r] = came /\ \A q \in Requests \ {r} : request'[q] = still(q)
  BY <1>1, <1>2, <1>3
<1>5. MirrorTypes'
  BY <1>4 DEF MirrorInv, MirrorTypes
<1>6. \A q \in Requests \ {r} : request'[q].at = request[q].at
  BY <1>3, <1>4
<1>7. request'[r].at = at /\ request'[r].op = op
  BY <1>2, <1>4
<1>8. BranchThere'
  BY <1>6, <1>7 DEF MirrorInv, BranchThere
<1>9. AloneAtWork'
  <2> SUFFICES ASSUME NEW q \in Requests, request'[q].alone, q \in Working' PROVE Working' = {q}
    BY DEF AloneAtWork
  <2>1. q = r
    BY <1>3, <1>4, <1>6 DEF Working
  <2>2. Working = {}
    BY <1>2, <1>4, <2>1
  <2> QED
    BY <1>6, <2>1, <2>2 DEF Working
<1>10. ASSUME NEW q \in Requests PROVE GoesBy(q)'
  <2>1. CASE q = r
    BY <1>7, <2>1 DEF GoesBy
  <2>2. CASE q # r
    <3>1. /\ request'[q].at = request[q].at /\ request'[q].op = request[q].op
          /\ request'[q].sha = request[q].sha /\ request'[q].holds = request[q].holds
          /\ request'[q].alone => q \notin Working
      BY <1>3, <1>4, <2>2
    <3>2. request'[q].at = "record" => ~request'[q].alone
      BY <3>1 DEF Working
    <3> QED
      BY <3>1, <3>2 DEF MirrorInv, GoesBy
  <2> QED
    BY <2>1, <2>2
<1> QED
  BY <1>5, <1>8, <1>9, <1>10 DEF MirrorInv

-----------------------------------------------------------------------------

LEMMA MirrorStart == MirrorInit => MirrorInv
<1> SUFFICES ASSUME MirrorInit PROVE MirrorInv
  OBVIOUS
<1>1. branch \in Seq(MirrorValues) /\ Len(branch) \in Nat
  <2>1. 1 \in MirrorValues /\ (branch = <<>> \/ branch = <<1>>)
    BY DEF MirrorInit, MirrorValues
  <2>2. CASE branch = <<>>
    BY <2>2
  <2>3. CASE branch = <<1>>
    BY <2>1, <2>3
  <2> QED
    BY <2>1, <2>2, <2>3
<1>2. link \in [live : BOOLEAN, push : Nat, deployed : Nat] /\ (link.live => branch # <<>>)
  <2>1. NoLink \in [live : BOOLEAN, push : Nat, deployed : Nat] /\ ~NoLink.live
    BY DEF NoLink
  <2>2. CASE link = NoLink
    BY <2>1, <2>2
  <2>3. CASE branch = <<1>> /\ link = [live |-> TRUE, push |-> 1, deployed |-> 1]
    BY <2>3
  <2> QED
    BY <2>2, <2>3 DEF MirrorInit
<1>3. request = [r \in Requests |-> NoRequest] /\ source = <<1, Len(branch)>> /\ hooks = {} /\ pushed = 0
  BY DEF MirrorInit
<1>4. MirrorTypes
  <2>1. source \in MirrorValues \X Nat
    BY <1>1, <1>3 DEF MirrorValues
  <2> QED
    BY <1>1, <1>2, <1>3, <2>1, NoRequestIs DEF MirrorTypes
<1>5. \A r \in Requests : request[r].at = "idle"
  BY <1>3, NoRequestIs
<1> QED
  BY <1>2, <1>4, <1>5 DEF MirrorInv, BranchThere, AloneAtWork, Working, GoesBy

\* The steps of a request that is under way, and those of one that is made at once.
MirrorStep(r) ==
    \/ ReadLink(r) \/ ReadTracked(r) \/ ReadParent(r) \/ MoveBranch(r) \/ RecordPush(r)
    \/ \E sha \in Commits : RecordDeployed(r, sha)
    \/ RecordHeard(r) \/ ReadHead(r) \/ Tarball(r) \/ StorePulled(r) \/ RecordPulled(r)
    \/ CreateRepo(r) \/ WriteLink(r) \/ Disconnect(r) \/ Fails(r)

LEMMA MirrorStepInv ==
    ASSUME MirrorInv, NEW r \in Requests, MirrorStep(r)
    PROVE  MirrorInv'
<1>1. MirrorTypes /\ request[r] \in MirrorRecord /\ GoesBy(r) /\ BranchThere
  BY DEF MirrorInv, MirrorTypes
<1>2. /\ request[r].sha \in Nat /\ request[r].tracked \in Nat /\ request[r].holds \in MirrorValues \X Nat
      /\ request[r].op \in {"none", "publish", "hook", "pull", "import", "create"}
      /\ request[r].at \in RequestSteps /\ request[r].alone \in BOOLEAN
  BY <1>1 DEF MirrorRecord
<1>3. /\ branch \in Seq(MirrorValues) /\ source \in MirrorValues \X Nat /\ hooks \in SUBSET Nat /\ pushed \in Nat
      /\ request \in [Requests -> MirrorRecord]
      /\ link \in [live : BOOLEAN, push : Nat, deployed : Nat]
  BY <1>1 DEF MirrorTypes
<1>4. Len(branch) \in Nat /\ (branch # <<>> => Len(branch) \in 1..Len(branch) /\ branch[Len(branch)] \in MirrorValues)
  BY <1>3
<1>5. {"done", "failed", "link", "head", "tracked", "write", "record"} \subseteq RequestSteps
  BY DEF RequestSteps
<1>6. \A at \in RequestSteps \ {"idle", "done", "failed"} : request[r].at = at => r \in Working
  BY DEF Working
\* Of a request that is over, or of which only the step it is at changes.
<1>7. ASSUME NEW at \in {"done", "failed"}, Moves(r, at), UNCHANGED <<branch, hooks, source, pushed>>,
             link' \in [live : BOOLEAN, push : Nat, deployed : Nat], link'.live => branch # <<>>
      PROVE  MirrorInv'
  <2>1. /\ request' \in [Requests -> MirrorRecord] /\ request'[r].at = at
        /\ \A q \in Requests \ {r} : request'[q] = request[q]
    BY <1>1, <1>5, <1>7, MovesTo
  <2>2. MirrorTypes' /\ GoesBy(r)' /\ r \notin Working'
    BY <1>3, <1>7, <2>1 DEF MirrorTypes, GoesBy, Working
  <2> QED
    BY <1>4, <1>7, <2>1, <2>2, StepOfOne
\* Of one that goes on.
<1>8. ASSUME NEW to \in MirrorRecord, r \in Working, request' = [request EXCEPT ![r] = to],
             to.alone = request[r].alone,
             branch' \in Seq(MirrorValues), Len(branch') >= Len(branch),
             hooks' \in SUBSET Nat, source' \in MirrorValues \X Nat, UNCHANGED pushed,
             link' \in [live : BOOLEAN, push : Nat, deployed : Nat], link'.live => branch' # <<>>,
             to.at \in {"idle", "link", "create", "done", "failed"} \/ branch' # <<>>,
             GoesBy(r)'
      PROVE  MirrorInv'
  <2>1. request' \in [Requests -> MirrorRecord] /\ request'[r] = to /\ \A q \in Requests \ {r} : request'[q] = request[q]
    BY <1>3, <1>8
  <2>2. MirrorTypes'
    BY <1>3, <1>8, <2>1 DEF MirrorTypes
  <2> QED
    BY <1>8, <2>1, <2>2, StepOfOne
\* Of one that goes on, and changes nothing else.
<1>9. ASSUME NEW to \in MirrorRecord, r \in Working, request' = [request EXCEPT ![r] = to],
             to.alone = request[r].alone, UNCHANGED <<branch, hooks, source, link, pushed>>,
             branch # <<>>, GoesBy(r)'
      PROVE  MirrorInv'
  <2>1. Len(branch') >= Len(branch)
    BY <1>4, <1>9
  <2> QED
    BY <1>3, <1>8, <1>9, <2>1
\* The same, at another step.
<1>10. ASSUME NEW at \in RequestSteps \ {"idle", "done", "failed"}
       PROVE  LET on == [request[r] EXCEPT !.at = at]
              IN  /\ on \in MirrorRecord /\ on.at = at /\ on.op = request[r].op
                  /\ on.sha = request[r].sha /\ on.holds = request[r].holds /\ on.alone = request[r].alone
                  /\ Moves(r, at) => request' = [request EXCEPT ![r] = on]
  BY <1>1 DEF MirrorRecord, Moves
<1>11. ASSUME NEW to, request' = [request EXCEPT ![r] = to] PROVE request'[r] = to
  BY <1>3, <1>11
<1>12. ASSUME NEW push \in Nat, NEW deployed \in Nat,
              UpdateLink(r, push, deployed, "done"), UNCHANGED <<branch, hooks, source, pushed>>
       PROVE  MirrorInv'
  <2>1. CASE link.live
    <3>1. link' = [link EXCEPT !.push = push, !.deployed = deployed] /\ Moves(r, "done")
      BY <1>12, <2>1 DEF UpdateLink
    <3>2. link' \in [live : BOOLEAN, push : Nat, deployed : Nat] /\ link'.live = link.live
      BY <1>3, <1>12, <3>1
    <3> QED
      BY <1>1, <1>7, <1>12, <3>1, <3>2 DEF BranchThere
  <2>2. CASE ~link.live
    <3>1. link' = link /\ Moves(r, "failed")
      BY <1>12, <2>2 DEF UpdateLink
    <3> QED
      BY <1>3, <1>7, <1>12, <2>2, <3>1
  <2> QED
    BY <2>1, <2>2
<1>13. CASE ReadLink(r)
  <2>1. CASE ~link.live
    BY <1>3, <1>7, <1>13, <2>1 DEF ReadLink
  <2>2. CASE link.live
    <3>1. PICK at \in {"tracked", "head"} :
             Moves(r, at) /\ (request[r].op = "publish" => at = "tracked") /\ (request[r].op # "publish" => at = "head") /\ UNCHANGED <<branch, hooks, source, link, pushed>>
      BY <1>13, <2>2 DEF ReadLink
    <3>2. at \in RequestSteps \ {"idle", "done", "failed"} /\ r \in Working
      BY <1>13 DEF RequestSteps, ReadLink, Stands, Working
    <3> DEFINE on == [request[r] EXCEPT !.at = at]
    <3>3. /\ on \in MirrorRecord /\ on.at = at /\ on.op = request[r].op /\ on.alone = request[r].alone
          /\ request' = [request EXCEPT ![r] = on]
      BY <1>10, <3>1, <3>2
    <3> HIDE DEF on
    <3>4. GoesBy(r)'
      BY <1>1, <1>11, <1>13, <3>1, <3>3 DEF GoesBy, ReadLink, Stands
    <3> QED
      BY <1>1, <1>9, <2>2, <3>1, <3>2, <3>3, <3>4 DEF BranchThere
  <2> QED
    BY <2>1, <2>2
<1>14. CASE ReadTracked(r)
  <2>1. request[r].at = "tracked" /\ r \in Working /\ branch # <<>>
    BY <1>1, <1>2, <1>14 DEF ReadTracked, Stands, Working, BranchThere
  <2> DEFINE to == [request[r] EXCEPT !.tracked = Len(branch), !.at = "parent"]
  <2>2. request' = [request EXCEPT ![r] = to]
    BY <1>3, <1>14 DEF ReadTracked
  <2>3. to \in MirrorRecord /\ to.at = "parent" /\ to.alone = request[r].alone /\ to.op = request[r].op
    BY <1>1, <1>4 DEF MirrorRecord, RequestSteps
  <2> HIDE DEF to
  <2>4. GoesBy(r)'
    BY <1>1, <1>11, <2>1, <2>2, <2>3 DEF GoesBy
  <2> QED
    BY <1>9, <1>14, <2>1, <2>2, <2>3, <2>4 DEF ReadTracked
<1>15. CASE ReadParent(r)
  <2>1. request[r].at = "parent" /\ r \in Working /\ branch # <<>>
    BY <1>1, <1>2, <1>15 DEF ReadParent, Stands, Working, BranchThere
  <2>2. CASE Moves(r, "done")
    BY <1>1, <1>3, <1>7, <1>15, <2>2 DEF ReadParent, BranchThere
  <2> DEFINE to == [request[r] EXCEPT !.sha = Len(branch), !.at = "move"]
  <2>3. Moves(r, "done") \/ request' = [request EXCEPT ![r] = to]
    BY <1>3, <1>15 DEF ReadParent
  <2>4. to \in MirrorRecord /\ to.at = "move" /\ to.alone = request[r].alone /\ to.op = request[r].op
    BY <1>1, <1>4 DEF MirrorRecord, RequestSteps
  <2> HIDE DEF to
  <2>5. CASE request' = [request EXCEPT ![r] = to]
    <3>1. GoesBy(r)'
      BY <1>1, <1>11, <2>1, <2>4, <2>5 DEF GoesBy
    <3> QED
      BY <1>9, <1>15, <2>1, <2>4, <2>5, <3>1 DEF ReadParent
  <2> QED
    BY <2>2, <2>3, <2>5
<1>16. CASE MoveBranch(r)
  <2>1. request[r].at = "move" /\ r \in Working /\ branch # <<>>
    BY <1>1, <1>2, <1>16 DEF MoveBranch, Stands, Working, BranchThere
  <2>2. CASE request[r].sha # Len(branch)
    BY <1>1, <1>3, <1>7, <1>16, <2>2 DEF MoveBranch, BranchThere
  <2>3. CASE request[r].sha = Len(branch)
    <3> DEFINE sha == Len(branch) + 1
               to == [request[r] EXCEPT !.sha = sha, !.at = "record"]
    <3>1. PICK v \in MirrorValues : branch' = Append(branch, v)
      BY <1>2, <1>4, <1>16, <2>3 DEF MoveBranch, MirrorValues
    <3>2. branch' \in Seq(MirrorValues) /\ Len(branch') = Len(branch) + 1 /\ branch' # <<>>
      BY <1>3, <3>1
    <3>3. hooks' \in SUBSET Nat /\ source' \in MirrorValues \X Nat /\ UNCHANGED <<link, pushed>>
      BY <1>3, <1>4, <1>16, <2>3 DEF MoveBranch
    <3>4. request' = [request EXCEPT ![r] = to]
      BY <1>3, <1>16, <2>3 DEF MoveBranch
    <3>5. sha \in Nat
      BY <1>4
    <3> HIDE DEF sha
    <3>6. to \in MirrorRecord /\ to.at = "record" /\ to.op = request[r].op /\ to.alone = request[r].alone
      BY <1>1, <3>5 DEF MirrorRecord, RequestSteps
    <3> HIDE DEF to
    <3>7. GoesBy(r)'
      BY <1>1, <1>11, <2>1, <3>4, <3>6 DEF GoesBy, Pulls
    <3>8. Len(branch') >= Len(branch) /\ link' = link /\ pushed' = pushed
      BY <1>4, <3>2, <3>3
    <3> QED
      BY <1>3, <1>8, <2>1, <3>2, <3>3, <3>4, <3>6, <3>7, <3>8
  <2> QED
    BY <2>2, <2>3
<1>17. CASE RecordPush(r)
  BY <1>2, <1>12, <1>17 DEF RecordPush
<1>18. ASSUME NEW sha \in Commits, RecordDeployed(r, sha) PROVE MirrorInv'
  <2>1. link.push \in Nat /\ sha \in Nat
    BY <1>3, <1>4 DEF Commits
  <2> QED
    BY <1>12, <1>18, <2>1 DEF RecordDeployed
<1>19. CASE RecordPulled(r)
  <2>1. link.deployed \in Nat /\ HeadRead(r) \in Nat
    BY <1>2, <1>3 DEF HeadRead
  <2> QED
    BY <1>12, <1>19, <2>1 DEF RecordPulled
<1>20. CASE RecordHeard(r)
  <2>1. request[r].at = "heard" /\ r \in Working /\ branch # <<>> /\ link.deployed \in Nat
    BY <1>1, <1>2, <1>3, <1>20 DEF RecordHeard, Stands, Working, BranchThere
  <2>2. CASE ~link.live
    BY <1>3, <1>7, <1>20, <2>2 DEF RecordHeard, UpdateLink
  <2>3. CASE link.live
    <3>1. link' = [link EXCEPT !.push = request[r].sha, !.deployed = link.deployed] /\ Moves(r, "link")
      BY <1>20, <2>3 DEF RecordHeard, UpdateLink
    <3>2. link' \in [live : BOOLEAN, push : Nat, deployed : Nat]
      BY <1>2, <1>3, <2>1, <3>1
    <3> DEFINE on == [request[r] EXCEPT !.at = "link"]
    <3>3. /\ on \in MirrorRecord /\ on.at = "link" /\ on.op = request[r].op /\ on.alone = request[r].alone
          /\ request' = [request EXCEPT ![r] = on]
      BY <1>5, <1>10, <3>1
    <3> HIDE DEF on
    <3>4. GoesBy(r)'
      BY <1>1, <1>11, <2>1, <3>3 DEF GoesBy
    <3>5. branch' = branch /\ hooks' = hooks /\ source' = source /\ pushed' = pushed /\ Len(branch') >= Len(branch)
      BY <1>4, <1>20 DEF RecordHeard
    <3> QED
      BY <1>3, <1>4, <1>8, <2>1, <3>2, <3>3, <3>4, <3>5
  <2> QED
    BY <2>2, <2>3
<1>21. CASE ReadHead(r)
  <2>1. request[r].at = "head" /\ r \in Working /\ branch # <<>>
    BY <1>1, <1>2, <1>21 DEF ReadHead, Stands, Working, BranchThere
  <2> DEFINE to == [request[r] EXCEPT !.sha = Len(branch), !.at = "tarball"]
  <2>2. request' = [request EXCEPT ![r] = to]
    BY <1>3, <1>21 DEF ReadHead
  <2>3. to \in MirrorRecord /\ to.at = "tarball" /\ to.alone = request[r].alone /\ to.sha = Len(branch)
    BY <1>1, <1>4 DEF MirrorRecord, RequestSteps
  <2> HIDE DEF to
  <2>4. GoesBy(r)'
    <3>1. request'[r] = to /\ branch' = branch
      BY <1>11, <1>21, <2>2 DEF ReadHead
    <3> QED
      BY <1>4, <2>3, <3>1 DEF GoesBy
  <2> QED
    BY <1>9, <1>21, <2>1, <2>2, <2>3, <2>4 DEF ReadHead
<1>22. CASE Tarball(r)
  <2>1. request[r].at = "tarball" /\ r \in Working /\ branch # <<>>
    BY <1>1, <1>2, <1>22 DEF Tarball, Stands, Working, BranchThere
  <2> DEFINE tar == <<branch[Len(branch)], Len(branch)>>
             to == [request[r] EXCEPT !.holds = tar, !.at = "store"]
  <2>2. request' = [request EXCEPT ![r] = to]
    BY <1>3, <1>22 DEF Tarball
  <2>3. tar \in MirrorValues \X Nat /\ tar[2] = Len(branch)
    BY <1>4, <2>1
  <2> HIDE DEF tar
  <2>4. /\ to \in MirrorRecord /\ to.at = "store" /\ to.alone = request[r].alone
        /\ to.holds = tar /\ to.sha = request[r].sha
    BY <1>1, <2>3 DEF MirrorRecord, RequestSteps
  <2> HIDE DEF to
  <2>5. GoesBy(r)'
    BY <1>1, <1>11, <2>1, <2>2, <2>3, <2>4 DEF GoesBy
  <2> QED
    BY <1>9, <1>22, <2>1, <2>2, <2>4, <2>5 DEF Tarball
<1>23. CASE StorePulled(r)
  <2>1. request[r].at = "store" /\ r \in Working /\ branch # <<>>
    BY <1>1, <1>2, <1>23 DEF StorePulled, Stands, Working, BranchThere
  <2>2. PICK at \in {"write", "record"} : Moves(r, at)
    BY <1>23 DEF StorePulled
  <2>3. source' = request[r].holds /\ UNCHANGED <<branch, hooks, link, pushed>>
    BY <1>23 DEF StorePulled
  <2> DEFINE on == [request[r] EXCEPT !.at = at]
  <2>4. at \in RequestSteps \ {"idle", "done", "failed"}
    BY <1>5
  <2>5. /\ on \in MirrorRecord /\ on.at = at /\ on.op = request[r].op /\ on.alone = request[r].alone
        /\ on.sha = request[r].sha /\ request' = [request EXCEPT ![r] = on]
    BY <1>10, <2>2, <2>4
  <2> HIDE DEF on
  <2>6. GoesBy(r)'
    BY <1>1, <1>11, <2>1, <2>3, <2>5 DEF GoesBy
  <2>7. Len(branch') >= Len(branch) /\ source' \in MirrorValues \X Nat
    BY <1>2, <1>4, <2>3
  <2> QED
    BY <1>3, <1>8, <2>1, <2>3, <2>5, <2>6, <2>7
<1>24. CASE CreateRepo(r)
  <2>1. request[r].at = "create" /\ r \in Working
    BY <1>24 DEF CreateRepo, Stands, Working
  <2>2. CASE branch # <<>>
    BY <1>3, <1>7, <1>24, <2>2 DEF CreateRepo
  <2>3. CASE branch = <<>>
    <3> DEFINE to == [request[r] EXCEPT !.sha = 1, !.at = "write"]
    <3>1. branch' = <<request[r].holds[1]>> /\ hooks' = {1} /\ UNCHANGED <<link, pushed>>
      BY <1>24, <2>3 DEF CreateRepo
    <3>2. branch' \in Seq(MirrorValues) /\ branch' # <<>> /\ Len(branch') >= Len(branch)
      BY <1>2, <2>3, <3>1
    <3>3. source' \in MirrorValues \X Nat
      BY <1>3, <1>24, <2>3 DEF CreateRepo
    <3>4. request' = [request EXCEPT ![r] = to]
      BY <1>3, <1>24, <2>3 DEF CreateRepo
    <3>5. to \in MirrorRecord /\ to.at = "write" /\ to.alone = request[r].alone
      BY <1>1 DEF MirrorRecord, RequestSteps
    <3> HIDE DEF to
    <3>6. GoesBy(r)'
      BY <1>11, <3>4, <3>5 DEF GoesBy
    <3>7. hooks' \in SUBSET Nat /\ link' = link /\ pushed' = pushed
      BY <3>1
    <3> QED
      BY <1>3, <1>8, <2>1, <3>2, <3>3, <3>4, <3>5, <3>6, <3>7
  <2> QED
    BY <2>2, <2>3
<1>25. CASE WriteLink(r)
  <2>1. branch # <<>>
    BY <1>1, <1>2, <1>25 DEF WriteLink, Stands, BranchThere
  <2> DEFINE deployed == IF request[r].op = "create" THEN request[r].sha ELSE 0
             yes == TRUE
  <2>2. link' = [live |-> yes, push |-> request[r].sha, deployed |-> deployed] /\ Moves(r, "done")
    BY <1>25, Zenon DEF WriteLink
  <2>3. deployed \in Nat /\ yes \in BOOLEAN
    BY <1>2
  <2> HIDE DEF deployed, yes
  <2>4. link' \in [live : BOOLEAN, push : Nat, deployed : Nat]
    BY <1>2, <2>2, <2>3
  <2> QED
    BY <1>7, <1>25, <2>1, <2>2, <2>4 DEF WriteLink
<1>26. CASE Disconnect(r)
  <2> DEFINE no == FALSE
  <2>1. link' = [live |-> no, push |-> 0, deployed |-> 0] /\ Moves(r, "done")
    BY <1>26, Zenon DEF Disconnect, NoLink
  <2>2. no \in BOOLEAN /\ ~no
    OBVIOUS
  <2> HIDE DEF no
  <2>3. link' \in [live : BOOLEAN, push : Nat, deployed : Nat] /\ ~link'.live
    BY <2>1, <2>2
  <2> QED
    BY <1>7, <1>26, <2>1, <2>3 DEF Disconnect
<1>27. CASE Fails(r)
  BY <1>1, <1>3, <1>7, <1>27 DEF Fails, BranchThere
<1> QED
  BY <1>13, <1>14, <1>15, <1>16, <1>17, <1>18, <1>19, <1>20, <1>21, <1>22, <1>23, <1>24, <1>25, <1>26, <1>27
     DEF MirrorStep

LEMMA MirrorNextInv ==
    ASSUME MirrorInv, [MirrorNext]_mirrorVars
    PROVE  MirrorInv'
<1>1. /\ branch \in Seq(MirrorValues) /\ source \in MirrorValues \X Nat /\ hooks \in SUBSET Nat /\ pushed \in Nat
      /\ BranchThere
  BY DEF MirrorInv, MirrorTypes
<1>2. /\ Len(branch) \in Nat /\ 0 \in Nat /\ <<0, 0>> \in MirrorValues \X Nat
      /\ \A n \in Commits : branch[n] \in MirrorValues /\ branch # <<>>
  BY <1>1 DEF Commits, MirrorValues
<1>3. ASSUME NEW r \in Requests, NEW holds \in {r} \union {branch[n] : n \in Commits}, NEW push \in BOOLEAN,
             PublishSource(r, holds, push)
      PROVE  MirrorInv'
  <2> DEFINE at == IF push THEN "link" ELSE "done"
  <2>1. holds \in MirrorValues /\ <<holds, 0>> \in MirrorValues \X Nat
    BY <1>2 DEF MirrorValues
  <2>2. Comes(r, "publish", at, 0, <<holds, 0>>) /\ source' = <<holds, 0>> /\ UNCHANGED <<branch, hooks, link, pushed>>
    BY <1>3 DEF PublishSource
  <2>3. at \in {"link", "done"}
    OBVIOUS
  <2> HIDE DEF at
  <2> QED
    BY <1>1, <1>2, <2>1, <2>2, <2>3, StepOfNew
<1>4. ASSUME NEW r \in Requests, NEW sha \in hooks, HookHeard(r, sha) PROVE MirrorInv'
  <2> DEFINE at == IF ~link.live \/ link.push = sha THEN "done" ELSE "heard"
  <2>1. Comes(r, "hook", at, sha, <<0, 0>>) /\ hooks' = hooks \ {sha} /\ UNCHANGED <<branch, source, link, pushed>>
    BY <1>4 DEF HookHeard
  <2>2. at \in {"done", "heard"} /\ (at = "heard" => link.live) /\ sha \in Nat
    BY <1>1
  <2> HIDE DEF at
  <2> QED
    BY <1>1, <1>2, <2>1, <2>2, StepOfNew DEF BranchThere
<1>5. ASSUME NEW r \in Requests, Pull(r) PROVE MirrorInv'
  BY <1>1, <1>2, <1>5, StepOfNew DEF Pull
<1>6. ASSUME NEW r \in Requests, Import(r) PROVE MirrorInv'
  BY <1>1, <1>2, <1>6, StepOfNew DEF Import
<1>7. ASSUME NEW r \in Requests, Create(r) PROVE MirrorInv'
  BY <1>1, <1>2, <1>7, StepOfNew DEF Create
<1>8. CASE PersonPushes
  <2>1. branch' = Append(branch, Len(branch) + 1) /\ Len(branch) + 1 \in MirrorValues
    BY <1>2, <1>8 DEF PersonPushes, MirrorValues
  <2>2. branch' \in Seq(MirrorValues) /\ Len(branch') = Len(branch) + 1 /\ branch' # <<>>
    BY <1>1, <2>1
  <2>3. hooks' \in SUBSET Nat /\ pushed' \in Nat /\ source' = source /\ link' = link /\ request' = request
    <3> DEFINE sha == Len(branch) + 1
    <3>1. /\ hooks' = hooks \union {sha} /\ pushed' = pushed + 1
          /\ source' = source /\ link' = link /\ request' = request
      BY <1>8 DEF PersonPushes
    <3>2. sha \in Nat
      BY <1>2
    <3> HIDE DEF sha
    <3> QED
      BY <1>1, <3>1, <3>2
  <2>4. \A r \in Requests : request[r].sha \in Nat
    BY DEF MirrorInv, MirrorTypes, MirrorRecord
  <2>5. MirrorTypes' /\ BranchThere' /\ AloneAtWork'
    BY <2>2, <2>3 DEF MirrorInv, MirrorTypes, BranchThere, AloneAtWork, Working
  <2>6. \A r \in Requests : GoesBy(r)'
    BY <1>2, <2>2, <2>3, <2>4 DEF MirrorInv, GoesBy, Pulls
  <2> QED
    BY <2>5, <2>6 DEF MirrorInv
<1>9. CASE UNCHANGED mirrorVars
  BY <1>9 DEF mirrorVars, MirrorInv, MirrorTypes, BranchThere, AloneAtWork, Working, GoesBy, Pulls
<1>10. ASSUME NEW r \in Requests, MirrorStep(r) PROVE MirrorInv'
  BY <1>10, MirrorStepInv
<1> QED
  BY <1>3, <1>4, <1>5, <1>6, <1>7, <1>8, <1>9, <1>10 DEF MirrorNext, MirrorStep

\* Behind SeenIsStored: MirrorInv holds of every reachable state.
THEOREM MirrorInvariance == MirrorSpec => []MirrorInv
<1>1. MirrorInit => MirrorInv
  BY MirrorStart
<1>2. MirrorInv /\ [MirrorNext]_mirrorVars => MirrorInv'
  BY MirrorNextInv
<1> QED
  BY <1>1, <1>2, PTL DEF MirrorSpec

\* No step changes where another request stands.
LEMMA ComesBeside ==
    ASSUME MirrorTypes, NEW q \in Requests, NEW op, NEW at, NEW sha, NEW holds, Comes(q, op, at, sha, holds),
           NEW r \in Requests, request[r].at # "idle"
    PROVE  request'[r].at = request[r].at
<1>1. q # r
  BY DEF Comes, Stands
<1>2. request'[r] = [request[r] EXCEPT !.alone = @ /\ r \notin Working]
  BY <1>1, Zenon DEF Comes
<1>3. request[r] \in MirrorRecord
  BY DEF MirrorTypes
<1> QED
  BY <1>2, <1>3 DEF MirrorRecord

LEMMA StepsApart ==
    ASSUME MirrorTypes, NEW q \in Requests, MirrorStep(q), NEW r \in Requests, r # q
    PROVE  request'[r] = request[r]
<1>1. request \in [Requests -> MirrorRecord]
  BY DEF MirrorTypes
<1>2. ASSUME NEW to, request' = [request EXCEPT ![q] = to] PROVE request'[r] = request[r]
  BY <1>1, <1>2
<1>3. ASSUME NEW at, Moves(q, at) PROVE request'[r] = request[r]
  BY <1>2, <1>3 DEF Moves
<1>4. \A push, deployed, then : UpdateLink(q, push, deployed, then) => request'[r] = request[r]
  BY <1>3 DEF UpdateLink
<1>5. CASE ReadTracked(q) \/ ReadParent(q) \/ MoveBranch(q)
  BY <1>1, <1>3, <1>5 DEF ReadTracked, ReadParent, MoveBranch
<1>6. CASE ReadHead(q) \/ Tarball(q) \/ CreateRepo(q)
  BY <1>1, <1>3, <1>6 DEF ReadHead, Tarball, CreateRepo
<1>7. CASE RecordPush(q) \/ RecordHeard(q) \/ RecordPulled(q) \/ \E sha \in Commits : RecordDeployed(q, sha)
  BY <1>4, <1>7 DEF RecordPush, RecordHeard, RecordPulled, RecordDeployed
<1>8. CASE ReadLink(q) \/ StorePulled(q) \/ WriteLink(q) \/ Disconnect(q) \/ Fails(q)
  BY <1>3, <1>8 DEF ReadLink, StorePulled, WriteLink, Disconnect, Fails
<1> QED
  BY <1>5, <1>6, <1>7, <1>8 DEF MirrorStep

\* A pull that no other request overlapped leaves the app with the commit the link
\* names, or one after it (github.rs:10-11).
THEOREM PullKeepsUp == MirrorSpec => SeenIsStored
<1>1. ASSUME MirrorInv, [MirrorNext]_mirrorVars, NEW r \in Requests,
             Stands(r, "record"), request'[r].at = "done", Pulls(r), request[r].alone
      PROVE  link'.push <= source'[2]
  <2>1. request[r].sha <= source[2] /\ request[r].at = "record" /\ r \in Working
    BY <1>1 DEF MirrorInv, GoesBy, Stands, Working
  <2>2. request \in [Requests -> MirrorRecord] /\ link \in [live : BOOLEAN, push : Nat, deployed : Nat]
    BY <1>1 DEF MirrorInv, MirrorTypes
  <2>3. RecordPulled(r)
    <3>1. ASSUME NEW q \in Requests, NEW op, NEW at, NEW sha, NEW holds, Comes(q, op, at, sha, holds) PROVE FALSE
      BY <1>1, <2>1, <2>2, <3>1, ComesBeside DEF MirrorInv
    <3>2. ASSUME NEW q \in Requests, MirrorStep(q) PROVE RecordPulled(r)
      <4>1. q = r
        BY <1>1, <2>1, <2>2, <3>2, StepsApart DEF MirrorInv
      <4>2. ~Fails(r)
        <5>1. Moves(r, "failed") => request'[r].at = "failed"
          BY <1>1, MovesTo DEF MirrorInv, RequestSteps
        <5> QED
          BY <1>1, <5>1 DEF Fails
      <4> QED
        BY <1>1, <2>1, <3>2, <4>1, <4>2
           DEF MirrorStep, Stands, Pulls, ReadLink, ReadTracked, ReadParent, MoveBranch, RecordPush, RecordDeployed,
               RecordHeard, ReadHead, Tarball, StorePulled, CreateRepo, WriteLink, Disconnect
    <3>3. request' # request
      BY <1>1, <2>1
    <3>4. ~PersonPushes /\ ~UNCHANGED mirrorVars
      BY <3>3 DEF PersonPushes, mirrorVars
    <3> QED
      BY <1>1, <3>1, <3>2, <3>4 DEF MirrorNext, MirrorStep, PublishSource, HookHeard, Pull, Import, Create
  <2>4. CASE link.live
    BY <2>1, <2>2, <2>3, <2>4 DEF RecordPulled, UpdateLink, HeadRead
  <2>5. CASE ~link.live
    <3>1. Moves(r, "failed")
      BY <2>3, <2>5 DEF RecordPulled, UpdateLink
    <3>2. request'[r].at = "failed"
      BY <1>1, <3>1, MovesTo DEF MirrorInv, RequestSteps
    <3> QED
      BY <1>1, <3>2
  <2> QED
    BY <2>4, <2>5
<1>2. MirrorInv /\ [MirrorNext]_mirrorVars =>
        [\A r \in Requests :
           /\ Stands(r, "record") /\ request'[r].at = "done"
           /\ request[r].op \in {"pull", "hook"} /\ request[r].alone
           => link'.push <= source'[2]]_mirrorVars
  BY <1>1 DEF Pulls
<1> QED
  BY <1>2, MirrorInvariance, PTL DEF MirrorSpec, SeenIsStored

=============================================================================
