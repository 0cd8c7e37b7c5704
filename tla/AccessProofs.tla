---------------------------- MODULE AccessProofs ----------------------------
(* Proofs about who may reach what.  The OAuth store's grants, for any       *)
(* number of calls, secrets, revocations and lapses, on either store: that a *)
(* code or a refresh token brings one pair, and that the store implements    *)
(* its book.  And the tree of projects, for any names, paths, publishers and *)
(* number of changes: that the apps fit it.                                  *)
EXTENDS Grants, Projects, SequenceTheorems, WellFoundedInduction, TLAPS

-----------------------------------------------------------------------------
(* The inductive invariant.                                                  *)

\* What a call at each step can be.  A rotation is refused only a token that
\* ran out.
CallShape(r) ==
    LET c == call[r]
    IN  /\ backend = "files" => c.step \in {"none", "reads"}
        /\ backend = "postgres" => c.step # "reads"
        /\ c.step = "reads" => c.op = "rotate"
        /\ c.step = "tokens" => c.op = "revoke"
        /\ c.step = "spent" => c.op \in {"exchange", "rotate", "revoke"}
        /\ c.step \in {"waits", "holds"} /\ c.op = "rotate" => c.good
        /\ c.step = "spent" /\ c.op = "rotate" => c.good \/ c.of \in lapsed

\* A transaction past its wait has the account's turn.
TurnHeld(r) == call[r].step \in {"holds", "tokens", "spent"} => turn = r

\* What a transaction has deleted is there for all others until it commits.
SpentThere(r) ==
    call[r].step = "spent" /\ call[r].op \in {"exchange", "rotate"} =>
        call[r].of \in Table(call[r].op)

\* A revocation has in hand all that there is of what it has come to.
AllDoomed(r) ==
    /\ call[r].step = "tokens" => refreshes \union accesses \subseteq call[r].doomed
    /\ call[r].step = "spent" /\ call[r].op = "revoke" =>
          codes \union refreshes \union accesses \subseteq call[r].doomed

\* A snapshot that may still be written from shows what is there.
SnapshotHolds(r) == call[r].step = "reads" /\ ~call[r].stale => call[r].of \in refreshes

CallInv == \A r \in Callers :
    CallShape(r) /\ TurnHeld(r) /\ SpentThere(r) /\ AllDoomed(r) /\ SnapshotHolds(r)

Apart == codes \intersect refreshes = {}

\* What can still be traded has not been.
UnpaidYet ==
    \A e \in 1..Secrets : e \in codes \union refreshes \/ e > minted => paid[e] = 0

BookInv == Apart /\ UnpaidYet /\ TradedOnce

GrantsInv == GrantsTypeOK /\ CallInv /\ BookInv
-----------------------------------------------------------------------------
(* What the pieces of the actions keep.                                      *)

LEMMA NoCallType == NoCall \in Call
BY DEF NoCall, Call, Steps

LEMMA EndsType ==
    ASSUME GrantsTypeOK, NEW r \in Callers, Ends(r)
    PROVE  call' \in [Callers -> Call] /\ turn' \in Callers \union {Nobody}
BY NoCallType DEF Ends, GrantsTypeOK

LEMMA AgedType ==
    ASSUME GrantsTypeOK
    PROVE  AgedCalls \in [Callers -> Call]
BY DEF AgedCalls, GrantsTypeOK, Call

LEMMA PairType ==
    ASSUME GrantsTypeOK, NEW e, NewPair(e)
    PROVE  /\ minted' \in 0..Secrets
           /\ codes' \subseteq 1..minted'
           /\ refreshes' \subseteq 1..minted'
           /\ accesses' \subseteq 1..minted'
           /\ paid' \in [1..Secrets -> Nat]
           /\ 1..minted \subseteq 1..minted'
<1>1. minted' \in 0..Secrets /\ 1..minted \subseteq 1..minted'
  BY GrantsAssumption DEF GrantsTypeOK, NewPair
<1>2. minted + 1 \in 1..minted' /\ minted + 2 \in 1..minted'
  BY GrantsAssumption DEF GrantsTypeOK, NewPair
<1>3. codes' \subseteq 1..minted' /\ refreshes' \subseteq 1..minted' /\ accesses' \subseteq 1..minted'
  BY <1>1, <1>2 DEF GrantsTypeOK, NewPair
<1>4. paid' \in [1..Secrets -> Nat]
  <2>1. paid' = [x \in 1..Secrets |-> IF x = e THEN paid[x] + 1 ELSE paid[x]]
    BY DEF GrantsTypeOK, NewPair
  <2>2. \A x \in 1..Secrets : paid[x] \in Nat
    BY DEF GrantsTypeOK
  <2> QED
    BY <2>1, <2>2
<1> QED
  BY <1>1, <1>3, <1>4

LEMMA CodeType ==
    ASSUME GrantsTypeOK, NewCode
    PROVE  /\ minted' \in 0..Secrets
           /\ codes' \subseteq 1..minted'
           /\ refreshes' \subseteq 1..minted'
           /\ accesses' \subseteq 1..minted'
           /\ 1..minted \subseteq 1..minted'
BY GrantsAssumption DEF GrantsTypeOK, NewCode

-----------------------------------------------------------------------------
(* Type correctness.                                                         *)

LEMMA TypeInit == GrantsInit => GrantsTypeOK
BY GrantsAssumption, NoCallType DEF GrantsInit, GrantsTypeOK

LEMMA TypeStep == GrantsTypeOK /\ [GrantsNext]_grantsVars => GrantsTypeOK'
<1> SUFFICES ASSUME GrantsTypeOK, [GrantsNext]_grantsVars
             PROVE  GrantsTypeOK'
  OBVIOUS
<1>1. ASSUME NEW r \in Callers, NEW op \in {"consent", "revoke"}, Begins(r, op)
      PROVE  GrantsTypeOK'
  BY <1>1 DEF Begins, GrantsTypeOK, NoCall, Call, Steps
<1>2. ASSUME NEW r \in Callers, NEW op \in {"exchange", "rotate"},
             NEW e \in codes \union refreshes, NEW fits \in BOOLEAN, GrantRead(r, op, e, fits)
      PROVE  GrantsTypeOK'
  <2>1. e \in Nat
    BY DEF GrantsTypeOK
  <2> QED
    BY <1>2, <2>1 DEF GrantRead, GrantsTypeOK, NoCall, Call, Steps
<1>3. ASSUME NEW r \in Callers, HoldsAccount(r)
      PROVE  GrantsTypeOK'
  BY <1>3 DEF HoldsAccount, ToStep, GrantsTypeOK, Call, Steps
<1>4. ASSUME NEW r \in Callers, GrantDeleted(r)
      PROVE  GrantsTypeOK'
  <2>1. CASE StillThere(call[r])
    <3>1. [call[r] EXCEPT !.step = "spent", !.good = @ /\ call[r].of \notin lapsed] \in Call
      <4>1. call[r] \in Call /\ (call[r].good /\ call[r].of \notin lapsed) \in BOOLEAN
        BY DEF GrantsTypeOK, Call
      <4> QED
        BY <4>1 DEF Call, Steps
    <3>2. call' = [call EXCEPT ![r] = [call[r] EXCEPT !.step = "spent",
                                                     !.good = @ /\ call[r].of \notin lapsed]]
      BY <1>4, <2>1 DEF GrantDeleted
    <3> QED
      BY <1>4, <2>1, <3>1, <3>2 DEF GrantDeleted, GrantsTypeOK
  <2>2. CASE ~StillThere(call[r])
    BY <1>4, <2>2, EndsType DEF GrantDeleted, GrantsTypeOK
  <2> QED
    BY <2>1, <2>2
<1>5. ASSUME NEW r \in Callers, TradeCommits(r)
      PROVE  GrantsTypeOK'
  <2>1. CASE NewPair(call[r].of)
    BY <1>5, <2>1, EndsType, PairType DEF TradeCommits, GrantsTypeOK
  <2>2. CASE NoPair(call[r].of)
    BY <1>5, <2>2, EndsType DEF TradeCommits, NoPair, GrantsTypeOK
  <2> QED
    BY <1>5, <2>1, <2>2 DEF TradeCommits
<1>6. ASSUME NEW r \in Callers, ConsentCommits(r)
      PROVE  GrantsTypeOK'
  BY <1>6, EndsType, CodeType DEF ConsentCommits, GrantsTypeOK
<1>7. ASSUME NEW r \in Callers, TokensDeleted(r)
      PROVE  GrantsTypeOK'
  <2>1. refreshes \union accesses \in SUBSET Nat
    BY DEF GrantsTypeOK
  <2>2. [call[r] EXCEPT !.step = "tokens", !.doomed = refreshes \union accesses] \in Call
    BY <2>1 DEF GrantsTypeOK, Call, Steps
  <2>3. call' = [call EXCEPT ![r] = [call[r] EXCEPT !.step = "tokens",
                                                   !.doomed = refreshes \union accesses]]
    BY <1>7 DEF TokensDeleted
  <2> QED
    BY <1>7, <2>2, <2>3 DEF TokensDeleted, GrantsTypeOK
<1>8. ASSUME NEW r \in Callers, CodesDeleted(r)
      PROVE  GrantsTypeOK'
  <2>1. call[r].doomed \union codes \in SUBSET Nat
    <3>1. call[r].doomed \in SUBSET Nat
      BY DEF GrantsTypeOK, Call
    <3>2. codes \in SUBSET Nat
      BY DEF GrantsTypeOK
    <3> QED
      BY <3>1, <3>2
  <2>2. [call[r] EXCEPT !.step = "spent", !.doomed = @ \union codes] \in Call
    BY <2>1 DEF GrantsTypeOK, Call, Steps
  <2>3. call' = [call EXCEPT ![r] = [call[r] EXCEPT !.step = "spent", !.doomed = @ \union codes]]
    BY <1>8 DEF CodesDeleted
  <2> QED
    BY <1>8, <2>2, <2>3 DEF CodesDeleted, GrantsTypeOK
<1>9. ASSUME NEW r \in Callers, RevokeCommits(r)
      PROVE  GrantsTypeOK'
  <2>1. call' \in [Callers -> Call] /\ turn' \in Callers \union {Nobody}
    <3>1. Ends(r)
      BY <1>9 DEF RevokeCommits
    <3> QED
      BY <3>1, EndsType
  <2>2. codes' \subseteq codes /\ refreshes' \subseteq refreshes /\ accesses' \subseteq accesses
    BY <1>9 DEF RevokeCommits
  <2>3. era' \in Nat
    BY <1>9 DEF RevokeCommits, GrantsTypeOK
  <2>4. UNCHANGED <<backend, minted, lapsed, paid>>
    BY <1>9 DEF RevokeCommits
  <2> QED
    BY <2>1, <2>2, <2>3, <2>4 DEF GrantsTypeOK
<1>10. ASSUME NEW r \in Callers, RollsBack(r)
      PROVE  GrantsTypeOK'
  BY <1>10, EndsType DEF RollsBack, GrantsTypeOK
<1>11. ASSUME NEW r \in Callers, NEW t \in refreshes, FileRotateReads(r, t)
      PROVE  GrantsTypeOK'
  <2>1. t \in Nat
    BY DEF GrantsTypeOK
  <2> QED
    BY <1>11, <2>1 DEF FileRotateReads, GrantsTypeOK, NoCall, Call, Steps
<1>12. ASSUME NEW r \in Callers, FileRotateWrites(r)
      PROVE  GrantsTypeOK'
  <2>1. call' \in [Callers -> Call]
    BY <1>12, AgedType, NoCallType DEF FileRotateWrites
  <2>2. CASE NewPair(call[r].of)
    BY <1>12, <2>1, <2>2, PairType DEF FileRotateWrites, GrantsTypeOK
  <2>3. CASE NoPair(call[r].of)
    BY <1>12, <2>1, <2>3 DEF FileRotateWrites, NoPair, GrantsTypeOK
  <2> QED
    BY <1>12, <2>2, <2>3 DEF FileRotateWrites
<1>13. CASE FileConsent
  BY <1>13, AgedType, CodeType DEF FileConsent, GrantsTypeOK
<1>14. CASE FileRevoke
  BY <1>14, AgedType DEF FileRevoke, GrantsTypeOK
<1>15. ASSUME NEW c \in codes, NEW fits \in BOOLEAN, FileExchange(c, fits)
      PROVE  GrantsTypeOK'
  <2>1. CASE NewPair(c)
    BY <1>15, <2>1, AgedType, PairType DEF FileExchange, GrantsTypeOK
  <2>2. CASE NoPair(c)
    BY <1>15, <2>2, AgedType DEF FileExchange, NoPair, GrantsTypeOK
  <2> QED
    BY <1>15, <2>1, <2>2 DEF FileExchange
<1>16. ASSUME NEW e \in codes \union refreshes \union accesses, GrantLapses(e)
      PROVE  GrantsTypeOK'
  BY <1>16 DEF GrantLapses, GrantsTypeOK
<1>17. CASE TokensSwept
  BY <1>17, AgedType DEF TokensSwept, GrantsTypeOK
<1>18. CASE CodesSwept
  BY <1>18, AgedType DEF CodesSwept, GrantsTypeOK
<1>19. CASE UNCHANGED grantsVars
  BY <1>19 DEF grantsVars, GrantsTypeOK
<1> QED
  BY <1>1, <1>2, <1>3, <1>4, <1>5, <1>6, <1>7, <1>8, <1>9, <1>10, <1>11, <1>12,
     <1>13, <1>14, <1>15, <1>16, <1>17, <1>18, <1>19
     DEF GrantsNext, ConsentBegins, RevokeBegins

\* What is stored of an account's grants is well formed whatever calls overlap:
\* every code and token was made, whoever holds the account's turn is a call.
THEOREM GrantsTypeCorrect == GrantsSpec => []GrantsTypeOK
BY TypeInit, TypeStep, PTL DEF GrantsSpec
-----------------------------------------------------------------------------
(* Steps of calls and of what they know of the tables.                       *)

\* Only r's call is changed, and what the others hold is left to them.
OnlyCall(r) ==
    /\ \A q \in Callers \ {r} : call'[q] = call[q] /\ (turn = q => turn' = q)
    /\ UNCHANGED <<backend, lapsed>>

LEMMA OthersKept ==
    ASSUME CallInv, GrantsTypeOK, NEW r \in Callers, OnlyCall(r),
           UNCHANGED <<codes, refreshes, accesses>>,
           CallShape(r)', TurnHeld(r)', SpentThere(r)', AllDoomed(r)', SnapshotHolds(r)'
    PROVE  CallInv'
<1> SUFFICES ASSUME NEW q \in Callers, q # r
             PROVE  (CallShape(q) /\ TurnHeld(q) /\ SpentThere(q) /\ AllDoomed(q) /\ SnapshotHolds(q))'
  BY DEF CallInv
<1>1. call'[q] = call[q] /\ (turn = q => turn' = q)
  BY DEF OnlyCall
<1> QED
  BY <1>1 DEF CallInv, OnlyCall, CallShape, TurnHeld, SpentThere, AllDoomed, SnapshotHolds, Table

LEMMA EndsCall ==
    ASSUME CallInv, GrantsTypeOK, NEW r \in Callers, Ends(r), UNCHANGED <<backend, lapsed>>
    PROVE  /\ OnlyCall(r)
           /\ CallShape(r)' /\ TurnHeld(r)' /\ SpentThere(r)' /\ AllDoomed(r)' /\ SnapshotHolds(r)'
<1>1. call'[r] = NoCall /\ \A q \in Callers \ {r} : call'[q] = call[q]
  BY DEF Ends, GrantsTypeOK
<1>2. OnlyCall(r)
  BY <1>1 DEF OnlyCall, Ends
<1> QED
  BY <1>1, <1>2 DEF NoCall, CallShape, TurnHeld, SpentThere, AllDoomed, SnapshotHolds

\* Postgres: while r has the account's turn, no other transaction is past its
\* wait, so what r's commit takes from the tables no other call counts on.
LEMMA CommitKeeps ==
    ASSUME CallInv, GrantsTypeOK, NEW r \in Callers, backend = "postgres", turn = r,
           Ends(r), UNCHANGED <<backend, lapsed>>
    PROVE  CallInv'
<1>1. CallShape(r)' /\ TurnHeld(r)' /\ SpentThere(r)' /\ AllDoomed(r)' /\ SnapshotHolds(r)'
  BY EndsCall
<1>2. ASSUME NEW q \in Callers, q # r
      PROVE  (CallShape(q) /\ TurnHeld(q) /\ SpentThere(q) /\ AllDoomed(q) /\ SnapshotHolds(q))'
  <2>1. call'[q] = call[q]
    BY <1>2, EndsCall DEF OnlyCall
  <2>2. call[q].step \notin {"holds", "tokens", "spent", "reads"}
    BY <1>2 DEF CallInv, CallShape, TurnHeld
  <2> QED
    BY <2>1, <2>2 DEF CallInv, CallShape, TurnHeld, SpentThere, AllDoomed, SnapshotHolds
<1> QED
  BY <1>1, <1>2 DEF CallInv

\* Files: a write ages every snapshot.
LEMMA WriteKeeps ==
    ASSUME CallInv, GrantsTypeOK, backend = "files", UNCHANGED <<backend, lapsed>>,
           \A q \in Callers : call'[q] = AgedCalls[q] \/ call'[q] = NoCall
    PROVE  CallInv'
<1> SUFFICES ASSUME NEW q \in Callers
             PROVE  (CallShape(q) /\ TurnHeld(q) /\ SpentThere(q) /\ AllDoomed(q) /\ SnapshotHolds(q))'
  BY DEF CallInv
<1>1. CallShape(q) /\ call[q] \in Call
  BY DEF CallInv, GrantsTypeOK
<1>2. CASE call'[q] = NoCall
  BY <1>2 DEF NoCall, CallShape, TurnHeld, SpentThere, AllDoomed, SnapshotHolds
<1>3. CASE call'[q] = [call[q] EXCEPT !.stale = call[q].step = "reads"]
  BY <1>1, <1>3 DEF Call, CallShape, TurnHeld, SpentThere, AllDoomed, SnapshotHolds
<1> QED
  BY <1>2, <1>3 DEF AgedCalls

LEMMA CallInit == GrantsInit => CallInv
BY DEF GrantsInit, NoCall, CallInv, CallShape, TurnHeld, SpentThere, AllDoomed, SnapshotHolds

LEMMA CallStep == GrantsTypeOK /\ CallInv /\ [GrantsNext]_grantsVars => CallInv'
<1> SUFFICES ASSUME GrantsTypeOK, CallInv, [GrantsNext]_grantsVars
             PROVE  CallInv'
  OBVIOUS
<1> USE DEF OnPostgres, OnFiles
<1>1. ASSUME NEW r \in Callers, NEW op \in {"consent", "revoke"}, Begins(r, op)
      PROVE  CallInv'
  <2>1. call'[r] = [NoCall EXCEPT !.op = op, !.step = "waits"] /\ OnlyCall(r)
    BY <1>1 DEF Begins, OnlyCall, GrantsTypeOK
  <2>2. CallShape(r)' /\ TurnHeld(r)' /\ SpentThere(r)' /\ AllDoomed(r)' /\ SnapshotHolds(r)'
    BY <1>1, <2>1 DEF Begins, NoCall, CallShape, TurnHeld, SpentThere, AllDoomed, SnapshotHolds
  <2> QED
    BY <1>1, <2>1, <2>2, OthersKept DEF Begins
<1>2. ASSUME NEW r \in Callers, NEW op \in {"exchange", "rotate"},
             NEW e \in codes \union refreshes, NEW fits \in BOOLEAN, GrantRead(r, op, e, fits)
      PROVE  CallInv'
  <2>1. /\ call'[r] = [NoCall EXCEPT !.op = op, !.step = "waits", !.of = e, !.good = fits]
        /\ OnlyCall(r)
    BY <1>2 DEF GrantRead, OnlyCall, GrantsTypeOK
  <2>2. CallShape(r)' /\ TurnHeld(r)' /\ SpentThere(r)' /\ AllDoomed(r)' /\ SnapshotHolds(r)'
    BY <1>2, <2>1 DEF GrantRead, NoCall, CallShape, TurnHeld, SpentThere, AllDoomed, SnapshotHolds
  <2> QED
    BY <1>2, <2>1, <2>2, OthersKept DEF GrantRead
<1>3. ASSUME NEW r \in Callers, HoldsAccount(r)
      PROVE  CallInv'
  <2>1. call'[r] = [call[r] EXCEPT !.step = "holds"] /\ OnlyCall(r)
    BY <1>3, GrantsAssumption DEF HoldsAccount, ToStep, TurnFree, Nobody, OnlyCall, GrantsTypeOK
  <2>2. CallShape(r)' /\ TurnHeld(r)' /\ SpentThere(r)' /\ AllDoomed(r)' /\ SnapshotHolds(r)'
    BY <1>3, <2>1 DEF HoldsAccount, GrantsTypeOK, Call, CallInv, CallShape, TurnHeld, SpentThere,
                      AllDoomed, SnapshotHolds
  <2> QED
    BY <1>3, <2>1, <2>2, OthersKept DEF HoldsAccount
<1>4. ASSUME NEW r \in Callers, GrantDeleted(r)
      PROVE  CallInv'
  <2>1. CASE StillThere(call[r])
    <3>1. call' = [call EXCEPT ![r] = [call[r] EXCEPT !.step = "spent",
                                                     !.good = @ /\ call[r].of \notin lapsed]]
      BY <1>4, <2>1 DEF GrantDeleted
    <3>2. call'[r] = [call[r] EXCEPT !.step = "spent", !.good = @ /\ call[r].of \notin lapsed]
      BY <3>1 DEF GrantsTypeOK
    <3>3. OnlyCall(r)
      BY <1>4, <2>1, <3>1 DEF GrantDeleted, OnlyCall, GrantsTypeOK
    <3>4. /\ call'[r].step = "spent" /\ call'[r].op = call[r].op /\ call'[r].of = call[r].of
          /\ call'[r].good <=> call[r].good /\ call[r].of \notin lapsed
      BY <3>2 DEF GrantsTypeOK, Call
    <3>5. CallShape(r)'
      BY <1>4, <3>4 DEF GrantDeleted, CallInv, CallShape
    <3>6. TurnHeld(r)' /\ SpentThere(r)' /\ AllDoomed(r)' /\ SnapshotHolds(r)'
      BY <1>4, <2>1, <3>4 DEF GrantDeleted, StillThere, Table, CallInv, TurnHeld, SpentThere,
                              AllDoomed, SnapshotHolds
    <3> QED
      BY <1>4, <3>3, <3>5, <3>6, OthersKept DEF GrantDeleted
  <2>2. CASE ~StillThere(call[r])
    BY <1>4, <2>2, EndsCall, OthersKept DEF GrantDeleted
  <2> QED
    BY <2>1, <2>2
<1>5. ASSUME NEW r \in Callers, TradeCommits(r) \/ ConsentCommits(r) \/ RevokeCommits(r)
      PROVE  CallInv'
  <2>1. /\ backend = "postgres" /\ call[r].step \in {"holds", "spent"}
        /\ Ends(r) /\ UNCHANGED <<backend, lapsed>>
    BY <1>5 DEF TradeCommits, ConsentCommits, RevokeCommits
  <2>2. turn = r
    BY <2>1 DEF CallInv, TurnHeld
  <2> QED
    BY <2>1, <2>2, CommitKeeps
<1>6. ASSUME NEW r \in Callers, TokensDeleted(r)
      PROVE  CallInv'
  <2>1. call' = [call EXCEPT ![r] = [call[r] EXCEPT !.step = "tokens",
                                                   !.doomed = refreshes \union accesses]]
    BY <1>6 DEF TokensDeleted
  <2>2. call'[r] = [call[r] EXCEPT !.step = "tokens", !.doomed = refreshes \union accesses]
    BY <2>1 DEF GrantsTypeOK
  <2>3. OnlyCall(r)
    BY <1>6, <2>1 DEF TokensDeleted, OnlyCall, GrantsTypeOK
  <2>4. /\ call'[r].step = "tokens" /\ call'[r].op = "revoke"
        /\ call'[r].doomed = refreshes \union accesses
    BY <1>6, <2>2 DEF TokensDeleted, GrantsTypeOK, Call
  <2>5. CallShape(r)' /\ TurnHeld(r)' /\ SpentThere(r)' /\ AllDoomed(r)' /\ SnapshotHolds(r)'
    BY <1>6, <2>4 DEF TokensDeleted, CallInv, CallShape, TurnHeld, SpentThere, AllDoomed, SnapshotHolds
  <2> QED
    BY <1>6, <2>3, <2>5, OthersKept DEF TokensDeleted
<1>7. ASSUME NEW r \in Callers, CodesDeleted(r)
      PROVE  CallInv'
  <2>1. call' = [call EXCEPT ![r] = [call[r] EXCEPT !.step = "spent", !.doomed = @ \union codes]]
    BY <1>7 DEF CodesDeleted
  <2>2. call'[r] = [call[r] EXCEPT !.step = "spent", !.doomed = @ \union codes]
    BY <2>1 DEF GrantsTypeOK
  <2>3. OnlyCall(r)
    BY <1>7, <2>1 DEF CodesDeleted, OnlyCall, GrantsTypeOK
  <2>4. /\ call'[r].step = "spent" /\ call'[r].op = "revoke"
        /\ call'[r].doomed = call[r].doomed \union codes
    BY <1>7, <2>2 DEF CodesDeleted, GrantsTypeOK, Call, CallInv, CallShape
  <2>5. refreshes \union accesses \subseteq call[r].doomed
    BY <1>7 DEF CodesDeleted, CallInv, AllDoomed
  <2>6. CallShape(r)' /\ TurnHeld(r)' /\ SpentThere(r)' /\ AllDoomed(r)' /\ SnapshotHolds(r)'
    BY <1>7, <2>4, <2>5 DEF CodesDeleted, CallInv, CallShape, TurnHeld, SpentThere, AllDoomed,
                            SnapshotHolds
  <2> QED
    BY <1>7, <2>3, <2>6, OthersKept DEF CodesDeleted
<1>8. ASSUME NEW r \in Callers, RollsBack(r)
      PROVE  CallInv'
  BY <1>8, EndsCall, OthersKept DEF RollsBack
<1>9. ASSUME NEW r \in Callers, NEW t \in refreshes, FileRotateReads(r, t)
      PROVE  CallInv'
  <2>1. /\ call'[r] = [NoCall EXCEPT !.op = "rotate", !.step = "reads", !.of = t]
        /\ OnlyCall(r)
    BY <1>9 DEF FileRotateReads, OnlyCall, GrantsTypeOK
  <2>2. CallShape(r)' /\ TurnHeld(r)' /\ SpentThere(r)' /\ AllDoomed(r)' /\ SnapshotHolds(r)'
    BY <1>9, <2>1 DEF FileRotateReads, NoCall, CallShape, TurnHeld, SpentThere, AllDoomed, SnapshotHolds
  <2> QED
    BY <1>9, <2>1, <2>2, OthersKept DEF FileRotateReads
<1>10. ASSUME NEW r \in Callers, FileRotateWrites(r)
       PROVE  CallInv'
  <2>1. \A q \in Callers : call'[q] = AgedCalls[q] \/ call'[q] = NoCall
    BY <1>10, AgedType DEF FileRotateWrites
  <2> QED
    BY <1>10, <2>1, WriteKeeps DEF FileRotateWrites
<1>11. ASSUME FileConsent \/ FileRevoke \/ \E c \in codes, fits \in BOOLEAN : FileExchange(c, fits)
       PROVE  CallInv'
  BY <1>11, WriteKeeps DEF FileConsent, FileRevoke, FileExchange
<1>12. ASSUME NEW e \in codes \union refreshes \union accesses, GrantLapses(e)
       PROVE  CallInv'
  BY <1>12 DEF GrantLapses, CallInv, CallShape, TurnHeld, SpentThere, AllDoomed, SnapshotHolds, Table
<1>13. ASSUME TokensSwept \/ CodesSwept
       PROVE  CallInv'
  <2>1. CASE backend = "files"
    BY <1>13, <2>1, WriteKeeps DEF TokensSwept, CodesSwept
  <2>2. CASE backend = "postgres"
    <3> SUFFICES ASSUME NEW q \in Callers
                 PROVE  (CallShape(q) /\ TurnHeld(q) /\ SpentThere(q) /\ AllDoomed(q) /\ SnapshotHolds(q))'
      BY DEF CallInv
    <3>1. /\ call'[q].step = call[q].step /\ call'[q].op = call[q].op /\ call'[q].of = call[q].of
          /\ call'[q].good = call[q].good /\ call'[q].doomed = call[q].doomed
      BY <1>13 DEF TokensSwept, CodesSwept, AgedCalls, GrantsTypeOK, Call
    <3>2. UNCHANGED <<backend, lapsed, turn>> /\ codes' \subseteq codes
          /\ refreshes' \subseteq refreshes /\ accesses' \subseteq accesses
      BY <1>13 DEF TokensSwept, CodesSwept
    <3>3. CallShape(q)' /\ TurnHeld(q)' /\ AllDoomed(q)' /\ SnapshotHolds(q)'
      BY <2>2, <3>1, <3>2 DEF CallInv, CallShape, TurnHeld, AllDoomed, SnapshotHolds
    <3>4. SpentThere(q)'
      <4> SUFFICES ASSUME call[q].step = "spent", call[q].op \in {"exchange", "rotate"}
                   PROVE  call[q].of \in Table(call[q].op)'
        BY <3>1 DEF SpentThere, Table
      <4>1. call[q].of \in Table(call[q].op) /\ call[q].of \in InHand(q)
        BY DEF CallInv, SpentThere, InHand
      <4>2. CASE TokensSwept
        <5>1. call[q].of \notin refreshes \intersect lapsed
          BY <4>1, <4>2, Zenon DEF TokensSwept
        <5>2. refreshes' = refreshes \ lapsed /\ codes' = codes
          BY <4>2 DEF TokensSwept
        <5> QED
          BY <3>1, <4>1, <5>1, <5>2 DEF Table
      <4>3. CASE CodesSwept
        <5>1. call[q].of \notin codes \intersect lapsed
          BY <4>1, <4>3, Zenon DEF CodesSwept
        <5>2. codes' = codes \ lapsed /\ refreshes' = refreshes
          BY <4>3 DEF CodesSwept
        <5> QED
          BY <3>1, <4>1, <5>1, <5>2 DEF Table
      <4> QED
        BY <1>13, <4>2, <4>3
    <3> QED
      BY <3>3, <3>4
  <2> QED
    BY <2>1, <2>2 DEF GrantsTypeOK
<1>14. CASE UNCHANGED grantsVars
  BY <1>14 DEF grantsVars, CallInv, CallShape, TurnHeld, SpentThere, AllDoomed, SnapshotHolds, Table
<1> QED
  BY <1>1, <1>2, <1>3, <1>4, <1>5, <1>6, <1>7, <1>8, <1>9, <1>10, <1>11, <1>12, <1>13, <1>14
     DEF GrantsNext, ConsentBegins, RevokeBegins

-----------------------------------------------------------------------------
(* What has been paid for.                                                   *)

LEMMA BookInit0 == GrantsInit => BookInv
BY GrantsAssumption DEF GrantsInit, BookInv, Apart, UnpaidYet, TradedOnce

\* A pair in the place of what could still be traded.
LEMMA PairKeeps ==
    ASSUME GrantsTypeOK, BookInv, NEW e \in codes \union refreshes, NewPair(e)
    PROVE  BookInv'
<1>1. e \in 1..Secrets /\ e <= minted /\ minted \in Nat /\ paid[e] = 0
  BY GrantsAssumption DEF GrantsTypeOK, BookInv, UnpaidYet
<1>2. paid' = [x \in 1..Secrets |-> IF x = e THEN paid[x] + 1 ELSE paid[x]]
  BY DEF GrantsTypeOK, NewPair
<1>3. Apart'
  BY <1>1 DEF GrantsTypeOK, NewPair, BookInv, Apart
<1>4. UnpaidYet'
  <2> SUFFICES ASSUME NEW x \in 1..Secrets, x \in codes' \union refreshes' \/ x > minted'
               PROVE  paid'[x] = 0
    BY DEF UnpaidYet
  <2>1. x # e /\ (x \in codes \union refreshes \/ x > minted)
    BY <1>1 DEF GrantsTypeOK, NewPair
  <2> QED
    BY <1>2, <2>1 DEF BookInv, UnpaidYet
<1>5. TradedOnce'
  BY <1>1, <1>2 DEF BookInv, TradedOnce
<1> QED
  BY <1>3, <1>4, <1>5 DEF BookInv

\* Nothing is paid and nothing but a code is made.
LEMMA FewerKeeps ==
    ASSUME GrantsTypeOK, BookInv, codes' \subseteq codes, refreshes' \subseteq refreshes,
           UNCHANGED <<minted, paid>>
    PROVE  BookInv'
BY DEF BookInv, Apart, UnpaidYet, TradedOnce

LEMMA CodeKeeps ==
    ASSUME GrantsTypeOK, BookInv, NewCode, UNCHANGED paid
    PROVE  BookInv'
<1>1. minted \in Nat /\ minted' = minted + 1 /\ codes' = codes \union {minted + 1}
      /\ refreshes' = refreshes
  BY GrantsAssumption DEF GrantsTypeOK, NewCode
<1>2. Apart'
  BY <1>1 DEF GrantsTypeOK, BookInv, Apart
<1> QED
  BY <1>1, <1>2 DEF GrantsTypeOK, BookInv, UnpaidYet, TradedOnce

LEMMA BookStep == GrantsTypeOK /\ CallInv /\ BookInv /\ [GrantsNext]_grantsVars => BookInv'
<1> SUFFICES ASSUME GrantsTypeOK, CallInv, BookInv, [GrantsNext]_grantsVars
             PROVE  BookInv'
  OBVIOUS
<1> USE DEF OnPostgres, OnFiles
<1>1. ASSUME NEW r \in Callers,
             \/ ConsentBegins(r) \/ RevokeBegins(r)
             \/ \E op \in {"exchange", "rotate"}, e \in codes \union refreshes, fits \in BOOLEAN :
                   GrantRead(r, op, e, fits)
             \/ HoldsAccount(r) \/ GrantDeleted(r) \/ TokensDeleted(r) \/ CodesDeleted(r)
             \/ RollsBack(r) \/ \E t \in refreshes : FileRotateReads(r, t)
      PROVE  BookInv'
  <2>1. UNCHANGED <<codes, refreshes, minted, paid>>
    BY <1>1 DEF ConsentBegins, RevokeBegins, Begins, GrantRead, HoldsAccount, GrantDeleted,
                TokensDeleted, CodesDeleted, RollsBack, FileRotateReads
  <2> QED
    BY <2>1, FewerKeeps
<1>2. ASSUME NEW r \in Callers, TradeCommits(r)
      PROVE  BookInv'
  <2>1. call[r].of \in codes \union refreshes
    BY <1>2 DEF TradeCommits, CallInv, SpentThere, Table
  <2>2. CASE NewPair(call[r].of)
    BY <2>1, <2>2, PairKeeps
  <2>3. CASE NoPair(call[r].of)
    BY <2>3, FewerKeeps DEF NoPair
  <2> QED
    BY <1>2, <2>2, <2>3 DEF TradeCommits
<1>3. ASSUME NEW r \in Callers, ConsentCommits(r) \/ RevokeCommits(r)
      PROVE  BookInv'
  BY <1>3, CodeKeeps, FewerKeeps DEF ConsentCommits, RevokeCommits
<1>4. ASSUME NEW r \in Callers, FileRotateWrites(r)
      PROVE  BookInv'
  <2>1. call[r].of \in codes \union refreshes
    BY <1>4 DEF FileRotateWrites, CallInv, SnapshotHolds
  <2>2. CASE NewPair(call[r].of)
    BY <2>1, <2>2, PairKeeps
  <2>3. CASE NoPair(call[r].of)
    BY <2>3, FewerKeeps DEF NoPair
  <2> QED
    BY <1>4, <2>2, <2>3 DEF FileRotateWrites
<1>5. ASSUME NEW c \in codes, NEW fits \in BOOLEAN, FileExchange(c, fits)
      PROVE  BookInv'
  BY <1>5, PairKeeps, FewerKeeps DEF FileExchange, NoPair
<1>6. CASE FileConsent \/ FileRevoke
  BY <1>6, CodeKeeps, FewerKeeps DEF FileConsent, FileRevoke
<1>7. ASSUME \/ \E e \in codes \union refreshes \union accesses : GrantLapses(e)
             \/ TokensSwept \/ CodesSwept
             \/ UNCHANGED grantsVars
      PROVE  BookInv'
  <2>1. codes' \subseteq codes /\ refreshes' \subseteq refreshes /\ UNCHANGED <<minted, paid>>
    BY <1>7 DEF GrantLapses, TokensSwept, CodesSwept, grantsVars
  <2> QED
    BY <2>1, FewerKeeps
<1> QED
  BY <1>1, <1>2, <1>3, <1>4, <1>5, <1>6, <1>7 DEF GrantsNext

LEMMA InvInit == GrantsInit => GrantsInv
BY TypeInit, CallInit, BookInit0 DEF GrantsInv

LEMMA InvStep == GrantsInv /\ [GrantsNext]_grantsVars => GrantsInv'
BY TypeStep, CallStep, BookStep DEF GrantsInv

\* The single use that the store promises of codes and refresh tokens: no
\* number of calls that present one, on either store, gets two pairs for it.
THEOREM TradesOnce == GrantsSpec => []TradedOnce
<1>1. GrantsInv => TradedOnce
  BY DEF GrantsInv, BookInv
<1> QED
  BY <1>1, InvInit, InvStep, PTL DEF GrantsSpec

-----------------------------------------------------------------------------
(* The book.                                                                 *)

LEMMA BookBegins == GrantsInit => Book!BookInit
BY DEF GrantsInit, Book!BookInit

\* A trade, for a pair or for nothing.
LEMMA PairIsTrade ==
    ASSUME GrantsInv, NEW e \in codes \union refreshes, NewPair(e), UNCHANGED <<lapsed, era>>
    PROVE  Book!BookNext
<1>1. e \in Book!Grants
  BY DEF Book!Grants
<1>2. CASE e \in codes
  <2>1. e \notin refreshes
    BY <1>2 DEF GrantsInv, BookInv, Apart
  <2>2. Book!Exchange(e)
    BY <1>2, <2>1 DEF NewPair, Book!Exchange
  <2> QED
    BY <1>1, <2>2 DEF Book!BookNext
<1>3. CASE e \in refreshes
  <2>1. e \notin codes
    BY <1>3 DEF GrantsInv, BookInv, Apart
  <2>2. Book!Rotate(e)
    BY <1>3, <2>1 DEF NewPair, Book!Rotate
  <2> QED
    BY <1>1, <2>2 DEF Book!BookNext
<1> QED
  BY <1>2, <1>3

LEMMA NoPairIsRefusal ==
    ASSUME GrantsInv, NEW e, e \in codes \/ (e \in refreshes /\ e \in lapsed), NoPair(e),
           UNCHANGED <<lapsed, era>>
    PROVE  Book!BookNext
<1>1. e \in Book!Grants
  BY DEF Book!Grants
<1>2. e \in codes => e \notin refreshes
  BY DEF GrantsInv, BookInv, Apart
<1>3. Book!Refuse(e)
  BY <1>2 DEF NoPair, Book!Refuse
<1> QED
  BY <1>1, <1>3 DEF Book!BookNext

LEMMA BookFollows == GrantsInv /\ [GrantsNext]_grantsVars => [Book!BookNext]_(Book!bookVars)
<1> SUFFICES ASSUME GrantsInv, [GrantsNext]_grantsVars
             PROVE  Book!BookNext \/ UNCHANGED Book!bookVars
  OBVIOUS
<1> USE DEF OnPostgres, OnFiles
<1>1. ASSUME NEW r \in Callers,
             \/ ConsentBegins(r) \/ RevokeBegins(r)
             \/ \E op \in {"exchange", "rotate"}, e \in codes \union refreshes, fits \in BOOLEAN :
                   GrantRead(r, op, e, fits)
             \/ HoldsAccount(r) \/ GrantDeleted(r) \/ TokensDeleted(r) \/ CodesDeleted(r)
             \/ RollsBack(r) \/ \E t \in refreshes : FileRotateReads(r, t)
      PROVE  UNCHANGED Book!bookVars
  BY <1>1 DEF ConsentBegins, RevokeBegins, Begins, GrantRead, HoldsAccount, GrantDeleted,
              TokensDeleted, CodesDeleted, RollsBack, FileRotateReads, Book!bookVars
<1>2. ASSUME NEW r \in Callers, TradeCommits(r)
      PROVE  Book!BookNext
  <2>1. /\ call[r].of \in Table(call[r].op)
        /\ call[r].op = "rotate" => call[r].good \/ call[r].of \in lapsed
    BY <1>2 DEF TradeCommits, GrantsInv, CallInv, SpentThere, CallShape
  <2>2. CASE call[r].good
    BY <1>2, <2>1, <2>2, PairIsTrade DEF TradeCommits, Table
  <2>3. CASE ~call[r].good
    BY <1>2, <2>1, <2>3, NoPairIsRefusal DEF TradeCommits, Table
  <2> QED
    BY <2>2, <2>3
<1>3. ASSUME FileConsent \/ \E r \in Callers : ConsentCommits(r)
      PROVE  Book!BookNext
  BY <1>3 DEF FileConsent, ConsentCommits, NewCode, Book!BookNext, Book!Consent
<1>4. ASSUME NEW r \in Callers, RevokeCommits(r)
      PROVE  Book!BookNext
  <2>1. codes \union refreshes \union accesses \subseteq call[r].doomed
    BY <1>4 DEF RevokeCommits, GrantsInv, CallInv, AllDoomed
  <2>2. Book!Revoke
    BY <1>4, <2>1 DEF RevokeCommits, Book!Revoke
  <2> QED
    BY <2>2 DEF Book!BookNext
<1>5. CASE FileRevoke
  BY <1>5 DEF FileRevoke, Book!BookNext, Book!Revoke
<1>6. ASSUME NEW r \in Callers, FileRotateWrites(r)
      PROVE  Book!BookNext
  <2>1. call[r].of \in refreshes
    BY <1>6 DEF FileRotateWrites, GrantsInv, CallInv, SnapshotHolds
  <2> QED
    BY <1>6, <2>1, PairIsTrade, NoPairIsRefusal DEF FileRotateWrites
<1>7. ASSUME NEW c \in codes, NEW fits \in BOOLEAN, FileExchange(c, fits)
      PROVE  Book!BookNext
  BY <1>7, PairIsTrade, NoPairIsRefusal DEF FileExchange
<1>8. ASSUME NEW e \in codes \union refreshes \union accesses, GrantLapses(e)
      PROVE  Book!BookNext
  BY <1>8 DEF GrantLapses, Book!BookNext, Book!Lapse, Book!Grants
<1>9. ASSUME TokensSwept \/ CodesSwept
      PROVE  Book!BookNext
  <2>1. Book!Sweep
    BY <1>9 DEF TokensSwept, CodesSwept, Book!Sweep
  <2> QED
    BY <2>1 DEF Book!BookNext
<1>10. CASE UNCHANGED grantsVars
  BY <1>10 DEF grantsVars, Book!bookVars
<1> QED
  BY <1>1, <1>2, <1>3, <1>4, <1>5, <1>6, <1>7, <1>8, <1>9, <1>10 DEF GrantsNext

\* Either store behaves as the book: every consent, exchange, rotation and
\* revocation, in whatever statements it is made, is one whole step of it.
THEOREM StoreKeepsTheBook == GrantsSpec => KeptAsTheBook
BY InvInit, InvStep, BookBegins, BookFollows, PTL DEF GrantsSpec, KeptAsTheBook, Book!BookSpec

-----------------------------------------------------------------------------
(* The tree of projects: its paths and its inductive invariant.              *)

Paths == Seq(PathNames \union {"absent"})

\* No project without those it is in.
Rooted(D) == \A p \in D : \A n \in 1..Len(p) : SubSeq(p, 1, n) \in D

AllRenamed(D, from, to) == {Renamed(p, from, to) : p \in D}

\* An app first published beside a change, or on an old ticket, is not spoken of.
SettledApps == Existing \ late

IsMove(m) == ~Covers(m.from, m.to) /\ ~Covers(m.to, m.from) /\ m.to # Absent

\* Once everything at one path is at the other no project has an app's path, and
\* each app names a project that is there.
FitsAfter(m) ==
    \A a \in SettledApps :
        /\ Renamed(AppPath(place[a], a), m.from, m.to) \notin AllRenamed(DOMAIN tree, m.from, m.to)
        /\ Renamed(place[a], m.from, m.to) \in AllRenamed(DOMAIN tree, m.from, m.to) \union {Root}

\* The tree has yet to move, or has moved after all apps.
TreeBefore(m) ==
    /\ m.from \in DOMAIN tree /\ m.to \notin DOMAIN tree
    /\ Len(m.to) > 1 => Parent(m.to) \in DOMAIN tree

TreeAfter(m) == m.from \notin DOMAIN tree /\ \A a \in SettledApps : ~Covers(m.from, place[a])

MoveFits ==
    /\ FitsAfter(journal)
    /\ journal # NoMove => IsMove(journal) /\ (TreeBefore(journal) \/ TreeAfter(journal))

\* What a change goes by at each step.
CreateFits == mover.op = "create" /\ mover.at = "insert" => mover.to \notin AppPaths(SettledApps)

AppFits ==
    mover.op = "app" /\ mover.at = "meta" =>
        mover.to \in DOMAIN tree \union {Root} /\ AppPath(mover.to, mover.app) \notin DOMAIN tree

RelocateFits ==
    mover.op = "project" =>
        /\ ~Covers(mover.from, mover.to)
        /\ mover.at \in {"sweep", "begin"} => TreeBefore(mover) /\ IsMove(mover) /\ FitsAfter(mover)

RemoveFits ==
    mover.op = "remove" /\ mover.at \in {"rows", "tree"} =>
        /\ \A p \in DOMAIN tree \ {mover.from} : ~Covers(mover.from, p)
        /\ \A a \in SettledApps : place[a] = Root \/ ~Covers(mover.from, place[a])

\* The apps that are to move are listed, and as they are.
AllListed(left) == \A a \in SettledApps : Covers(journal.from, place[a]) => <<a, place[a]>> \in left

AsListed(left) == \A l \in left : l[1] \in late \/ (l[1] \in SettledApps /\ l[2] = place[l[1]])

ResumeFits ==
    /\ mover.at \in {"list", "apps", "scopes", "clear"} => journal # NoMove
    /\ mover.op # "create" /\ mover.at \in {"check", "meta", "rows", "tree", "sweep", "begin"} => journal = NoMove
    /\ mover.at = "apps" => AllListed(mover.left) /\ AsListed(mover.left)
    /\ mover.at \in {"scopes", "clear"} => TreeAfter(journal)

ChangeFits == CreateFits /\ AppFits /\ RelocateFits /\ RemoveFits /\ ResumeFits

Fits == Rooted(DOMAIN tree) /\ MoveFits /\ ChangeFits

MoverSteps == {"idle", "check", "resume", "list", "apps", "scopes", "clear", "insert", "meta", "rows",
               "sweep", "begin", "tree"}

MoverRecord ==
    [op : {"none", "create", "app", "project", "remove", "boot"}, at : MoverSteps, app : Apps,
     from : Paths, to : Folders, left : SUBSET (Apps \X Paths), goes : BOOLEAN]

PermitRecord ==
    [at : {"none", "asked", "meta", "store", "forget", "stamp", "done"}, app : Apps, folder : Folders, new : BOOLEAN]

ProjectsTypes ==
    /\ tree \in [DOMAIN tree -> Settings] /\ DOMAIN tree \subseteq Paths \ {Root}
    /\ place \in [Apps -> Paths]
    /\ journal \in [from : Folders, to : Folders]
    /\ journal # NoMove => journal.from \in ProjectPaths /\ journal.to \in ProjectPaths
    /\ mover \in MoverRecord
    /\ mover.op \in {"create", "project"} => mover.to \in ProjectPaths
    /\ mover.op = "project" => mover.from \in ProjectPaths
    /\ permit \in [Publishers -> PermitRecord]
    /\ late \in SUBSET Apps

ProjectsInv == ProjectsTypes /\ ("project" \notin beside => Fits)

-----------------------------------------------------------------------------

\* The paths of folders, and what is said of an app that has none, are of one set.
LEMMA PathFacts ==
    /\ Root \in Paths /\ Len(Root) = 0 /\ Absent \in Paths /\ Len(Absent) = 1
    /\ ProjectPaths \subseteq Paths /\ Folders \subseteq Paths /\ Absent \notin Folders
    /\ Root \notin ProjectPaths
<1> DEFINE S == PathNames \union {"absent"}
<1>1. <<>> \in Seq(S) /\ Len(<<>>) = 0
  OBVIOUS
<1>2. "absent" \in S
  OBVIOUS
<1>3. \A p \in ProjectPaths : p \in Seq(S)
  <2> SUFFICES ASSUME NEW p \in ProjectPaths PROVE p \in Seq(S)
    OBVIOUS
  <2>1. p \in Seq(PathNames) /\ PathNames \subseteq S
    BY ProjectsAssumption
  <2> HIDE DEF S
  <2> QED
    BY <2>1, SeqMonotonic
<1> HIDE DEF S
<1>4. <<"absent">> \in Seq(S) /\ Len(<<"absent">>) = 1
  BY <1>2
<1>5. Paths = Seq(S)
  BY DEF Paths, S
<1>6. Absent # Root
  BY <1>1, <1>4 DEF Absent, Root
<1> QED
  BY <1>1, <1>3, <1>4, <1>5, <1>6, ProjectsAssumption DEF Root, Absent, Folders

\* A path is of names.
LEMMA PathElements ==
    ASSUME NEW p \in Paths
    PROVE  Len(p) \in Nat /\ (p # Root => Len(p) > 0) /\ \A i \in 1..Len(p) : p[i] \in PathNames \union {"absent"}
BY ElementOfSeq, EmptySeq, LenProperties DEF Paths, Root

\* An app's path is its folder's and one name more.
LEMMA AppPathFacts ==
    ASSUME NEW f \in Paths, NEW a \in Apps
    PROVE  LET p == AppPath(f, a)
           IN  /\ p \in Paths /\ p # Root /\ Len(p) = Len(f) + 1 /\ p[Len(f) + 1] = a
               /\ \A i \in 1..Len(f) : p[i] = f[i]
               /\ Covers(f, p)
<1> DEFINE S == PathNames \union {"absent"}
<1>1. a \in S
  BY DEF PathNames
<1> HIDE DEF S
<1>2. f \in Seq(S) /\ Paths = Seq(S)
  BY DEF Paths, S
<1>3. /\ Append(f, a) \in Seq(S) /\ Len(Append(f, a)) = Len(f) + 1
      /\ \A i \in 1..Len(f) : Append(f, a)[i] = f[i]
      /\ Append(f, a)[Len(f) + 1] = a
  BY <1>1, <1>2, AppendProperties
<1>4. Len(f) \in Nat
  BY PathElements
<1> QED
  BY <1>2, <1>3, <1>4, PathFacts DEF AppPath, Covers

\* A path that covers no longer one is that one.
LEMMA SamePath ==
    ASSUME NEW p \in Paths, NEW q \in Paths, Covers(p, q), Len(p) >= Len(q)
    PROVE  p = q
<1>1. Len(p) \in Nat /\ Len(q) \in Nat
  BY PathElements
<1>2. Len(p) = Len(q) /\ \A i \in 1..Len(p) : p[i] = q[i]
  BY <1>1 DEF Covers
<1> QED
  BY <1>2, SeqEqual DEF Paths

\* Covering is an order, and what covers one path is in one line.
LEMMA CoversFacts ==
    ASSUME NEW p \in Paths, NEW q \in Paths, NEW r \in Paths
    PROVE  /\ Covers(p, p) /\ Covers(Root, p)
           /\ Covers(p, q) /\ Covers(q, r) => Covers(p, r)
           /\ Covers(p, r) /\ Covers(q, r) => Covers(p, q) \/ Covers(q, p)
           /\ Covers(p, Root) => p = Root
<1>1. Len(p) \in Nat /\ Len(q) \in Nat /\ Len(r) \in Nat
  BY PathElements
<1>2. Covers(p, p) /\ Covers(Root, p)
  BY <1>1, PathFacts DEF Covers
<1>3. Covers(p, q) /\ Covers(q, r) => Covers(p, r)
  BY <1>1 DEF Covers
<1>4. Covers(p, r) /\ Covers(q, r) => Covers(p, q) \/ Covers(q, p)
  BY <1>1 DEF Covers
<1>5. Covers(p, Root) => p = Root
  BY <1>1, PathElements, PathFacts DEF Covers
<1> QED
  BY <1>2, <1>3, <1>4, <1>5

\* What covers an app's path is that path or covers its folder.
LEMMA AppUnder ==
    ASSUME NEW f \in Paths, NEW g \in Paths, NEW a \in Apps
    PROVE  /\ Covers(f, g) => Covers(f, AppPath(g, a))
           /\ Covers(f, AppPath(g, a)) => f = AppPath(g, a) \/ Covers(f, g)
<1>1. Len(f) \in Nat /\ Len(g) \in Nat
  BY PathElements
<1>2. Covers(f, g) => Covers(f, AppPath(g, a))
  BY AppPathFacts, CoversFacts
<1>3. ASSUME Covers(f, AppPath(g, a)), f # AppPath(g, a) PROVE Covers(f, g)
  <2>1. Len(f) < Len(g) + 1
    BY <1>1, <1>3, AppPathFacts, SamePath
  <2> QED
    BY <1>1, <1>3, <2>1, AppPathFacts DEF Covers
<1> QED
  BY <1>2, <1>3

\* The first names of a path.
LEMMA Prefix ==
    ASSUME NEW p \in Paths, NEW n \in 0..Len(p)
    PROVE  /\ SubSeq(p, 1, n) \in Paths /\ Len(SubSeq(p, 1, n)) = n
           /\ \A i \in 1..n : SubSeq(p, 1, n)[i] = p[i]
           /\ Covers(SubSeq(p, 1, n), p)
           /\ n = Len(p) => SubSeq(p, 1, n) = p
<1> DEFINE S == PathNames \union {"absent"}
<1>1. Len(p) \in Nat /\ n \in Nat /\ \A i \in 1..n : p[i] \in S
  BY PathElements
<1> HIDE DEF S
<1>2. /\ SubSeq(p, 1, n) \in Seq(S)
      /\ Len(SubSeq(p, 1, n)) = IF 1 <= n THEN n - 1 + 1 ELSE 0
      /\ \A i \in 1..(n - 1 + 1) : SubSeq(p, 1, n)[i] = p[1 + i - 1]
  BY <1>1, SubSeqProperties
<1>3. Len(SubSeq(p, 1, n)) = n /\ \A i \in 1..n : SubSeq(p, 1, n)[i] = p[i]
  BY <1>1, <1>2
<1>4. SubSeq(p, 1, n) \in Paths
  BY <1>2 DEF Paths, S
<1>5. Covers(SubSeq(p, 1, n), p)
  BY <1>1, <1>3 DEF Covers
<1>6. n = Len(p) => Len(SubSeq(p, 1, n)) >= Len(p)
  BY <1>1, <1>3
<1>7. n = Len(p) => SubSeq(p, 1, n) = p
  BY <1>4, <1>5, <1>6, SamePath
<1> QED
  BY <1>3, <1>4, <1>5, <1>7

\* What covers a path is one of its prefixes.
LEMMA CoveringPrefix ==
    ASSUME NEW p \in Paths, NEW q \in Paths, Covers(p, q)
    PROVE  p = SubSeq(q, 1, Len(p)) /\ Len(p) \in 0..Len(q)
<1>1. Len(p) \in Nat /\ Len(q) \in Nat /\ Len(p) \in 0..Len(q)
  BY PathElements DEF Covers
<1>2. /\ SubSeq(q, 1, Len(p)) \in Paths /\ Len(SubSeq(q, 1, Len(p))) = Len(p)
      /\ \A i \in 1..Len(p) : SubSeq(q, 1, Len(p))[i] = q[i]
  BY <1>1, Prefix
<1>3. Covers(p, SubSeq(q, 1, Len(p)))
  BY <1>1, <1>2 DEF Covers
<1>4. Len(p) >= Len(SubSeq(q, 1, Len(p)))
  BY <1>1, <1>2
<1> QED
  BY <1>1, <1>2, <1>3, <1>4, SamePath

\* A path that was below `from` is as far below `to`.
LEMMA MovedPath ==
    ASSUME NEW from \in Paths, NEW to \in Paths, NEW p \in Paths, from # Root, Covers(from, p)
    PROVE  LET q == Renamed(p, from, to)
           IN  /\ q \in Paths /\ Len(q) = Len(to) + Len(p) - Len(from)
               /\ \A i \in 1..Len(to) : q[i] = to[i]
               /\ \A i \in 1..(Len(p) - Len(from)) : q[Len(to) + i] = p[Len(from) + i]
               /\ Covers(to, q)
<1> DEFINE S == PathNames \union {"absent"}
           rest == SubSeq(p, Len(from) + 1, Len(p))
<1>1. /\ Len(from) \in Nat /\ Len(to) \in Nat /\ Len(p) \in Nat /\ Len(from) <= Len(p)
      /\ \A i \in (Len(from) + 1)..Len(p) : p[i] \in S
  BY PathElements DEF Covers
<1> HIDE DEF S
<1>2. /\ rest \in Seq(S)
      /\ Len(rest) = IF Len(from) + 1 <= Len(p) THEN Len(p) - (Len(from) + 1) + 1 ELSE 0
      /\ \A i \in 1..(Len(p) - (Len(from) + 1) + 1) : rest[i] = p[Len(from) + 1 + i - 1]
  BY <1>1, SubSeqProperties
<1> HIDE DEF rest
<1>3. /\ Len(rest) = Len(p) - Len(from)
      /\ \A i \in 1..(Len(p) - Len(from)) : rest[i] = p[Len(from) + i]
  BY <1>1, <1>2
<1>4. Renamed(p, from, to) = to \o rest
  BY DEF Renamed, rest
<1>5. to \in Seq(S) /\ Paths = Seq(S)
  BY DEF Paths, S
<1>6. /\ to \o rest \in Seq(S) /\ Len(to \o rest) = Len(to) + Len(rest)
      /\ \A i \in 1..(Len(to) + Len(rest)) : (to \o rest)[i] = IF i <= Len(to) THEN to[i] ELSE rest[i - Len(to)]
  BY <1>2, <1>5, ConcatProperties
<1>7. \A i \in 1..Len(to) : (to \o rest)[i] = to[i]
  BY <1>1, <1>3, <1>6
<1>8. ASSUME NEW i \in 1..(Len(p) - Len(from)) PROVE (to \o rest)[Len(to) + i] = p[Len(from) + i]
  <2>1. Len(to) + i \in 1..(Len(to) + Len(rest)) /\ ~(Len(to) + i <= Len(to)) /\ Len(to) + i - Len(to) = i
    BY <1>1, <1>3
  <2> QED
    BY <1>3, <1>6, <2>1
<1>9. Covers(to, to \o rest)
  BY <1>1, <1>3, <1>6, <1>7 DEF Covers
<1> QED
  BY <1>1, <1>3, <1>4, <1>5, <1>6, <1>7, <1>8, <1>9

LEMMA StillPath ==
    ASSUME NEW from, NEW to, NEW p, ~Covers(from, p)
    PROVE  Renamed(p, from, to) = p
BY DEF Renamed

LEMMA RenamedIsPath ==
    ASSUME NEW from \in Paths, NEW to \in Paths, NEW p \in Paths
    PROVE  Renamed(p, from, to) \in Paths
BY MovedPath DEF Renamed

\* Two paths below `from` do not become one.
LEMMA RenamedApart ==
    ASSUME NEW from \in Paths, NEW to \in Paths, NEW p \in Paths, NEW q \in Paths,
           from # Root, Covers(from, p), Covers(from, q), Renamed(p, from, to) = Renamed(q, from, to)
    PROVE  p = q
<1> DEFINE r == Renamed(p, from, to)
<1>1. Len(from) \in Nat /\ Len(to) \in Nat /\ Len(p) \in Nat /\ Len(q) \in Nat
  BY PathElements
<1>2. /\ Len(r) = Len(to) + Len(p) - Len(from)
      /\ \A i \in 1..(Len(p) - Len(from)) : r[Len(to) + i] = p[Len(from) + i]
  BY MovedPath
<1>3. /\ Len(r) = Len(to) + Len(q) - Len(from)
      /\ \A i \in 1..(Len(q) - Len(from)) : r[Len(to) + i] = q[Len(from) + i]
  <2>1. r = Renamed(q, from, to)
    OBVIOUS
  <2> HIDE DEF r
  <2>2. /\ Len(Renamed(q, from, to)) = Len(to) + Len(q) - Len(from)
        /\ \A i \in 1..(Len(q) - Len(from)) : Renamed(q, from, to)[Len(to) + i] = q[Len(from) + i]
    BY MovedPath
  <2> QED
    BY <2>1, <2>2
<1> HIDE DEF r
<1>4. Len(p) = Len(q)
  BY <1>1, <1>2, <1>3
<1>5. ASSUME NEW i \in 1..Len(p) PROVE p[i] = q[i]
  <2>1. CASE i <= Len(from)
    BY <1>1, <2>1 DEF Covers
  <2>2. CASE i > Len(from)
    <3>1. i - Len(from) \in 1..(Len(p) - Len(from)) /\ Len(from) + (i - Len(from)) = i
      BY <1>1, <2>2
    <3> QED
      BY <1>2, <1>3, <1>4, <3>1
  <2> QED
    BY <1>1, <2>1, <2>2
<1> QED
  BY <1>1, <1>4, <1>5, SamePath DEF Covers

\* A path renamed is under the new one, and not renamed again.
LEMMA RenamedOnce ==
    ASSUME NEW from \in Paths, NEW to \in Paths, NEW p \in Paths, ~Covers(from, to), ~Covers(to, from)
    PROVE  /\ from # Root /\ to # Root
           /\ ~Covers(from, Renamed(p, from, to))
           /\ Renamed(Renamed(p, from, to), from, to) = Renamed(p, from, to)
<1>1. from # Root /\ to # Root
  BY CoversFacts, PathFacts
<1>2. CASE Covers(from, p)
  <2>1. Covers(to, Renamed(p, from, to)) /\ Renamed(p, from, to) \in Paths
    BY <1>1, <1>2, MovedPath
  <2>2. ~Covers(from, Renamed(p, from, to))
    BY <2>1, CoversFacts
  <2> QED
    BY <1>1, <2>2, StillPath
<1>3. CASE ~Covers(from, p)
  BY <1>1, <1>3, StillPath
<1> QED
  BY <1>2, <1>3

\* An app's path is renamed as its folder is.
LEMMA RenamedApp ==
    ASSUME NEW from \in Paths, NEW to \in Paths, NEW f \in Paths, NEW a \in Apps, from # Root, Covers(from, f)
    PROVE  Renamed(AppPath(f, a), from, to) = AppPath(Renamed(f, from, to), a)
<1> DEFINE p == AppPath(f, a)
           q == Renamed(p, from, to)
           g == Renamed(f, from, to)
           r == AppPath(g, a)
<1>1. /\ p \in Paths /\ Len(p) = Len(f) + 1 /\ p[Len(f) + 1] = a /\ Covers(from, p)
      /\ \A i \in 1..Len(f) : p[i] = f[i]
  BY AppPathFacts, AppUnder
<1>2. /\ q \in Paths /\ Len(q) = Len(to) + Len(p) - Len(from)
      /\ \A i \in 1..Len(to) : q[i] = to[i]
      /\ \A i \in 1..(Len(p) - Len(from)) : q[Len(to) + i] = p[Len(from) + i]
  <2> HIDE DEF p
  <2>1. \A e \in Paths : Covers(from, e) => 
           LET m == Renamed(e, from, to)
           IN  /\ m \in Paths /\ Len(m) = Len(to) + Len(e) - Len(from)
               /\ \A i \in 1..Len(to) : m[i] = to[i]
               /\ \A i \in 1..(Len(e) - Len(from)) : m[Len(to) + i] = e[Len(from) + i]
    BY MovedPath
  <2> QED
    BY <1>1, <2>1
<1>3. /\ g \in Paths /\ Len(g) = Len(to) + Len(f) - Len(from)
      /\ \A i \in 1..Len(to) : g[i] = to[i]
      /\ \A i \in 1..(Len(f) - Len(from)) : g[Len(to) + i] = f[Len(from) + i]
  BY MovedPath
<1>4. /\ r \in Paths /\ Len(r) = Len(g) + 1 /\ r[Len(g) + 1] = a
      /\ \A i \in 1..Len(g) : r[i] = g[i]
  <2> HIDE DEF g
  <2> QED
    BY <1>3, AppPathFacts
<1> HIDE DEF p, q, g, r
<1>5. Len(from) \in Nat /\ Len(to) \in Nat /\ Len(f) \in Nat /\ Len(from) <= Len(f)
  BY PathElements DEF Covers
<1>6. Len(q) = Len(r) /\ Len(q) \in Nat
  BY <1>1, <1>2, <1>3, <1>4, <1>5
<1>7. ASSUME NEW i \in 1..Len(q) PROVE q[i] = r[i]
  <2>1. CASE i <= Len(to)
    BY <1>1, <1>2, <1>3, <1>4, <1>5, <2>1
  <2>2. CASE i > Len(to) /\ i < Len(q)
    <3> DEFINE k == i - Len(to)
    <3>1. /\ k \in 1..(Len(f) - Len(from)) /\ i = Len(to) + k /\ i \in 1..Len(g)
          /\ k \in 1..(Len(p) - Len(from)) /\ Len(from) + k \in 1..Len(f)
      BY <1>1, <1>2, <1>3, <1>5, <2>2
    <3> HIDE DEF k
    <3>2. q[i] = p[Len(from) + k] /\ r[i] = g[i] /\ g[i] = f[Len(from) + k]
      BY <1>2, <1>3, <1>4, <3>1
    <3> QED
      BY <1>1, <3>1, <3>2
  <2>3. CASE i = Len(q) /\ i > Len(to)
    <3> DEFINE k == Len(p) - Len(from)
    <3>1. k \in 1..(Len(p) - Len(from)) /\ i = Len(to) + k /\ Len(from) + k = Len(f) + 1 /\ i = Len(g) + 1
      BY <1>1, <1>2, <1>3, <1>5, <2>3
    <3> HIDE DEF k
    <3> QED
      BY <1>1, <1>2, <1>4, <3>1
  <2> QED
    BY <1>5, <1>6, <2>1, <2>2, <2>3
<1>8. q = r
  BY <1>2, <1>4, <1>6, <1>7, SamePath DEF Covers
<1> QED
  BY <1>8 DEF p, q, g, r

-----------------------------------------------------------------------------

\* A tree has every project that one of its own is in.
LEMMA RootedCovers ==
    ASSUME NEW D \in SUBSET Paths, Rooted(D), NEW p \in D, NEW q \in Paths, q # Root, Covers(q, p)
    PROVE  q \in D
<1>1. q = SubSeq(p, 1, Len(q)) /\ Len(q) \in 0..Len(p) /\ Len(q) \in Nat /\ Len(q) > 0
  BY CoveringPrefix, PathElements
<1>2. Len(q) \in 1..Len(p)
  BY <1>1
<1> QED
  BY <1>1, <1>2 DEF Rooted

\* The other way round.
LEMMA CoversRooted ==
    ASSUME NEW D \in SUBSET Paths,
           \A p \in D, q \in Paths : q # Root /\ Covers(q, p) => q \in D
    PROVE  Rooted(D)
<1> SUFFICES ASSUME NEW p \in D, NEW n \in 1..Len(p) PROVE SubSeq(p, 1, n) \in D
  BY DEF Rooted
<1>1. n \in 0..Len(p) /\ n > 0
  BY PathElements
<1>2. SubSeq(p, 1, n) \in Paths /\ Len(SubSeq(p, 1, n)) = n /\ Covers(SubSeq(p, 1, n), p)
  BY <1>1, Prefix
<1>3. SubSeq(p, 1, n) # Root
  BY <1>1, <1>2, PathFacts
<1> QED
  BY <1>2, <1>3

\* What covers a path covers its parent, but for the path itself.
LEMMA CoversParent ==
    ASSUME NEW p \in Paths, NEW q \in Paths, p # Root, Covers(q, p), q # p
    PROVE  /\ Parent(p) \in Paths /\ Covers(Parent(p), p) /\ Covers(q, Parent(p))
           /\ Len(Parent(p)) = Len(p) - 1
<1>1. Len(p) \in Nat /\ Len(p) > 0 /\ Len(q) \in Nat
  BY PathElements
<1>2. Len(p) - 1 \in 0..Len(p)
  BY <1>1
<1>3. /\ Parent(p) \in Paths /\ Covers(Parent(p), p) /\ Len(Parent(p)) = Len(p) - 1
      /\ \A i \in 1..(Len(p) - 1) : Parent(p)[i] = p[i]
  BY <1>2, Prefix DEF Parent
<1>4. Len(q) < Len(p)
  BY <1>1, SamePath
<1>5. Covers(q, Parent(p))
  BY <1>1, <1>3, <1>4 DEF Covers
<1> QED
  BY <1>3, <1>5

\* It is enough that each has its parent: of the prefixes that were not there, the
\* longest would have one a name longer that is.
LEMMA ParentsRooted ==
    ASSUME NEW D \in SUBSET Paths, Root \notin D, \A p \in D : Len(p) > 1 => Parent(p) \in D
    PROVE  Rooted(D)
<1> SUFFICES ASSUME NEW p \in D, NEW q \in Paths, q # Root, Covers(q, p), q \notin D PROVE FALSE
  BY CoversRooted
<1> DEFINE R == {ss \in Nat \X Nat : ss[1] < ss[2]}
           L == {n \in Nat : \E r \in D : Covers(q, r) /\ Len(r) = n}
<1>1. IsWellFoundedOn(R, Nat)
  BY NatLessThanWellFounded DEF OpToRel
<1>2. L \in SUBSET Nat /\ L # {}
  BY PathElements
<1> HIDE DEF L
<1>3. PICK n \in L : \A m \in L : ~(<<m, n>> \in R)
  BY <1>1, <1>2, WFMin
<1>4. PICK r \in D : Covers(q, r) /\ Len(r) = n
  BY <1>3 DEF L
<1>5. r # q /\ r # Root /\ Len(r) \in Nat /\ Len(q) \in Nat /\ Len(q) > 0
  BY PathElements, <1>4
<1>6. Covers(q, Parent(r)) /\ Len(Parent(r)) = Len(r) - 1
  BY <1>4, <1>5, CoversParent
<1>7. Len(r) > 1 /\ Len(r) - 1 \in Nat
  BY <1>5, <1>6 DEF Covers
<1>8. Parent(r) \in D
  BY <1>7
<1>9. Len(r) - 1 \in L
  BY <1>6, <1>7, <1>8 DEF L
<1>10. <<Len(r) - 1, n>> \in Nat \X Nat /\ <<Len(r) - 1, n>>[1] < <<Len(r) - 1, n>>[2]
  BY <1>4, <1>5, <1>7
<1> QED
  BY <1>3, <1>9, <1>10

\* A tree stays one when a project is made where its parent is, and when one with
\* nothing below it goes.
LEMMA RootedAdds ==
    ASSUME NEW D \in SUBSET Paths, Rooted(D), NEW p \in Paths, p # Root, Parent(p) \in D \union {Root}
    PROVE  Rooted(D \union {p})
<1> SUFFICES ASSUME NEW q \in Paths, q # Root, q # p, Covers(q, p) PROVE q \in D
  <2>1. ASSUME NEW r \in D \union {p}, NEW q \in Paths, q # Root, Covers(q, r) PROVE q \in D \union {p}
    BY <2>1, RootedCovers
  <2> QED
    BY <2>1, CoversRooted
<1>1. Covers(q, Parent(p))
  BY CoversParent
<1>2. Parent(p) # Root
  BY <1>1, CoversFacts
<1> QED
  BY <1>1, <1>2, RootedCovers

LEMMA RootedLoses ==
    ASSUME NEW D \in SUBSET Paths, Rooted(D), NEW p, \A q \in D \ {p} : ~Covers(p, q)
    PROVE  Rooted(D \ {p})
<1>1. ASSUME NEW r \in D \ {p}, NEW q \in Paths, q # Root, Covers(q, r) PROVE q \in D \ {p}
  BY <1>1, RootedCovers
<1> QED
  BY <1>1, CoversRooted

\* The tree once a project of it has moved.
LEMMA RootedMoves ==
    ASSUME NEW D \in SUBSET Paths, Rooted(D), NEW from \in D, NEW to \in Paths,
           ~Covers(from, to), ~Covers(to, from), Len(to) > 1 => Parent(to) \in D
    PROVE  Rooted(AllRenamed(D, from, to))
<1> DEFINE E == AllRenamed(D, from, to)
<1>1. from # Root /\ to # Root
  BY RenamedOnce
<1>2. E \in SUBSET Paths
  BY RenamedIsPath DEF AllRenamed
<1>3. ASSUME NEW q \in D, ~Covers(from, q) PROVE q \in E
  BY <1>3, StillPath DEF AllRenamed
\* What covers the new path but is not it was there and stays.
<1>4. ASSUME NEW q \in Paths, q # Root, Covers(q, to), q # to PROVE q \in E
  <2>1. Parent(to) \in Paths /\ Covers(q, Parent(to)) /\ Len(Parent(to)) = Len(to) - 1 /\ Covers(Parent(to), to)
    BY <1>1, <1>4, CoversParent
  <2>2. Len(q) \in Nat /\ Len(q) > 0 /\ Len(to) \in Nat
    BY <1>4, PathElements
  <2>3. Len(to) > 1
    BY <2>1, <2>2 DEF Covers
  <2>4. q \in D
    BY <1>4, <2>1, <2>3, RootedCovers
  <2>5. ~Covers(from, q)
    BY <1>4, CoversFacts
  <2> QED
    BY <1>3, <2>4, <2>5
<1>5. ASSUME NEW p \in D, NEW q \in Paths, q # Root, Covers(q, Renamed(p, from, to)) PROVE q \in E
  <2>1. CASE ~Covers(from, p)
    <3>1. Covers(q, p) /\ q \in D
      BY <1>5, <2>1, StillPath, RootedCovers
    <3>2. ~Covers(from, q)
      BY <2>1, <3>1, CoversFacts
    <3> QED
      BY <1>3, <3>1, <3>2
  <2>2. CASE Covers(from, p)
    <3> DEFINE r == Renamed(p, from, to)
               n == Len(from) + Len(q) - Len(to)
               o == SubSeq(p, 1, n)
    <3>1. /\ r \in Paths /\ Len(r) = Len(to) + Len(p) - Len(from) /\ Covers(to, r)
          /\ \A i \in 1..(Len(p) - Len(from)) : r[Len(to) + i] = p[Len(from) + i]
      BY <1>1, <2>2, MovedPath
    <3>2. Covers(q, r)
      BY <1>5
    <3>3. CASE Covers(q, to)
      <4>1. from = Renamed(from, from, to) \/ to = Renamed(from, from, to)
        <5>1. Renamed(from, from, to) \in Paths /\ Len(Renamed(from, from, to)) = Len(to) /\ Covers(to, Renamed(from, from, to))
          <6>1. Len(from) \in Nat /\ Len(to) \in Nat /\ Covers(from, from)
            BY PathElements, CoversFacts
          <6>2. /\ Renamed(from, from, to) \in Paths /\ Covers(to, Renamed(from, from, to))
                /\ Len(Renamed(from, from, to)) = Len(to) + Len(from) - Len(from)
            BY <1>1, <6>1, MovedPath
          <6> QED
            BY <6>1, <6>2
        <5>2. Len(to) \in Nat
          BY PathElements
        <5> QED
          BY <5>1, <5>2, SamePath
      <4>2. ~Covers(from, Renamed(from, from, to)) /\ Covers(from, from)
        BY RenamedOnce, CoversFacts
      <4>3. to \in E
        BY <4>1, <4>2 DEF AllRenamed
      <4> QED
        BY <1>4, <1>5, <3>3, <4>3
    <3>4. CASE ~Covers(q, to)
      <4> HIDE DEF r
      <4>1. Covers(to, q)
        BY <3>1, <3>2, <3>4, CoversFacts
      <4>2. Len(from) \in Nat /\ Len(to) \in Nat /\ Len(p) \in Nat /\ Len(q) \in Nat /\ Len(r) \in Nat
        BY <3>1, PathElements
      <4>3. Len(to) <= Len(q) /\ Len(q) <= Len(r) /\ Len(from) <= Len(p)
        BY <2>2, <3>2, <4>1 DEF Covers
      <4>4. n \in 0..Len(p) /\ n >= Len(from)
        BY <3>1, <4>2, <4>3
      <4> HIDE DEF n
      <4>5. o \in Paths /\ Len(o) = n /\ Covers(o, p) /\ \A i \in 1..n : o[i] = p[i]
        BY <4>4, Prefix
      <4> HIDE DEF o
      <4>6. Covers(from, o)
        BY <2>2, <4>2, <4>3, <4>4, <4>5 DEF Covers
      <4>7. o # Root
        BY <1>1, <4>6, CoversFacts
      <4>8. o \in D
        BY <4>5, <4>7, RootedCovers
      <4> DEFINE s == Renamed(o, from, to)
      <4>9. /\ s \in Paths /\ Len(s) = Len(to) + Len(o) - Len(from) /\ Covers(to, s)
            /\ \A i \in 1..(Len(o) - Len(from)) : s[Len(to) + i] = o[Len(from) + i]
        BY <1>1, <4>5, <4>6, MovedPath
      <4>10. s \in E
        BY <4>8 DEF AllRenamed
      <4> HIDE DEF s
      <4>11. Len(s) = Len(q)
        BY <4>2, <4>5, <4>9 DEF n
      <4>12. ASSUME NEW i \in 1..Len(q) PROVE q[i] = s[i]
        <5>1. CASE i <= Len(to)
          BY <4>1, <4>2, <4>9, <5>1 DEF Covers
        <5>2. CASE i > Len(to)
          <6> DEFINE k == i - Len(to)
          <6>1. /\ k \in 1..(Len(o) - Len(from)) /\ k \in 1..(Len(p) - Len(from)) /\ i = Len(to) + k
                /\ Len(from) + k \in 1..n
            BY <4>2, <4>4, <4>5, <4>9, <4>11, <5>2
          <6> HIDE DEF k
          <6>2. q[i] = r[i]
            BY <3>2 DEF Covers
          <6>3. r[i] = p[Len(from) + k] /\ s[i] = o[Len(from) + k] /\ o[Len(from) + k] = p[Len(from) + k]
            BY <3>1, <4>5, <4>9, <6>1
          <6> QED
            BY <6>2, <6>3
        <5> QED
          BY <4>2, <5>1, <5>2
      <4>13. q = s
        <5>1. Covers(q, s) /\ Len(q) >= Len(s)
          BY <4>2, <4>11, <4>12 DEF Covers
        <5> QED
          BY <4>9, <5>1, SamePath
      <4> QED
        BY <4>10, <4>13
    <3> QED
      BY <3>3, <3>4
  <2> QED
    BY <2>1, <2>2
<1>6. ASSUME NEW e \in E, NEW q \in Paths, q # Root, Covers(q, e) PROVE q \in E
  <2>1. PICK p \in D : e = Renamed(p, from, to)
    BY <1>6 DEF AllRenamed
  <2> QED
    BY <1>5, <1>6, <2>1
<1> HIDE DEF E
<1>7. Rooted(E)
  BY <1>2, <1>6, CoversRooted
<1> QED
  BY <1>7 DEF E

-----------------------------------------------------------------------------

\* A tree renamed has nothing at the old path, and is not renamed again.
LEMMA AllRenamedFacts ==
    ASSUME NEW D \in SUBSET Paths, NEW from \in Paths, NEW to \in Paths, ~Covers(from, to), ~Covers(to, from)
    PROVE  /\ AllRenamed(D, from, to) \in SUBSET Paths
           /\ Root \notin D => Root \notin AllRenamed(D, from, to)
           /\ from \notin AllRenamed(D, from, to)
           /\ AllRenamed(AllRenamed(D, from, to), from, to) = AllRenamed(D, from, to)
           /\ Rooted(D) /\ from \notin D => AllRenamed(D, from, to) = D
<1>1. AllRenamed(D, from, to) \in SUBSET Paths
  BY RenamedIsPath DEF AllRenamed
<1>2. ASSUME NEW p \in D, Root \notin D PROVE Renamed(p, from, to) # Root
  <2>1. CASE Covers(from, p)
    BY <2>1, RenamedOnce, MovedPath, CoversFacts
  <2>2. CASE ~Covers(from, p)
    BY <1>2, <2>2, StillPath
  <2> QED
    BY <2>1, <2>2
<1>3. \A p \in D : Renamed(p, from, to) # from
  BY RenamedOnce, CoversFacts
<1>4. \A p \in D : Renamed(Renamed(p, from, to), from, to) = Renamed(p, from, to)
  BY RenamedOnce
<1>5. ASSUME Rooted(D), from \notin D, NEW p \in D PROVE Renamed(p, from, to) = p
  BY <1>5, RenamedOnce, RootedCovers, StillPath
<1> QED
  BY <1>1, <1>2, <1>3, <1>4, <1>5 DEF AllRenamed

LEMMA NoMoveRenames ==
    /\ \A p : Renamed(p, NoMove.from, NoMove.to) = p
    /\ \A D : AllRenamed(D, NoMove.from, NoMove.to) = D
    /\ NoMove \in [from : Folders, to : Folders]
BY DEF NoMove, Renamed, AllRenamed, Folders

LEMMA NoMoverIs ==
    /\ NoMover \in MoverRecord /\ NoMover.op = "none" /\ NoMover.at = "idle"
    /\ NoPermit \in PermitRecord /\ NoPermit.at = "none"
    /\ AnyApp \in Apps
<1> DEFINE no == FALSE
<1>1. AnyApp \in Apps
  BY ProjectsAssumption DEF AnyApp
<1>2. no \in BOOLEAN
  OBVIOUS
<1>3. NoMover = [op |-> "none", at |-> "idle", app |-> AnyApp, from |-> Root, to |-> Root, left |-> {}, goes |-> no]
  BY Zenon DEF NoMover
<1>4. NoPermit = [at |-> "none", app |-> AnyApp, folder |-> Root, new |-> no]
  BY Zenon DEF NoPermit
<1>5. Root \in Paths /\ Root \in Folders
  BY PathFacts DEF Folders
<1> HIDE DEF no
<1> QED
  BY <1>1, <1>2, <1>3, <1>4, <1>5 DEF MoverRecord, MoverSteps, PermitRecord

\* Where nothing of a move is left, apps fit the tree as it is.
LEMMA FitsUnmoved ==
    FitsAfter(NoMove) <=>
        \A a \in SettledApps : AppPath(place[a], a) \notin DOMAIN tree /\ place[a] \in DOMAIN tree \union {Root}
BY NoMoveRenames DEF FitsAfter

\* Of a move whose tree has moved nothing is in the way any more.
LEMMA FitsMoved ==
    ASSUME ProjectsTypes, Rooted(DOMAIN tree), IsMove(journal), TreeAfter(journal), FitsAfter(journal)
    PROVE  FitsAfter(NoMove)
<1> SUFFICES ASSUME NEW a \in SettledApps
             PROVE  AppPath(place[a], a) \notin DOMAIN tree /\ place[a] \in DOMAIN tree \union {Root}
  BY FitsUnmoved
<1>1. journal.from \in Paths /\ journal.to \in Paths /\ DOMAIN tree \in SUBSET Paths
  BY PathFacts DEF ProjectsTypes
<1>2. AllRenamed(DOMAIN tree, journal.from, journal.to) = DOMAIN tree
  BY <1>1, AllRenamedFacts DEF IsMove, TreeAfter
<1>3. Renamed(place[a], journal.from, journal.to) = place[a]
  BY StillPath DEF TreeAfter
<1>4. AppPath(place[a], a) \in DOMAIN tree =>
        Renamed(AppPath(place[a], a), journal.from, journal.to) \in AllRenamed(DOMAIN tree, journal.from, journal.to)
  BY DEF AllRenamed
<1> QED
  BY <1>2, <1>3, <1>4 DEF FitsAfter

\* What is asked of apps and tree stays, whatever else a step does, when the apps
\* that are spoken of are no more, or no change was there and they fit.
LEMMA FitsStay ==
    ASSUME ProjectsInv, DOMAIN tree' = DOMAIN tree, journal' = journal, mover' = mover,
           "project" \in beside => "project" \in beside', late \subseteq late',
           \A a \in SettledApps :
               mover = NoMover \/ a \in late' \/ (a \in SettledApps' /\ place'[a] = place[a]),
           \A a \in SettledApps' :
               \/ a \in SettledApps /\ place'[a] = place[a]
               \/ /\ mover = NoMover /\ journal = NoMove
                  /\ AppPath(place'[a], a) \notin DOMAIN tree /\ place'[a] \in DOMAIN tree \union {Root}
    PROVE  "project" \notin beside' => Fits'
<1> SUFFICES ASSUME "project" \notin beside' PROVE Fits'
  OBVIOUS
<1>1. Fits
  BY DEF ProjectsInv
<1>2. CASE \A a \in SettledApps' : a \in SettledApps /\ place'[a] = place[a]
  <2>1. FitsAfter(journal)' /\ (FitsAfter(mover) => FitsAfter(mover)')
    BY <1>1, <1>2 DEF Fits, MoveFits, FitsAfter
  <2>2. (TreeAfter(journal) => TreeAfter(journal)') /\ (TreeBefore(journal) => TreeBefore(journal)')
    BY <1>2 DEF TreeAfter, TreeBefore
  <2>3. MoveFits'
    BY <1>1, <2>1, <2>2 DEF Fits, MoveFits, IsMove
  <2>4. CreateFits' /\ AppFits' /\ RemoveFits'
    BY <1>1, <1>2 DEF Fits, ChangeFits, CreateFits, AppFits, RemoveFits, AppPaths
  <2>5. RelocateFits'
    BY <1>1, <2>1 DEF Fits, ChangeFits, RelocateFits, TreeBefore, IsMove
  <2>6. ResumeFits'
    <3>1. \A left : AllListed(left) => AllListed(left)'
      BY <1>2 DEF AllListed
    <3>2. mover # NoMover => \A left : AsListed(left) => AsListed(left)'
      BY DEF AsListed
    <3> QED
      BY <1>1, <2>2, <3>1, <3>2, NoMoverIs DEF Fits, ChangeFits, ResumeFits, AllListed, AsListed
  <2> QED
    BY <1>1, <2>3, <2>4, <2>5, <2>6 DEF Fits, ChangeFits, Rooted
<1>3. CASE mover = NoMover /\ journal = NoMove
  <2>1. \A a \in SettledApps : AppPath(place[a], a) \notin DOMAIN tree /\ place[a] \in DOMAIN tree \union {Root}
    BY <1>1, <1>3, FitsUnmoved DEF Fits, MoveFits
  <2>2. \A a \in SettledApps' : AppPath(place'[a], a) \notin DOMAIN tree /\ place'[a] \in DOMAIN tree \union {Root}
    BY <2>1
  <2>3. MoveFits'
    BY <1>3, <2>2, NoMoveRenames DEF MoveFits, FitsAfter
  <2>4. ChangeFits'
    BY <1>3, NoMoverIs DEF ChangeFits, CreateFits, AppFits, RelocateFits, RemoveFits, ResumeFits
  <2> QED
    BY <1>1, <2>3, <2>4 DEF Fits, Rooted
<1> QED
  BY <1>2, <1>3

\* A step of a change that moves nothing has its own step to answer for.
LEMMA FitsGoOn ==
    ASSUME ProjectsInv, UNCHANGED <<tree, place, journal, late, beside>>, "project" \notin beside => ChangeFits'
    PROVE  "project" \notin beside' => Fits'
<1> SUFFICES ASSUME "project" \notin beside PROVE Rooted(DOMAIN tree)' /\ MoveFits'
  BY DEF Fits
<1>1. Rooted(DOMAIN tree) /\ MoveFits
  BY DEF ProjectsInv, Fits
<1> QED
  BY <1>1 DEF Rooted, MoveFits, FitsAfter, IsMove, TreeBefore, TreeAfter, SettledApps, Existing

\* Whoever has yet to check goes by nothing.
LEMMA IdleFits ==
    ASSUME mover'.at \in {"idle", "resume"}, mover'.op = "project" => ~Covers(mover'.from, mover'.to)
    PROVE  ChangeFits'
BY DEF ChangeFits, CreateFits, AppFits, RelocateFits, RemoveFits, ResumeFits

-----------------------------------------------------------------------------
(* Rows, locks, gates and first publishes.                                  *)

LEMMA SetsInv ==
    ASSUME ProjectsInv, Sets, tree' \in [DOMAIN tree -> Settings],
           "project" \in beside => "project" \in beside'
    PROVE  ProjectsInv'
<1>1. UNCHANGED <<place, journal, mover, permit, late>> /\ DOMAIN tree' = DOMAIN tree
  BY DEF Sets
<1>2. ProjectsTypes'
  BY <1>1 DEF ProjectsInv, ProjectsTypes
<1>3. SettledApps' = SettledApps /\ place' = place
  BY <1>1 DEF SettledApps, Existing
<1>4. "project" \notin beside' => Fits'
  BY <1>1, <1>3, FitsStay
<1> QED
  BY <1>2, <1>4 DEF ProjectsInv

LEMMA SettingStep ==
    ASSUME ProjectsInv,
           \/ \E r \in RowPaths : SetsRow(r)
           \/ \E p \in ProjectPaths : SetsLock(p) \/ \E g \in {"unset", "public", "restricted"} : SetsGate(p, g)
    PROVE  ProjectsInv'
<1>1. tree \in [DOMAIN tree -> Settings]
  BY DEF ProjectsInv, ProjectsTypes
<1>2. ASSUME NEW r \in RowPaths, SetsRow(r) PROVE ProjectsInv'
  BY <1>1, <1>2, SetsInv DEF SetsRow
<1>3. ASSUME NEW p \in ProjectPaths, SetsLock(p) PROVE ProjectsInv'
  <2> DEFINE flip == ~tree[p].locked
             to == [tree[p] EXCEPT !.locked = flip]
  <2>1. flip \in BOOLEAN /\ p \in DOMAIN tree /\ tree' = [tree EXCEPT ![p] = to]
    BY <1>3 DEF SetsLock
  <2> HIDE DEF flip
  <2>2. to \in Settings
    BY <1>1, <2>1 DEF Settings
  <2> HIDE DEF to
  <2>3. tree' \in [DOMAIN tree -> Settings]
    BY <1>1, <2>1, <2>2
  <2> QED
    BY <1>3, <2>3, SetsInv DEF SetsLock
<1>4. ASSUME NEW p \in ProjectPaths, NEW g \in {"unset", "public", "restricted"}, SetsGate(p, g) PROVE ProjectsInv'
  <2> DEFINE to == [tree[p] EXCEPT !.gate = g]
  <2>1. p \in DOMAIN tree /\ tree' = [tree EXCEPT ![p] = to]
    BY <1>4 DEF SetsGate
  <2>2. to \in Settings
    BY <1>1, <2>1 DEF Settings
  <2> HIDE DEF to
  <2>3. tree' \in [DOMAIN tree -> Settings]
    BY <1>1, <2>1, <2>2
  <2> QED
    BY <1>4, <2>3, SetsInv DEF SetsGate
<1> QED
  BY <1>2, <1>3, <1>4

\* An app that lands is spoken of only if nothing is under way and it fits.
LEMMA LandsInv ==
    ASSUME ProjectsInv, NEW a \in Apps, NEW folder \in Folders, NEW to \in Paths,
           place' = [place EXCEPT ![a] = to], to = place[a] \/ to = folder,
           LandsLate(a, folder), permit' \in [Publishers -> PermitRecord],
           UNCHANGED <<tree, journal, mover, beside>>
    PROVE  ProjectsInv'
<1>1. place \in [Apps -> Paths] /\ late \in SUBSET Apps
  BY DEF ProjectsInv, ProjectsTypes
<1>2. /\ place' \in [Apps -> Paths] /\ place'[a] = to
      /\ \A b \in Apps : b # a => place'[b] = place[b]
  BY <1>1
<1>3. late' \in SUBSET Apps /\ late \subseteq late'
  BY <1>1 DEF LandsLate
<1>4. ProjectsTypes'
  BY <1>2, <1>3 DEF ProjectsInv, ProjectsTypes
<1>5. ASSUME NEW b \in SettledApps', ~(b \in SettledApps /\ place'[b] = place[b])
      PROVE  /\ mover = NoMover /\ journal = NoMove
             /\ AppPath(place'[b], b) \notin DOMAIN tree /\ place'[b] \in DOMAIN tree \union {Root}
  <2>1. b \in Apps /\ place'[b] # Absent /\ b \notin late'
    BY DEF SettledApps, Existing
  <2>2. b \notin late
    BY <1>3, <2>1
  <2>3. place'[b] # place[b]
    BY <1>5, <2>1, <2>2 DEF SettledApps, Existing
  <2>4. b = a /\ place'[a] = folder
    BY <1>2, <2>1, <2>3
  <2> QED
    BY <2>1, <2>3, <2>4 DEF LandsLate
<1>6. ASSUME NEW b \in SettledApps
      PROVE  mover = NoMover \/ b \in late' \/ (b \in SettledApps' /\ place'[b] = place[b])
  <2>1. b \in Apps /\ place[b] # Absent /\ b \notin late
    BY DEF SettledApps, Existing
  <2>2. CASE place'[b] # place[b]
    BY <1>2, <2>1, <2>2 DEF LandsLate
  <2>3. CASE place'[b] = place[b]
    BY <2>1, <2>3 DEF SettledApps, Existing
  <2> QED
    BY <2>2, <2>3
<1>7. "project" \notin beside' => Fits'
  BY <1>3, <1>5, <1>6, FitsStay
<1> QED
  BY <1>4, <1>7 DEF ProjectsInv

\* A publisher that changes no app but goes on.
LEMMA PermitInv ==
    ASSUME ProjectsInv, permit' \in [Publishers -> PermitRecord], UNCHANGED <<tree, place, journal, mover, beside, late>>
    PROVE  ProjectsInv'
<1>1. ProjectsTypes'
  BY DEF ProjectsInv, ProjectsTypes
<1>2. SettledApps' = SettledApps
  BY DEF SettledApps, Existing
<1>3. "project" \notin beside' => Fits'
  BY <1>2, FitsStay
<1> QED
  BY <1>1, <1>3 DEF ProjectsInv

LEMMA PublishStep ==
    ASSUME ProjectsInv, NEW p \in Publishers,
           \/ \E a \in Apps, f \in Folders : Asks(p, a, f)
           \/ Arrives(p) \/ ForgetsMeta(p) \/ StoresFiles(p) \/ ForgetsAccess(p) \/ Stamps(p) \/ GivesUp(p)
    PROVE  ProjectsInv'
<1>1. /\ permit \in [Publishers -> PermitRecord] /\ permit[p] \in PermitRecord
      /\ permit[p].app \in Apps /\ permit[p].folder \in Folders
      /\ place \in [Apps -> Paths]
  BY DEF ProjectsInv, ProjectsTypes, PermitRecord
<1>2. Root \in Folders /\ Root \in Paths /\ Folders \subseteq Paths
  BY PathFacts DEF Folders
<1>3. ASSUME NEW at \in {"none", "asked", "meta", "store", "forget", "stamp", "done"}
      PROVE  /\ [permit EXCEPT ![p].at = at] \in [Publishers -> PermitRecord]
             /\ [permit EXCEPT ![p] = [NoPermit EXCEPT !.at = at]] \in [Publishers -> PermitRecord]
  BY <1>1, NoMoverIs DEF PermitRecord
<1>4. ASSUME NEW a \in Apps, NEW f \in Folders, Asks(p, a, f) PROVE ProjectsInv'
  <2> DEFINE no == FALSE
  <2>1. permit' = [permit EXCEPT ![p] = [at |-> "asked", app |-> a, folder |-> f, new |-> no]]
    BY <1>4, Zenon DEF Asks
  <2>2. no \in BOOLEAN
    OBVIOUS
  <2> HIDE DEF no
  <2>3. permit' \in [Publishers -> PermitRecord]
    BY <1>1, <2>1, <2>2 DEF PermitRecord
  <2> QED
    BY <1>4, <2>3, PermitInv DEF Asks
<1>5. CASE Arrives(p)
  <2> DEFINE fresh == permit[p].app \notin Existing
             at == IF fresh THEN "meta" ELSE "store"
             to == [permit[p] EXCEPT !.at = at, !.new = fresh]
  <2>1. permit' = [permit EXCEPT ![p] = to] /\ UNCHANGED <<tree, place, journal, mover, beside, late>>
    BY <1>1, <1>5 DEF Arrives
  <2>2. fresh \in BOOLEAN /\ at \in {"meta", "store"}
    OBVIOUS
  <2> HIDE DEF fresh, at
  <2>3. to \in PermitRecord
    BY <1>1, <2>2 DEF PermitRecord
  <2> HIDE DEF to
  <2>4. permit' \in [Publishers -> PermitRecord]
    BY <1>1, <2>1, <2>3
  <2> QED
    BY <2>1, <2>4, PermitInv
<1>6. CASE ForgetsMeta(p)
  <2> DEFINE a == permit[p].app
             to == IF place[a] = Absent THEN Absent ELSE Root
  <2>1. /\ place' = [place EXCEPT ![a] = to] /\ permit' = [permit EXCEPT ![p].at = "store"]
        /\ LandsLate(a, Root) /\ UNCHANGED <<tree, journal, mover, beside>>
    BY <1>1, <1>6 DEF ForgetsMeta
  <2>2. (to = place[a] \/ to = Root) /\ to \in Paths
    BY <1>1, <1>2
  <2> HIDE DEF a, to
  <2>3. a \in Apps
    BY <1>1 DEF a
  <2> QED
    BY <1>2, <1>3, <2>1, <2>2, <2>3, LandsInv
<1>7. CASE StoresFiles(p)
  <2> DEFINE a == permit[p].app
             to == IF place[a] = Absent THEN Root ELSE place[a]
             at == IF permit[p].new THEN "forget" ELSE "stamp"
  <2>1. /\ place' = [place EXCEPT ![a] = to] /\ permit' = [permit EXCEPT ![p].at = at]
        /\ LandsLate(a, Root) /\ UNCHANGED <<tree, journal, mover, beside>>
    BY <1>1, <1>7 DEF StoresFiles
  <2>2. (to = place[a] \/ to = Root) /\ to \in Paths /\ at \in {"forget", "stamp"}
    BY <1>1, <1>2
  <2> HIDE DEF a, to, at
  <2>3. a \in Apps
    BY <1>1 DEF a
  <2> QED
    BY <1>2, <1>3, <2>1, <2>2, <2>3, LandsInv
<1>8. CASE ForgetsAccess(p)
  BY <1>3, <1>8, PermitInv DEF ForgetsAccess
<1>9. CASE Stamps(p)
  <2> DEFINE a == permit[p].app
             f == permit[p].folder
             to == IF place[a] = Root THEN f ELSE place[a]
  <2>1. /\ place' = [place EXCEPT ![a] = to] /\ permit' = [permit EXCEPT ![p] = [NoPermit EXCEPT !.at = "done"]]
        /\ LandsLate(a, f) /\ UNCHANGED <<tree, journal, mover, beside>>
    BY <1>1, <1>9 DEF Stamps
  <2>2. (to = place[a] \/ to = f) /\ to \in Paths
    BY <1>1, <1>2
  <2> HIDE DEF a, f, to
  <2>3. a \in Apps /\ f \in Folders
    BY <1>1 DEF a, f
  <2> QED
    BY <1>2, <1>3, <2>1, <2>2, <2>3, LandsInv
<1>10. CASE GivesUp(p)
  BY <1>3, <1>10, PermitInv DEF GivesUp
<1> QED
  BY <1>4, <1>5, <1>6, <1>7, <1>8, <1>9, <1>10

-----------------------------------------------------------------------------
(* The steps of a change that move nothing.                                 *)

\* A change that takes its next step is the change it was.
LEMMA StepsToFacts ==
    ASSUME ProjectsTypes, NEW at \in MoverSteps, StepsTo(at)
    PROVE  /\ mover' \in MoverRecord /\ mover'.at = at
           /\ mover'.op = mover.op /\ mover'.app = mover.app /\ mover'.from = mover.from
           /\ mover'.to = mover.to /\ mover'.left = mover.left /\ mover'.goes = mover.goes
BY DEF ProjectsTypes, StepsTo, MoverRecord

\* Then ProjectsInv stays too.
LEMMA GoesOn ==
    ASSUME ProjectsInv, UNCHANGED <<tree, place, journal, permit, late, beside>>,
           mover' \in MoverRecord,
           mover'.op \in {"create", "project"} => mover'.to \in ProjectPaths,
           mover'.op = "project" => mover'.from \in ProjectPaths,
           "project" \notin beside => ChangeFits'
    PROVE  ProjectsInv'
<1>1. ProjectsTypes'
  BY DEF ProjectsInv, ProjectsTypes
<1> QED
  BY <1>1, FitsGoOn DEF ProjectsInv

LEMMA LetsGoStep ==
    ASSUME ProjectsInv, LetsGo, UNCHANGED <<tree, place, journal, permit, late, beside>>
    PROVE  ProjectsInv'
<1>1. mover' \in MoverRecord /\ mover'.op = "none" /\ mover'.at = "idle"
  BY NoMoverIs DEF LetsGo
<1>2. ChangeFits'
  BY <1>1, IdleFits
<1> QED
  BY <1>1, <1>2, GoesOn

\* It is enough to answer for the step that comes.
LEMMA StepsOn ==
    ASSUME ProjectsInv, NEW at \in MoverSteps, StepsTo(at), UNCHANGED <<tree, place, journal, permit, late, beside>>,
           Fits => CreateFits' /\ AppFits' /\ RemoveFits' /\ ResumeFits',
           Fits /\ mover.op = "project" /\ at \in {"sweep", "begin"} =>
               TreeBefore(mover) /\ IsMove(mover) /\ FitsAfter(mover)
    PROVE  ProjectsInv'
<1>1. /\ mover' \in MoverRecord /\ mover'.at = at /\ mover'.op = mover.op /\ mover'.from = mover.from
      /\ mover'.to = mover.to
  BY StepsToFacts DEF ProjectsInv
<1>2. ASSUME "project" \notin beside PROVE RelocateFits'
  <2>1. Fits
    BY <1>2 DEF ProjectsInv
  <2>2. mover.op = "project" => ~Covers(mover.from, mover.to)
    BY <2>1 DEF Fits, ChangeFits, RelocateFits
  <2>3. ASSUME mover.op = "project", at \in {"sweep", "begin"} PROVE (TreeBefore(mover) /\ IsMove(mover) /\ FitsAfter(mover))'
    BY <1>1, <2>1, <2>3 DEF TreeBefore, IsMove, FitsAfter, SettledApps, Existing
  <2> QED
    BY <1>1, <2>2, <2>3 DEF RelocateFits
<1>3. ASSUME "project" \notin beside PROVE ChangeFits'
  BY <1>2, <1>3 DEF ProjectsInv, ChangeFits
<1>4. /\ mover'.op \in {"create", "project"} => mover'.to \in ProjectPaths
      /\ mover'.op = "project" => mover'.from \in ProjectPaths
  BY <1>1 DEF ProjectsInv, ProjectsTypes
<1> QED
  BY <1>1, <1>3, <1>4, GoesOn

\* Taking hold of moves promises nothing yet.
LEMMA HoldsStep ==
    ASSUME ProjectsInv, NEW op \in {"create", "app", "project", "remove", "boot"}, NEW at \in {"check", "resume"},
           NEW a \in Apps, NEW from \in Paths, NEW to \in Folders,
           at = "check" => op = "create",
           op \in {"create", "project"} => to \in ProjectPaths,
           op = "project" => from \in ProjectPaths /\ ~Covers(from, to),
           HoldsRelocations(op, at, a, from, to)
    PROVE  ProjectsInv'
<1> DEFINE no == FALSE
<1>1. NoMover = [op |-> "none", at |-> "idle", app |-> AnyApp, from |-> Root, to |-> Root, left |-> {}, goes |-> no]
  BY Zenon DEF NoMover
<1>2. no \in BOOLEAN
  OBVIOUS
<1> HIDE DEF no
<1>3. mover' = [op |-> op, at |-> at, app |-> a, from |-> from, to |-> to, left |-> {}, goes |-> no]
  BY <1>1 DEF HoldsRelocations
<1>4. mover' \in MoverRecord
  BY <1>2, <1>3 DEF MoverRecord, MoverSteps
<1>5. mover'.op = op /\ mover'.at = at /\ mover'.from = from /\ mover'.to = to
  BY <1>3
<1>6. ChangeFits'
  BY <1>5 DEF ChangeFits, CreateFits, AppFits, RelocateFits, RemoveFits, ResumeFits
<1> QED
  BY <1>4, <1>5, <1>6, GoesOn DEF HoldsRelocations

LEMMA AskingStep ==
    ASSUME ProjectsInv,
           \/ \E p \in ProjectPaths : CreateProject(p) \/ RemoveProject(p) \/ \E q \in ProjectPaths : Relocate(p, q)
           \/ \E a \in Apps, f \in Folders : MoveApp(a, f)
           \/ Boots
    PROVE  ProjectsInv'
<1>1. Root \in Paths /\ Root \in Folders /\ AnyApp \in Apps /\ ProjectPaths \subseteq Folders /\ ProjectPaths \subseteq Paths
  BY PathFacts, NoMoverIs DEF Folders
<1>2. ASSUME NEW p \in ProjectPaths, CreateProject(p) PROVE ProjectsInv'
  <2>1. HoldsRelocations("create", "check", AnyApp, Root, p)
    BY <1>2 DEF CreateProject
  <2> QED
    BY <1>1, <2>1, HoldsStep
<1>3. ASSUME NEW p \in ProjectPaths, RemoveProject(p) PROVE ProjectsInv'
  <2>1. HoldsRelocations("remove", "resume", AnyApp, p, Root)
    BY <1>3 DEF RemoveProject
  <2> QED
    BY <1>1, <2>1, HoldsStep
<1>4. ASSUME NEW p \in ProjectPaths, NEW q \in ProjectPaths, Relocate(p, q) PROVE ProjectsInv'
  <2>1. HoldsRelocations("project", "resume", AnyApp, p, q) /\ ~Covers(p, q)
    BY <1>4 DEF Relocate
  <2> QED
    BY <1>1, <2>1, HoldsStep
<1>5. ASSUME NEW a \in Apps, NEW f \in Folders, MoveApp(a, f) PROVE ProjectsInv'
  <2>1. HoldsRelocations("app", "resume", a, Root, f)
    BY <1>5 DEF MoveApp
  <2> QED
    BY <1>1, <2>1, HoldsStep
<1>6. CASE Boots
  <2>1. HoldsRelocations("boot", "resume", AnyApp, Root, Root)
    BY <1>6 DEF Boots
  <2> QED
    BY <1>1, <2>1, HoldsStep
<1> QED
  BY <1>2, <1>3, <1>4, <1>5, <1>6

LEMMA ResumesStep ==
    ASSUME ProjectsInv, Resumes
    PROVE  ProjectsInv'
<1>1. UNCHANGED <<tree, place, journal, permit, late, beside>> /\ mover.at = "resume"
  BY DEF Resumes, Quiet
<1>2. CASE LetsGo
  BY <1>1, <1>2, LetsGoStep
<1>3. CASE journal # NoMove /\ StepsTo("list")
  <2>1. mover'.at = "list" /\ mover'.op = mover.op /\ "list" \in MoverSteps
    BY <1>3, StepsToFacts DEF ProjectsInv, MoverSteps
  <2>2. CreateFits' /\ AppFits' /\ RemoveFits' /\ ResumeFits'
    BY <1>1, <1>3, <2>1 DEF CreateFits, AppFits, RemoveFits, ResumeFits
  <2> QED
    BY <1>1, <1>3, <2>1, <2>2, StepsOn
<1>4. CASE journal = NoMove /\ StepsTo("check")
  <2>1. mover'.at = "check" /\ mover'.op = mover.op /\ "check" \in MoverSteps
    BY <1>4, StepsToFacts DEF ProjectsInv, MoverSteps
  <2>2. CreateFits' /\ AppFits' /\ RemoveFits' /\ ResumeFits'
    BY <1>1, <1>4, <2>1 DEF CreateFits, AppFits, RemoveFits, ResumeFits
  <2> QED
    BY <1>1, <1>4, <2>1, <2>2, StepsOn
<1> QED
  BY <1>2, <1>3, <1>4 DEF Resumes

LEMMA ListsAppsStep ==
    ASSUME ProjectsInv, ListsApps
    PROVE  ProjectsInv'
<1> DEFINE inside == {b \in Existing : place[b] # Root /\ Covers(journal.from, place[b])}
           left == {<<a, place[a]>> : a \in inside}
<1>1. mover' = [mover EXCEPT !.at = "apps", !.left = left] /\ mover.at = "list"
      /\ UNCHANGED <<tree, place, journal, permit, late, beside>>
  BY DEF ListsApps, Quiet
<1>2. left \in SUBSET (Apps \X Paths) /\ mover \in MoverRecord
  BY DEF Existing, ProjectsInv, ProjectsTypes
<1>3. /\ \A a \in SettledApps : place[a] # Root /\ Covers(journal.from, place[a]) => <<a, place[a]>> \in left
      /\ AsListed(left)
  BY DEF SettledApps, AsListed
<1> HIDE DEF left
<1>4. /\ mover' \in MoverRecord /\ mover'.at = "apps" /\ mover'.op = mover.op /\ mover'.from = mover.from
      /\ mover'.to = mover.to /\ mover'.left = left
  BY <1>1, <1>2 DEF MoverRecord, MoverSteps
<1>5. ASSUME "project" \notin beside PROVE ChangeFits'
  <2>1. Fits
    BY <1>5 DEF ProjectsInv
  <2>2. journal # NoMove /\ IsMove(journal)
    BY <1>1, <2>1 DEF Fits, ChangeFits, ResumeFits, MoveFits
  <2>3. ~Covers(journal.from, Root)
    <3>1. journal.from \in Paths /\ journal.to \in Paths
      BY PathFacts DEF ProjectsInv, ProjectsTypes
    <3> QED
      BY <2>2, <3>1, CoversFacts, PathFacts DEF IsMove
  <2>4. SettledApps' = SettledApps /\ place' = place /\ journal' = journal /\ late' = late
    BY <1>1 DEF SettledApps, Existing
  <2>5. ResumeFits'
    <3>1. \A b \in SettledApps' : Covers(journal'.from, place'[b]) => <<b, place'[b]>> \in mover'.left
      BY <1>3, <1>4, <2>3, <2>4
    <3>2. \A l \in mover'.left : l[1] \in late' \/ (l[1] \in SettledApps' /\ l[2] = place'[l[1]])
      BY <1>3, <1>4, <2>4 DEF AsListed
    <3>3. AllListed(mover.left)' /\ AsListed(mover.left)'
      BY <3>1, <3>2 DEF AllListed, AsListed
    <3> QED
      BY <1>1, <1>4, <2>2, <3>3 DEF ResumeFits
  <2>6. RelocateFits'
    BY <1>4, <2>1 DEF Fits, ChangeFits, RelocateFits
  <2> QED
    BY <1>4, <2>5, <2>6 DEF ChangeFits, CreateFits, AppFits, RemoveFits
<1>6. /\ mover'.op \in {"create", "project"} => mover'.to \in ProjectPaths
      /\ mover'.op = "project" => mover'.from \in ProjectPaths
  BY <1>4 DEF ProjectsInv, ProjectsTypes
<1> QED
  BY <1>1, <1>4, <1>5, <1>6, GoesOn

LEMMA MovesScopesStep ==
    ASSUME ProjectsInv, MovesScopes
    PROVE  ProjectsInv'
<1>1. /\ UNCHANGED <<tree, place, journal, permit, late, beside>> /\ mover.at = "scopes" /\ StepsTo("clear")
      /\ "clear" \in MoverSteps
  BY DEF MovesScopes, Quiet, MoverSteps
<1>2. mover'.at = "clear" /\ mover'.op = mover.op
  BY <1>1, StepsToFacts DEF ProjectsInv
<1>3. Fits => ResumeFits'
  BY <1>1, <1>2 DEF Fits, ChangeFits, ResumeFits, TreeAfter, SettledApps, Existing
<1>4. CreateFits' /\ AppFits' /\ RemoveFits'
  BY <1>2 DEF CreateFits, AppFits, RemoveFits
<1> QED
  BY <1>1, <1>2, <1>3, <1>4, StepsOn

LEMMA ChecksCreateStep ==
    ASSUME ProjectsInv, ChecksCreate
    PROVE  ProjectsInv'
<1>1. UNCHANGED <<tree, place, journal, permit, late, beside>> /\ mover.op = "create" /\ "insert" \in MoverSteps
  BY DEF ChecksCreate, Quiet, MoverSteps, MoverAt
<1>2. CASE LetsGo
  BY <1>1, <1>2, LetsGoStep
<1>3. CASE mover.to \notin AppPaths(Existing) /\ StepsTo("insert")
  <2>1. mover'.at = "insert" /\ mover'.op = "create" /\ mover'.to = mover.to
    BY <1>1, <1>3, StepsToFacts DEF ProjectsInv
  <2>2. CreateFits'
    BY <1>1, <1>3, <2>1 DEF CreateFits, AppPaths, SettledApps, Existing
  <2>3. AppFits' /\ RemoveFits' /\ ResumeFits'
    BY <2>1 DEF AppFits, RemoveFits, ResumeFits
  <2> QED
    BY <1>1, <1>3, <2>1, <2>2, <2>3, StepsOn
<1> QED
  BY <1>2, <1>3 DEF ChecksCreate

LEMMA ChecksAppStep ==
    ASSUME ProjectsInv, ChecksApp
    PROVE  ProjectsInv'
<1> DEFINE from == AppPath(place[mover.app], mover.app)
<1>1. UNCHANGED <<tree, place, journal, permit, late, beside>> /\ mover.op = "app" /\ mover.at = "check"
  BY DEF ChecksApp, Quiet, MoverAt
<1>2. CASE LetsGo
  BY <1>1, <1>2, LetsGoStep
<1>3. CASE /\ mover.to \in DOMAIN tree \union {Root} /\ AppPath(mover.to, mover.app) \notin DOMAIN tree
           /\ mover' = [mover EXCEPT !.at = "meta", !.from = from]
  <2>1. mover \in MoverRecord /\ place \in [Apps -> Paths] /\ mover.app \in Apps
    BY DEF ProjectsInv, ProjectsTypes, MoverRecord
  <2>2. from \in Paths
    BY <2>1, AppPathFacts
  <2>3. mover' = [mover EXCEPT !.at = "meta", !.from = from]
    BY <1>3
  <2> HIDE DEF from
  <2>4. /\ mover' \in MoverRecord /\ mover'.at = "meta" /\ mover'.op = "app"
        /\ mover'.to = mover.to /\ mover'.app = mover.app
    BY <1>1, <2>1, <2>2, <2>3 DEF MoverRecord, MoverSteps
  <2>5. AppFits'
    BY <1>1, <1>3, <2>4 DEF AppFits
  <2>6. ASSUME "project" \notin beside PROVE ResumeFits'
    BY <1>1, <2>4, <2>6 DEF ProjectsInv, Fits, ChangeFits, ResumeFits
  <2>7. CreateFits' /\ RemoveFits' /\ RelocateFits'
    BY <2>4 DEF CreateFits, RemoveFits, RelocateFits
  <2> QED
    BY <1>1, <2>4, <2>5, <2>6, <2>7, GoesOn DEF ChangeFits
<1> QED
  BY <1>2, <1>3 DEF ChecksApp

LEMMA SweepsRowsStep ==
    ASSUME ProjectsInv, SweepsRows
    PROVE  ProjectsInv'
<1>1. /\ UNCHANGED <<tree, place, journal, permit, late, beside>> /\ mover.op = "project" /\ mover.at = "sweep"
      /\ StepsTo("begin") /\ "begin" \in MoverSteps
  BY DEF SweepsRows, Quiet, MoverSteps, MoverAt
<1>2. mover'.at = "begin" /\ mover'.op = "project"
  BY <1>1, StepsToFacts DEF ProjectsInv
<1>3. Fits => ResumeFits'
  BY <1>1, <1>2 DEF Fits, ChangeFits, ResumeFits
<1>4. CreateFits' /\ AppFits' /\ RemoveFits'
  BY <1>2 DEF CreateFits, AppFits, RemoveFits
<1>5. Fits => TreeBefore(mover) /\ IsMove(mover) /\ FitsAfter(mover)
  BY <1>1 DEF Fits, ChangeFits, RelocateFits
<1> QED
  BY <1>1, <1>2, <1>3, <1>4, <1>5, StepsOn

LEMMA ChecksRemoveStep ==
    ASSUME ProjectsInv, ChecksRemove
    PROVE  ProjectsInv'
<1>1. /\ UNCHANGED <<tree, place, journal, permit, late, beside>> /\ mover.op = "remove" /\ mover.at = "check"
      /\ "rows" \in MoverSteps
  BY DEF ChecksRemove, Quiet, MoverSteps, MoverAt
<1>2. CASE LetsGo
  BY <1>1, <1>2, LetsGoStep
<1>3. CASE EmptyProject(mover.from) /\ StepsTo("rows")
  <2>1. mover'.at = "rows" /\ mover'.op = "remove" /\ mover'.from = mover.from
    BY <1>1, <1>3, StepsToFacts DEF ProjectsInv
  <2>2. RemoveFits'
    BY <1>1, <1>3, <2>1 DEF RemoveFits, EmptyProject, SettledApps, Existing
  <2>3. Fits => ResumeFits'
    BY <1>1, <2>1 DEF Fits, ChangeFits, ResumeFits
  <2>4. CreateFits' /\ AppFits'
    BY <2>1 DEF CreateFits, AppFits
  <2> QED
    BY <1>1, <1>3, <2>1, <2>2, <2>3, <2>4, StepsOn
<1> QED
  BY <1>2, <1>3 DEF ChecksRemove

LEMMA RemovesRowsStep ==
    ASSUME ProjectsInv, RemovesRows
    PROVE  ProjectsInv'
<1>1. /\ UNCHANGED <<tree, place, journal, permit, late, beside>> /\ mover.op = "remove" /\ mover.at = "rows"
      /\ StepsTo("tree") /\ "tree" \in MoverSteps
  BY DEF RemovesRows, Quiet, MoverSteps, MoverAt
<1>2. mover'.at = "tree" /\ mover'.op = "remove" /\ mover'.from = mover.from
  BY <1>1, StepsToFacts DEF ProjectsInv
<1>3. Fits => RemoveFits'
  BY <1>1, <1>2 DEF Fits, ChangeFits, RemoveFits, SettledApps, Existing
<1>4. Fits => ResumeFits'
  BY <1>1, <1>2 DEF Fits, ChangeFits, ResumeFits
<1>5. CreateFits' /\ AppFits'
  BY <1>2 DEF CreateFits, AppFits
<1> QED
  BY <1>1, <1>2, <1>3, <1>4, <1>5, StepsOn

-----------------------------------------------------------------------------
(* The move of a project.                                                   *)

\* What is checked before a move is that everything fits the tree after it.
LEMMA RelocateChecked ==
    ASSUME NEW D \in SUBSET Paths, Rooted(D), NEW from \in D, NEW to \in ProjectPaths, to \notin D, ~Covers(from, to),
           NEW f \in D \union {Root}, NEW a \in Apps, Root \notin D, AppPath(f, a) \notin D,
           f = Root \/ ~Covers(from, f) =>
               AppPath(f, a) \notin {Renamed(p, from, to) : p \in {q \in D : Covers(from, q)}}
    PROVE  /\ ~Covers(to, from)
           /\ Renamed(AppPath(f, a), from, to) \notin AllRenamed(D, from, to)
           /\ Renamed(f, from, to) \in AllRenamed(D, from, to) \union {Root}
<1> DEFINE path == AppPath(f, a)
<1>1. from \in Paths /\ to \in Paths /\ f \in Paths /\ to # Root /\ from # Root /\ Root \in Paths
  BY PathFacts
<1>2. path \in Paths
  BY <1>1, AppPathFacts
<1>3. ~Covers(to, from)
  BY <1>1, RootedCovers
<1>4. ~Covers(from, Root)
  BY <1>1, CoversFacts
<1>5. Renamed(f, from, to) \in AllRenamed(D, from, to) \union {Root}
  BY <1>4, StillPath DEF AllRenamed
<1>6. Covers(from, path) => Covers(from, f)
  BY <1>1, AppUnder
<1>7. Covers(from, f) => Covers(from, path)
  BY <1>1, AppUnder
<1> HIDE DEF path
<1>8. ASSUME NEW q \in D, Renamed(path, from, to) = Renamed(q, from, to) PROVE FALSE
  <2>1. CASE Covers(from, path) /\ Covers(from, q)
    BY <1>1, <1>2, <1>8, <2>1, RenamedApart DEF path
  <2>2. CASE Covers(from, path) /\ ~Covers(from, q)
    <3>1. Covers(to, q)
      BY <1>1, <1>2, <1>8, <2>2, MovedPath, StillPath
    <3> QED
      BY <1>1, <3>1, RootedCovers
  <2>3. CASE ~Covers(from, path) /\ Covers(from, q)
    <3>1. path = Renamed(q, from, to)
      BY <1>8, <2>3, StillPath
    <3> QED
      BY <1>7, <2>3, <3>1 DEF path
  <2>4. CASE ~Covers(from, path) /\ ~Covers(from, q)
    BY <1>8, <2>4, StillPath DEF path
  <2> QED
    BY <2>1, <2>2, <2>3, <2>4
<1> QED
  BY <1>3, <1>5, <1>8 DEF AllRenamed, path

LEMMA ChecksRelocateStep ==
    ASSUME ProjectsInv, ChecksRelocate
    PROVE  ProjectsInv'
<1> DEFINE from == mover.from
           to == mover.to
           others == {a \in Existing : place[a] = Root \/ ~Covers(from, place[a])}
<1>1. /\ UNCHANGED <<tree, place, journal, permit, late, beside>> /\ mover.op = "project" /\ mover.at = "check"
      /\ "sweep" \in MoverSteps
  BY DEF ChecksRelocate, Quiet, MoverSteps, MoverAt
<1>2. CASE LetsGo
  BY <1>1, <1>2, LetsGoStep
<1>3. CASE /\ from \in DOMAIN tree /\ Parent(to) \in DOMAIN tree \union {Root} /\ to \notin DOMAIN tree
           /\ Produced \intersect AppPaths(others) = {} /\ StepsTo("sweep")
  <2>1. mover'.at = "sweep" /\ mover'.op = "project"
    BY <1>1, <1>3, StepsToFacts DEF ProjectsInv
  <2>2. CreateFits' /\ AppFits' /\ RemoveFits'
    BY <2>1 DEF CreateFits, AppFits, RemoveFits
  <2>3. ASSUME Fits PROVE ResumeFits' /\ TreeBefore(mover) /\ IsMove(mover) /\ FitsAfter(mover)
    <3>1. journal = NoMove /\ ~Covers(from, to)
      BY <1>1, <2>3 DEF Fits, ChangeFits, ResumeFits, RelocateFits
    <3>2. DOMAIN tree \in SUBSET Paths /\ Root \notin DOMAIN tree /\ to \in ProjectPaths /\ Rooted(DOMAIN tree)
      BY <1>1, <2>3 DEF ProjectsInv, ProjectsTypes, Fits
    <3>3. from \in Paths /\ to \in Paths /\ to # Root /\ to # Absent
      BY <1>3, <3>2, PathFacts DEF Folders
    <3>4. \A a \in SettledApps : /\ AppPath(place[a], a) \notin DOMAIN tree /\ a \in Apps
                                 /\ place[a] \in DOMAIN tree \union {Root}
      BY <2>3, <3>1, FitsUnmoved DEF Fits, MoveFits, SettledApps, Existing
    <3>5. ASSUME NEW a \in SettledApps, place[a] = Root \/ ~Covers(from, place[a])
          PROVE  AppPath(place[a], a) \notin {Renamed(p, from, to) : p \in {q \in DOMAIN tree : Covers(from, q)}}
      <4>1. AppPath(place[a], a) \in AppPaths(others)
        BY <3>5 DEF AppPaths, SettledApps
      <4> QED
        BY <1>3, <4>1 DEF Produced
    <3>6. ~Covers(to, from)
      BY <1>3, <3>2, <3>3, RootedCovers
    <3>7. FitsAfter(mover)
      <4> SUFFICES ASSUME NEW a \in SettledApps
                   PROVE  /\ Renamed(AppPath(place[a], a), from, to) \notin AllRenamed(DOMAIN tree, from, to)
                          /\ Renamed(place[a], from, to) \in AllRenamed(DOMAIN tree, from, to) \union {Root}
        BY DEF FitsAfter
      <4> HIDE DEF from, to
      <4> QED
        BY <1>3, <3>1, <3>2, <3>4, <3>5, RelocateChecked
    <3>8. Len(to) > 1 => Parent(to) # Root
      <4>1. Len(to) > 1 => Len(to) - 1 \in 0..Len(to) /\ Len(to) - 1 # 0
        BY <3>3, PathElements
      <4>2. Len(to) > 1 => Len(Parent(to)) # 0
        BY <3>3, <4>1, Prefix DEF Parent
      <4> QED
        BY <4>2, PathFacts
    <3>9. TreeBefore(mover) /\ IsMove(mover)
      BY <1>3, <3>1, <3>3, <3>6, <3>8 DEF TreeBefore, IsMove
    <3>10. ResumeFits'
      BY <1>1, <2>1, <3>1 DEF ResumeFits
    <3> QED
      BY <3>7, <3>9, <3>10
  <2> QED
    BY <1>1, <1>3, <2>1, <2>2, <2>3, StepsOn
<1> QED
  BY <1>2, <1>3 DEF ChecksRelocate

LEMMA BeginsStep ==
    ASSUME ProjectsInv, BeginsRelocation
    PROVE  ProjectsInv'
<1> DEFINE yes == TRUE
<1>1. /\ mover.op = "project" /\ mover.at = "begin" /\ UNCHANGED <<tree, place, permit, late, beside>>
      /\ journal' = [from |-> mover.from, to |-> mover.to]
  BY DEF BeginsRelocation, MoverAt, Quiet
<1>2. mover' = [mover EXCEPT !.at = "list", !.goes = yes]
  BY Zenon DEF BeginsRelocation
<1>3. yes \in BOOLEAN
  OBVIOUS
<1> HIDE DEF yes
<1>4. mover \in MoverRecord /\ mover.from \in ProjectPaths /\ mover.to \in ProjectPaths
  BY <1>1 DEF ProjectsInv, ProjectsTypes
<1>5. /\ mover' \in MoverRecord /\ mover'.at = "list" /\ mover'.op = "project" /\ mover'.from = mover.from
      /\ mover'.to = mover.to
  BY <1>1, <1>2, <1>3, <1>4 DEF MoverRecord, MoverSteps
<1>6. /\ journal' \in [from : Folders, to : Folders] /\ journal'.from = mover.from /\ journal'.to = mover.to
      /\ journal' # NoMove
  BY <1>1, <1>4, PathFacts DEF Folders, NoMove
<1>7. ProjectsTypes'
  BY <1>1, <1>4, <1>5, <1>6 DEF ProjectsInv, ProjectsTypes
<1>8. ASSUME Fits PROVE Fits'
  <2>1. TreeBefore(mover) /\ IsMove(mover) /\ FitsAfter(mover) /\ ~Covers(mover.from, mover.to)
    BY <1>1, <1>8 DEF Fits, ChangeFits, RelocateFits
  <2>2. MoveFits'
    BY <1>1, <1>6, <2>1 DEF MoveFits, TreeBefore, IsMove, FitsAfter, SettledApps, Existing
  <2>3. ChangeFits'
    BY <1>5, <1>6, <2>1 DEF ChangeFits, CreateFits, AppFits, RelocateFits, RemoveFits, ResumeFits
  <2> QED
    BY <1>1, <1>8, <2>2, <2>3 DEF Fits, Rooted
<1> QED
  BY <1>1, <1>7, <1>8 DEF ProjectsInv

LEMMA MovesOneStep ==
    ASSUME ProjectsInv, NEW a \in Apps, MovesOne(a)
    PROVE  ProjectsInv'
<1> DEFINE from == journal.from
           to == journal.to
<1>0. PICK listed \in mover.left :
          /\ listed[1] = a
          /\ place' = [place EXCEPT ![a] = Renamed(listed[2], from, to)]
          /\ mover' = [mover EXCEPT !.left = mover.left \ {listed}]
  BY DEF MovesOne
<1> DEFINE at == listed[2]
           there == Renamed(at, from, to)
           left == mover.left \ {listed}
<1>1. /\ mover.at = "apps" /\ UNCHANGED <<tree, permit, late, beside, journal>> /\ place' = [place EXCEPT ![a] = there]
      /\ mover' = [mover EXCEPT !.left = left]
  BY <1>0 DEF MovesOne, Quiet
<1>2. /\ mover \in MoverRecord /\ place \in [Apps -> Paths] /\ from \in Folders /\ to \in Folders
      /\ mover.left \in SUBSET (Apps \X Paths) /\ at \in Paths /\ listed = <<a, at>>
  BY <1>0 DEF ProjectsInv, ProjectsTypes, MoverRecord
<1>3. from \in Paths /\ to \in Paths /\ from # Absent
  BY <1>2, PathFacts
<1> HIDE DEF at
<1>4. there \in Paths
  BY <1>2, <1>3, RenamedIsPath
<1>5. left \in SUBSET (Apps \X Paths) /\ left = mover.left \ {<<a, at>>}
  BY <1>2
<1> HIDE DEF there, left
<1>6. /\ mover' \in MoverRecord /\ mover'.at = "apps" /\ mover'.op = mover.op /\ mover'.from = mover.from
      /\ mover'.to = mover.to /\ mover'.left = left
  BY <1>1, <1>2, <1>5 DEF MoverRecord
<1>7. place' \in [Apps -> Paths] /\ place'[a] = there /\ \A b \in Apps : b # a => place'[b] = place[b]
  BY <1>1, <1>2, <1>4
<1>8. ProjectsTypes'
  BY <1>1, <1>6, <1>7 DEF ProjectsInv, ProjectsTypes
<1>9. ASSUME Fits PROVE Fits'
  <2>1. /\ journal # NoMove /\ ~Covers(from, to) /\ ~Covers(to, from) /\ to # Absent
        /\ AllListed(mover.left) /\ AsListed(mover.left)
    BY <1>1, <1>9 DEF Fits, ChangeFits, ResumeFits, MoveFits, IsMove
  <2>2. from # Root /\ to # Root /\ ~Covers(from, there) /\ Renamed(there, from, to) = there
    BY <1>2, <1>3, <2>1, RenamedOnce DEF there
  <2>3. a \in late \/ (a \in SettledApps /\ place[a] = at)
    BY <1>0, <1>2, <2>1 DEF AsListed
  <2>4. Renamed(AppPath(there, a), from, to) = Renamed(AppPath(at, a), from, to)
    <3>1. CASE Covers(from, at)
      <4>1. Renamed(AppPath(at, a), from, to) = AppPath(there, a)
        BY <1>2, <1>3, <2>2, <3>1, RenamedApp DEF there
      <4>2. AppPath(at, a) \in Paths
        BY <1>2, AppPathFacts
      <4> QED
        BY <1>3, <2>1, <4>1, <4>2, RenamedOnce
    <3>2. CASE ~Covers(from, at)
      BY <3>2, StillPath DEF there
    <3> QED
      BY <3>1, <3>2
  <2>5. \A b \in SettledApps' : b \in Apps /\ b \in SettledApps /\ (b = a => place[a] = at)
    BY <1>1, <1>7, <2>3 DEF SettledApps, Existing
  <2>6. FitsAfter(journal)'
    <3> SUFFICES ASSUME NEW b \in SettledApps'
                 PROVE  /\ Renamed(AppPath(place'[b], b), from, to) \notin AllRenamed(DOMAIN tree, from, to)
                        /\ Renamed(place'[b], from, to) \in AllRenamed(DOMAIN tree, from, to) \union {Root}
      BY <1>1 DEF FitsAfter
    <3>1. /\ Renamed(AppPath(place[b], b), from, to) \notin AllRenamed(DOMAIN tree, from, to)
          /\ Renamed(place[b], from, to) \in AllRenamed(DOMAIN tree, from, to) \union {Root}
      BY <1>9, <2>5 DEF Fits, MoveFits, FitsAfter
    <3>2. CASE b = a
      BY <1>7, <2>2, <2>4, <2>5, <3>1, <3>2 DEF there
    <3>3. CASE b # a
      BY <1>7, <2>5, <3>1, <3>3
    <3> QED
      BY <3>2, <3>3
  <2>7. \A b \in SettledApps' : Covers(from, place'[b]) =>
            b # a /\ b \in SettledApps /\ Covers(from, place[b]) /\ place'[b] = place[b]
    BY <1>7, <2>2, <2>5
  <2>8. MoveFits'
    <3>1. TreeBefore(journal) \/ TreeAfter(journal)
      BY <1>9, <2>1 DEF Fits, MoveFits
    <3>2. TreeBefore(journal) => TreeBefore(journal)'
      BY <1>1 DEF TreeBefore
    <3>3. TreeAfter(journal) => TreeAfter(journal)'
      BY <1>1, <2>7 DEF TreeAfter
    <3>4. IsMove(journal)'
      BY <1>1, <2>1 DEF IsMove
    <3> QED
      BY <2>6, <3>1, <3>2, <3>3, <3>4 DEF MoveFits
  <2>9. ResumeFits'
    <3>1. \A b \in SettledApps' : Covers(journal'.from, place'[b]) => <<b, place'[b]>> \in mover'.left
      BY <1>1, <1>5, <1>6, <2>1, <2>7 DEF AllListed
    <3>2. \A l \in left : l[1] \in late \/ (l[1] \in SettledApps' /\ l[2] = place'[l[1]])
      <4> SUFFICES ASSUME NEW l \in left, l[1] \notin late
                   PROVE  l[1] \in SettledApps' /\ l[2] = place'[l[1]]
        OBVIOUS
      <4>1. l[1] \in SettledApps /\ l[2] = place[l[1]] /\ l = <<l[1], l[2]>> /\ l[1] \in Apps
        BY <1>5, <2>1 DEF AsListed
      <4>2. l[1] # a
        BY <1>5, <2>3, <4>1
      <4> QED
        BY <1>1, <1>7, <4>1, <4>2 DEF SettledApps, Existing
    <3>3. AllListed(mover.left)' /\ AsListed(mover.left)'
      BY <1>1, <1>6, <3>1, <3>2 DEF AllListed, AsListed
    <3> QED
      BY <1>1, <1>6, <2>1, <3>3 DEF ResumeFits
  <2>10. RelocateFits'
    BY <1>6, <1>9 DEF Fits, ChangeFits, RelocateFits
  <2>11. CreateFits' /\ AppFits' /\ RemoveFits'
    BY <1>6 DEF CreateFits, AppFits, RemoveFits
  <2> QED
    BY <1>1, <1>9, <2>8, <2>9, <2>10, <2>11 DEF Fits, ChangeFits, Rooted
<1> QED
  BY <1>1, <1>8, <1>9 DEF ProjectsInv

LEMMA MovesTreeStep ==
    ASSUME ProjectsInv, MovesTree
    PROVE  ProjectsInv'
<1> DEFINE from == journal.from
           to == journal.to
           D == DOMAIN tree
           E == AllRenamed(D, from, to)
<1>1. /\ mover.at = "apps" /\ mover.left = {} /\ UNCHANGED <<place, permit, late, beside, journal>> /\ StepsTo("scopes")
      /\ tree' = (IF TreeMoves THEN TreeRenamed ELSE tree) /\ "scopes" \in MoverSteps
  BY DEF MovesTree, Quiet, MoverSteps
<1>2. /\ mover' \in MoverRecord /\ mover'.at = "scopes" /\ mover'.op = mover.op /\ mover'.from = mover.from
      /\ mover'.to = mover.to
  BY <1>1, StepsToFacts DEF ProjectsInv
<1>3. /\ from \in Paths /\ to \in Paths /\ D \in SUBSET Paths /\ Root \notin D /\ tree \in [D -> Settings]
      /\ journal # NoMove => from # Root /\ to # Root
  BY PathFacts DEF ProjectsInv, ProjectsTypes
<1>4. ASSUME TreeMoves PROVE tree' \in [E -> Settings] /\ E \in SUBSET Paths /\ Root \notin E
  <2>1. tree' = [p \in E |-> tree[CHOOSE q \in D : Renamed(q, from, to) = p]]
    BY <1>1, <1>4 DEF TreeRenamed, AllRenamed
  <2>2. \A p \in E : (CHOOSE q \in D : Renamed(q, from, to) = p) \in D
    BY DEF AllRenamed
  <2>3. journal # NoMove
    BY <1>3, <1>4 DEF TreeMoves, NoMove
  <2>4. ASSUME NEW q \in D PROVE Renamed(q, from, to) \in Paths \ {Root}
    <3>1. CASE Covers(from, q)
      <4> DEFINE r == Renamed(q, from, to)
      <4>1. q \in Paths /\ from # Root /\ to # Root
        BY <1>3, <2>3
      <4>2. r \in Paths /\ Covers(to, r)
        BY <1>3, <3>1, <4>1, MovedPath
      <4> HIDE DEF r
      <4>3. r # Root
        BY <1>3, <4>1, <4>2, CoversFacts
      <4> QED
        BY <4>2, <4>3 DEF r
    <3>2. CASE ~Covers(from, q)
      BY <1>3, <3>2, StillPath
    <3> QED
      BY <3>1, <3>2
  <2> QED
    BY <1>3, <2>1, <2>2, <2>4 DEF AllRenamed
<1>5. ProjectsTypes'
  <2>1. tree' \in [DOMAIN tree' -> Settings] /\ DOMAIN tree' \subseteq Paths \ {Root}
    <3> HIDE DEF E
    <3> QED
      BY <1>1, <1>3, <1>4
  <2> QED
    BY <1>1, <1>2, <2>1 DEF ProjectsInv, ProjectsTypes
<1>6. ASSUME Fits PROVE Fits'
  <2>1. /\ journal # NoMove /\ ~Covers(from, to) /\ ~Covers(to, from)
        /\ TreeBefore(journal) \/ TreeAfter(journal)
    BY <1>1, <1>6 DEF Fits, ChangeFits, ResumeFits, MoveFits, IsMove
  <2>2. \A a \in SettledApps : ~Covers(from, place[a])
    BY <1>1, <1>6 DEF Fits, ChangeFits, ResumeFits, AllListed
  <2>3. SettledApps' = SettledApps
    BY <1>1 DEF SettledApps, Existing
  <2>4. /\ Rooted(DOMAIN tree') /\ from \notin DOMAIN tree'
        /\ AllRenamed(DOMAIN tree', from, to) = AllRenamed(D, from, to)
    <3>1. CASE TreeMoves
      <4>1. from \in D /\ (Len(to) > 1 => Parent(to) \in D)
        BY <2>1, <3>1 DEF TreeMoves, TreeBefore, TreeAfter
      <4>2. DOMAIN tree' = E
        <5> HIDE DEF E
        <5> QED
          BY <1>4, <3>1
      <4>3. Rooted(E)
        BY <1>3, <1>6, <2>1, <4>1, RootedMoves DEF Fits
      <4>4. from \notin E /\ AllRenamed(E, from, to) = E
        BY <1>3, <2>1, AllRenamedFacts
      <4> QED
        BY <4>2, <4>3, <4>4
    <3>2. CASE ~TreeMoves
      <4>1. tree' = tree
        BY <1>1, <3>2
      <4> QED
        BY <1>6, <2>1, <3>2, <4>1 DEF Fits, TreeMoves, TreeBefore, TreeAfter
    <3> QED
      BY <3>1, <3>2
  <2>5. FitsAfter(journal)'
    BY <1>1, <1>6, <2>3, <2>4 DEF Fits, MoveFits, FitsAfter
  <2>6. TreeAfter(journal)' /\ IsMove(journal)'
    BY <1>1, <1>6, <2>1, <2>2, <2>3, <2>4 DEF TreeAfter, IsMove, Fits, MoveFits
  <2>7. ResumeFits'
    BY <1>1, <1>2, <2>1, <2>6 DEF ResumeFits
  <2>8. RelocateFits'
    BY <1>2, <1>6 DEF Fits, ChangeFits, RelocateFits
  <2>9. CreateFits' /\ AppFits' /\ RemoveFits'
    BY <1>2 DEF CreateFits, AppFits, RemoveFits
  <2>10. MoveFits'
    BY <2>5, <2>6 DEF MoveFits
  <2>11. Rooted(DOMAIN tree)'
    BY <2>4 DEF Rooted
  <2> QED
    BY <2>7, <2>8, <2>9, <2>10, <2>11 DEF Fits, ChangeFits
<1> QED
  BY <1>1, <1>5, <1>6 DEF ProjectsInv

\* Where no move is left.
LEMMA QuietFits ==
    ASSUME journal' = NoMove, Rooted(DOMAIN tree'), ChangeFits',
           \A a \in SettledApps' : AppPath(place'[a], a) \notin DOMAIN tree' /\ place'[a] \in DOMAIN tree' \union {Root}
    PROVE  Fits'
BY NoMoveRenames DEF Fits, MoveFits, FitsAfter, Rooted

LEMMA EndsStep ==
    ASSUME ProjectsInv, EndsRelocation
    PROVE  ProjectsInv'
<1>1. /\ mover.at = "clear" /\ UNCHANGED <<tree, place, permit, late, beside>> /\ journal' = NoMove
      /\ (LetsGo \/ StepsTo("check")) /\ "check" \in MoverSteps
  BY DEF EndsRelocation, Quiet, MoverSteps
<1>2. /\ mover' \in MoverRecord
      /\ \/ mover'.op = "none" /\ mover'.at = "idle"
         \/ /\ mover'.at = "check" /\ mover'.op = mover.op /\ mover'.from = mover.from /\ mover'.to = mover.to
  <2>1. CASE LetsGo
    BY <2>1, NoMoverIs DEF LetsGo
  <2>2. CASE StepsTo("check") /\ "check" \in MoverSteps
    BY <2>2, StepsToFacts DEF ProjectsInv
  <2> QED
    BY <1>1, <2>1, <2>2
<1>3. ProjectsTypes'
  BY <1>1, <1>2, NoMoveRenames DEF ProjectsInv, ProjectsTypes
<1>4. ASSUME Fits PROVE Fits'
  <2>1. journal # NoMove /\ TreeAfter(journal) /\ IsMove(journal) /\ FitsAfter(journal) /\ Rooted(DOMAIN tree)
    BY <1>1, <1>4 DEF Fits, ChangeFits, ResumeFits, MoveFits
  <2>2. FitsAfter(NoMove)
    BY <2>1, FitsMoved DEF ProjectsInv
  <2>3. \A a \in SettledApps' : AppPath(place'[a], a) \notin DOMAIN tree' /\ place'[a] \in DOMAIN tree' \union {Root}
    BY <1>1, <2>2, FitsUnmoved DEF SettledApps, Existing
  <2>4. ChangeFits'
    BY <1>1, <1>2, <1>4 DEF Fits, ChangeFits, CreateFits, AppFits, RelocateFits, RemoveFits, ResumeFits
  <2> QED
    BY <1>1, <2>1, <2>3, <2>4, QuietFits
<1> QED
  BY <1>1, <1>3, <1>4 DEF ProjectsInv

-----------------------------------------------------------------------------
(* The other changes.                                                       *)

LEMMA InsertsStep ==
    ASSUME ProjectsInv, Inserts
    PROVE  ProjectsInv'
<1>1. /\ mover.op = "create" /\ mover.at = "insert" /\ LetsGo /\ UNCHANGED <<place, journal, permit, late>>
      /\ mover'.op = "none" /\ mover'.at = "idle" /\ mover' \in MoverRecord
  BY NoMoverIs DEF Inserts, MoverAt, Quiet, LetsGo
<1>2. CASE UNCHANGED <<tree, beside>>
  BY <1>1, <1>2, LetsGoStep
<1>3. CASE /\ mover.to \notin DOMAIN tree /\ Parent(mover.to) \in DOMAIN tree \union {Root}
           /\ tree' = [p \in DOMAIN tree \union {mover.to} |->
                          IF p = mover.to THEN [locked |-> FALSE, gate |-> "unset"] ELSE tree[p]]
           /\ beside' = IF journal # NoMove THEN beside \union {"project"} ELSE beside
  <2> DEFINE no == FALSE
             new == [locked |-> no, gate |-> "unset"]
             D == DOMAIN tree
  <2>1. no \in BOOLEAN
    OBVIOUS
  <2>2. tree' = [p \in D \union {mover.to} |-> IF p = mover.to THEN new ELSE tree[p]]
    BY <1>3, Zenon
  <2> HIDE DEF no
  <2>3. new \in Settings
    BY <2>1 DEF Settings
  <2> HIDE DEF new
  <2>4. tree \in [D -> Settings] /\ D \in SUBSET Paths /\ Root \notin D /\ mover.to \in ProjectPaths
    BY <1>1 DEF ProjectsInv, ProjectsTypes
  <2>5. mover.to \in Paths /\ mover.to # Root
    BY <2>4, PathFacts
  <2>6. tree' \in [D \union {mover.to} -> Settings] /\ DOMAIN tree' = D \union {mover.to}
    BY <2>2, <2>3, <2>4
  <2>7. ProjectsTypes'
    <3>1. DOMAIN tree' \subseteq Paths \ {Root}
      BY <2>4, <2>5, <2>6
    <3>2. tree' \in [DOMAIN tree' -> Settings]
      BY <2>6
    <3> QED
      BY <1>1, <3>1, <3>2 DEF ProjectsInv, ProjectsTypes
  <2>8. ASSUME "project" \notin beside' PROVE Fits'
    <3>1. journal = NoMove /\ Fits
      BY <1>3, <2>8 DEF ProjectsInv
    <3>2. Rooted(DOMAIN tree')
      BY <1>3, <2>4, <2>5, <2>6, <3>1, RootedAdds DEF Fits
    <3>3. \A a \in SettledApps' : AppPath(place'[a], a) # mover.to
      BY <1>1, <3>1 DEF Fits, ChangeFits, CreateFits, AppPaths, SettledApps, Existing
    <3>4. \A a \in SettledApps' : AppPath(place'[a], a) \notin D /\ place'[a] \in D \union {Root}
      BY <1>1, <3>1, FitsUnmoved DEF Fits, MoveFits, SettledApps, Existing
    <3>5. ChangeFits'
      BY <1>1, IdleFits
    <3> QED
      BY <1>1, <2>6, <3>1, <3>2, <3>3, <3>4, <3>5, QuietFits
  <2> QED
    BY <2>7, <2>8 DEF ProjectsInv
<1> QED
  BY <1>2, <1>3 DEF Inserts

LEMMA NamesProjectStep ==
    ASSUME ProjectsInv, NamesProject
    PROVE  ProjectsInv'
<1> DEFINE a == mover.app
           to == mover.to
<1>1. /\ mover.op = "app" /\ mover.at = "meta" /\ StepsTo("rows") /\ "rows" \in MoverSteps
      /\ UNCHANGED <<tree, journal, permit, late, beside>> /\ place' = [place EXCEPT ![a] = to]
  BY DEF NamesProject, MoverAt, Quiet, MoverSteps
<1>2. mover \in MoverRecord /\ place \in [Apps -> Paths]
  BY DEF ProjectsInv, ProjectsTypes
<1>3. a \in Apps /\ to \in Paths
  BY <1>2, PathFacts DEF MoverRecord
<1>4. place' \in [Apps -> Paths] /\ place'[a] = to /\ \A b \in Apps : b # a => place'[b] = place[b]
  BY <1>1, <1>2, <1>3
<1>5. mover' \in MoverRecord /\ mover'.op = "app" /\ mover'.at = "rows"
  BY <1>1, StepsToFacts DEF ProjectsInv
<1>6. ProjectsTypes'
  BY <1>1, <1>4, <1>5 DEF ProjectsInv, ProjectsTypes
<1>7. ASSUME Fits PROVE Fits'
  <2>1. journal = NoMove /\ to \in DOMAIN tree \union {Root} /\ AppPath(to, a) \notin DOMAIN tree
    BY <1>1, <1>7 DEF Fits, ChangeFits, ResumeFits, AppFits
  <2>2. \A b \in SettledApps : AppPath(place[b], b) \notin DOMAIN tree /\ place[b] \in DOMAIN tree \union {Root}
    BY <1>7, <2>1, FitsUnmoved DEF Fits, MoveFits
  <2>3. \A b \in SettledApps' : b = a \/ (b \in SettledApps /\ place'[b] = place[b])
    <3>1. late' = late
      BY <1>1
    <3> HIDE DEF a, to
    <3> TAKE b \in SettledApps'
    <3>2. b \in Apps /\ place'[b] # Absent /\ b \notin late
      BY <3>1 DEF SettledApps, Existing
    <3>3. b # a => place'[b] = place[b]
      BY <1>4, <3>2
    <3> QED
      BY <3>2, <3>3 DEF SettledApps, Existing
  <2>4. \A b \in SettledApps' : AppPath(place'[b], b) \notin DOMAIN tree' /\ place'[b] \in DOMAIN tree' \union {Root}
    BY <1>1, <1>4, <2>1, <2>2, <2>3
  <2>5. ChangeFits'
    BY <1>1, <1>5, <2>1 DEF ChangeFits, CreateFits, AppFits, RelocateFits, RemoveFits, ResumeFits
  <2> QED
    BY <1>1, <1>7, <2>1, <2>4, <2>5, QuietFits DEF Fits
<1> QED
  BY <1>1, <1>6, <1>7 DEF ProjectsInv

LEMMA RemovesProjectStep ==
    ASSUME ProjectsInv, RemovesProject
    PROVE  ProjectsInv'
<1> DEFINE from == mover.from
           D == DOMAIN tree
<1>1. /\ mover.op = "remove" /\ mover.at = "tree" /\ LetsGo /\ UNCHANGED <<place, journal, permit, late, beside>>
      /\ mover'.op = "none" /\ mover'.at = "idle" /\ mover' \in MoverRecord
      /\ tree' = [p \in D \ {from} |-> tree[p]]
  BY NoMoverIs DEF RemovesProject, MoverAt, Quiet, LetsGo
<1>2. tree \in [D -> Settings] /\ D \in SUBSET Paths /\ Root \notin D /\ from \in Paths
  BY DEF ProjectsInv, ProjectsTypes, MoverRecord
<1>3. tree' \in [D \ {from} -> Settings] /\ DOMAIN tree' = D \ {from}
  BY <1>1, <1>2
<1>4. ProjectsTypes'
  <2>1. DOMAIN tree' \subseteq Paths \ {Root} /\ tree' \in [DOMAIN tree' -> Settings]
    BY <1>2, <1>3
  <2> QED
    BY <1>1, <2>1 DEF ProjectsInv, ProjectsTypes
<1>5. ASSUME Fits PROVE Fits'
  <2>1. /\ journal = NoMove /\ \A p \in D \ {from} : ~Covers(from, p)
        /\ \A a \in SettledApps : place[a] = Root \/ ~Covers(from, place[a])
    BY <1>1, <1>5 DEF Fits, ChangeFits, ResumeFits, RemoveFits
  <2>2. Rooted(DOMAIN tree')
    BY <1>2, <1>3, <1>5, <2>1, RootedLoses DEF Fits
  <2>3. Covers(from, from)
    BY <1>2, CoversFacts
  <2>4. \A a \in SettledApps : AppPath(place[a], a) \notin D /\ place[a] \in D \union {Root}
    BY <1>5, <2>1, FitsUnmoved DEF Fits, MoveFits
  <2>5. \A a \in SettledApps' : AppPath(place'[a], a) \notin DOMAIN tree' /\ place'[a] \in DOMAIN tree' \union {Root}
    BY <1>1, <1>3, <2>1, <2>3, <2>4 DEF SettledApps, Existing
  <2>6. ChangeFits'
    BY <1>1, IdleFits
  <2> QED
    BY <1>1, <2>1, <2>2, <2>5, <2>6, QuietFits
<1> QED
  BY <1>1, <1>4, <1>5 DEF ProjectsInv

LEMMA FailingStep ==
    ASSUME ProjectsInv, ChangeFails \/ RowsFollow
    PROVE  ProjectsInv'
BY LetsGoStep DEF ChangeFails, RowsFollow, Quiet

-----------------------------------------------------------------------------

\* The types hold at every step; and until a project is created while a move is
\* left in its journal, so does all that changes under way count on (the guards of
\* projects.rs hold until the steps that go by them).
THEOREM ProjectsInvariance == ProjectsSpec => []ProjectsInv
<1>1. ProjectsInit => ProjectsInv
  <2> SUFFICES ASSUME ProjectsInit PROVE ProjectsInv
    OBVIOUS
  <2> DEFINE no == FALSE
             new == [locked |-> no, gate |-> "unset"]
  <2>1. PICK ps \in SUBSET ProjectPaths :
           /\ \A p \in ps : Len(p) > 1 => Parent(p) \in ps
           /\ tree = [p \in ps |-> new]
    BY Zenon DEF ProjectsInit
  <2>2. no \in BOOLEAN
    OBVIOUS
  <2> HIDE DEF no
  <2>3. new \in Settings
    BY <2>2 DEF Settings
  <2> HIDE DEF new
  <2>4. tree \in [ps -> Settings] /\ DOMAIN tree = ps /\ ps \in SUBSET Paths /\ Root \notin ps
    BY <2>1, <2>3, PathFacts
  <2>5. Rooted(ps)
    BY <2>1, <2>4, ParentsRooted
  <2>6. place \in [Apps -> Paths]
    BY <2>4, PathFacts DEF ProjectsInit
  <2>7. /\ journal = NoMove /\ mover = NoMover /\ permit = [p \in Publishers |-> NoPermit] /\ late = {} /\ beside = {}
        /\ \A a \in Existing : AppPath(place[a], a) \notin DOMAIN tree
        /\ place \in [Apps -> DOMAIN tree \union {Root, Absent}]
    BY DEF ProjectsInit
  <2>8. permit \in [Publishers -> PermitRecord]
    BY <2>7, NoMoverIs
  <2>9. ProjectsTypes
    <3>1. DOMAIN tree \subseteq Paths \ {Root} /\ tree \in [DOMAIN tree -> Settings]
      BY <2>4
    <3> QED
      BY <2>6, <2>7, <2>8, <3>1, NoMoverIs, NoMoveRenames DEF ProjectsTypes
  <2>10. \A a \in SettledApps : AppPath(place[a], a) \notin DOMAIN tree /\ place[a] \in DOMAIN tree \union {Root}
    BY <2>7 DEF SettledApps, Existing
  <2>11. MoveFits
    BY <2>7, <2>10, FitsUnmoved DEF MoveFits
  <2>12. ChangeFits
    BY <2>7, NoMoverIs DEF ChangeFits, CreateFits, AppFits, RelocateFits, RemoveFits, ResumeFits
  <2> QED
    BY <2>4, <2>5, <2>9, <2>11, <2>12 DEF ProjectsInv, Fits
<1>2. ProjectsInv /\ [ProjectsNext]_projectsVars => ProjectsInv'
  <2> SUFFICES ASSUME ProjectsInv, [ProjectsNext]_projectsVars PROVE ProjectsInv'
    OBVIOUS
  <2>1. CASE \/ \E r \in RowPaths : SetsRow(r)
             \/ \E p \in ProjectPaths : SetsLock(p) \/ \E g \in {"unset", "public", "restricted"} : SetsGate(p, g)
    BY <2>1, SettingStep
  <2>2. CASE \/ \E p \in ProjectPaths : CreateProject(p) \/ RemoveProject(p) \/ \E q \in ProjectPaths : Relocate(p, q)
             \/ \E a \in Apps, f \in Folders : MoveApp(a, f)
             \/ Boots
    BY <2>2, AskingStep
  <2>3. CASE \E p \in Publishers :
                \/ \E a \in Apps, f \in Folders : Asks(p, a, f)
                \/ Arrives(p) \/ ForgetsMeta(p) \/ StoresFiles(p) \/ ForgetsAccess(p) \/ Stamps(p) \/ GivesUp(p)
    BY <2>3, PublishStep
  <2>4. CASE ChangeFails \/ RowsFollow
    BY <2>4, FailingStep
  <2>5. CASE Resumes
    BY <2>5, ResumesStep
  <2>6. CASE ListsApps
    BY <2>6, ListsAppsStep
  <2>7. CASE \E a \in Apps : MovesOne(a)
    BY <2>7, MovesOneStep
  <2>8. CASE MovesTree
    BY <2>8, MovesTreeStep
  <2>9. CASE MovesScopes
    BY <2>9, MovesScopesStep
  <2>10. CASE EndsRelocation
    BY <2>10, EndsStep
  <2>11. CASE ChecksCreate
    BY <2>11, ChecksCreateStep
  <2>12. CASE Inserts
    BY <2>12, InsertsStep
  <2>13. CASE ChecksApp
    BY <2>13, ChecksAppStep
  <2>14. CASE NamesProject
    BY <2>14, NamesProjectStep
  <2>15. CASE ChecksRelocate
    BY <2>15, ChecksRelocateStep
  <2>16. CASE SweepsRows
    BY <2>16, SweepsRowsStep
  <2>17. CASE BeginsRelocation
    BY <2>17, BeginsStep
  <2>18. CASE ChecksRemove
    BY <2>18, ChecksRemoveStep
  <2>19. CASE RemovesRows
    BY <2>19, RemovesRowsStep
  <2>20. CASE RemovesProject
    BY <2>20, RemovesProjectStep
  <2>21. CASE UNCHANGED projectsVars
    <3>1. UNCHANGED <<tree, place, journal, mover, permit, beside, late>>
      BY <2>21 DEF projectsVars
    <3>2. permit' \in [Publishers -> PermitRecord]
      BY <3>1 DEF ProjectsInv, ProjectsTypes
    <3> QED
      BY <3>1, <3>2, PermitInv
  <2> QED
    BY <2>1, <2>2, <2>3, <2>4, <2>5, <2>6, <2>7, <2>8, <2>9, <2>10, <2>11, <2>12, <2>13, <2>14, <2>15, <2>16, <2>17,
       <2>18, <2>19, <2>20, <2>21 DEF ProjectsNext
<1> QED
  BY <1>1, <1>2, PTL DEF ProjectsSpec

\* Every project has its settings, and a journal names two folders of the tree.
THEOREM ProjectsTypeCorrect == ProjectsSpec => []ProjectsTypeOK
<1>1. ProjectsInv => ProjectsTypeOK
  BY DEF ProjectsInv, ProjectsTypes, ProjectsTypeOK
<1> QED
  BY <1>1, ProjectsInvariance, PTL

\* No project comes to have an app's path and no app is left naming a project that
\* is not there, whichever creates, moves and removals are made, wherever they
\* fail and in whatever order what is left of them is finished.
THEOREM AppsFit == ProjectsSpec => []AppsFitTheTree
<1>1. ProjectsInv => AppsFitTheTree
  <2> SUFFICES ASSUME ProjectsInv, "project" \notin beside
               PROVE  \A a \in SettledApps : /\ AppPath(place[a], a) \notin DOMAIN tree
                                             /\ journal = NoMove => place[a] \in DOMAIN tree \union {Root}
    BY DEF AppsFitTheTree, AppPaths, SettledApps
  <2>1. Fits
    BY DEF ProjectsInv
  <2> TAKE a \in SettledApps
  <2>2. AppPath(place[a], a) \in DOMAIN tree =>
           Renamed(AppPath(place[a], a), journal.from, journal.to) \in AllRenamed(DOMAIN tree, journal.from, journal.to)
    BY DEF AllRenamed
  <2>3. AppPath(place[a], a) \notin DOMAIN tree
    BY <2>1, <2>2 DEF Fits, MoveFits, FitsAfter
  <2>4. journal = NoMove => place[a] \in DOMAIN tree \union {Root}
    BY <2>1, FitsUnmoved DEF Fits, MoveFits
  <2> QED
    BY <2>3, <2>4
<1> QED
  BY <1>1, ProjectsInvariance, PTL

-----------------------------------------------------------------------------
(* What a move opens on the way.                                             *)

\* Until the tree has moved there is no row where it is going.
RowsInv ==
    /\ access \subseteq Paths
    /\ beside = {} =>
          /\ journal # NoMove /\ journal.from \in DOMAIN tree => \A r \in access : ~Covers(journal.to, r)
          /\ mover.op = "project" /\ mover.at = "begin" => \A r \in access : ~Covers(mover.to, r)

\* Whatever gives no row and begins no move.
LEMMA RowsStay ==
    ASSUME RowsInv, access' \subseteq access, beside' = {} => beside = {},
           beside' = {} /\ journal' # NoMove /\ journal'.from \in DOMAIN tree' =>
               journal' = journal /\ journal.from \in DOMAIN tree,
           mover'.at = "begin" => mover' = mover
    PROVE  RowsInv'
<1>1. access' \subseteq Paths
  BY DEF RowsInv
<1>2. ASSUME beside' = {}, journal' # NoMove, journal'.from \in DOMAIN tree', NEW r \in access'
      PROVE  ~Covers(journal'.to, r)
  BY <1>2 DEF RowsInv
<1>3. ASSUME beside' = {}, mover'.op = "project", mover'.at = "begin", NEW r \in access'
      PROVE  ~Covers(mover'.to, r)
  BY <1>3 DEF RowsInv
<1> QED
  BY <1>1, <1>2, <1>3 DEF RowsInv

\* Whatever leaves rows, tree and journal as they are.
LEMMA RowsUntouched ==
    ASSUME RowsInv, UNCHANGED <<access, tree, journal, beside>>, mover'.at = "begin" => mover' = mover
    PROVE  RowsInv'
BY RowsStay

\* A row set where a move is going is one the property leaves out.
LEMMA RowsSets ==
    ASSUME ProjectsInv, RowsInv,
           \/ \E r \in RowPaths : SetsRow(r)
           \/ \E p \in ProjectPaths : SetsLock(p) \/ \E g \in {"unset", "public", "restricted"} : SetsGate(p, g)
    PROVE  RowsInv'
<1>1. ASSUME NEW r \in RowPaths, SetsRow(r) PROVE RowsInv'
  <2>1. UNCHANGED <<tree, journal, mover>> /\ (beside' = {} => beside = {})
    BY <1>1 DEF SetsRow, Sets
  <2>2. CASE r \in access
    <3>1. access' \subseteq access
      BY <1>1, <2>2 DEF SetsRow
    <3> QED
      BY <2>1, <3>1, RowsStay
  <2>3. CASE r \notin access
    <3>1. access' = access \union {r}
      BY <1>1, <2>3 DEF SetsRow
    <3>2. beside' = {} => \A to \in {mover.to, journal.to} : to # Root => ~Covers(to, r)
      BY <1>1, <2>3 DEF SetsRow
    <3>3. r \in Paths
      BY PathFacts, AppPathFacts DEF RowPaths
    <3>4. journal # NoMove => journal.to # Root
      BY PathFacts DEF ProjectsInv, ProjectsTypes
    <3>5. mover.op = "project" => mover.to # Root
      BY PathFacts DEF ProjectsInv, ProjectsTypes
    <3> QED
      BY <2>1, <3>1, <3>2, <3>3, <3>4, <3>5 DEF RowsInv
  <2> QED
    BY <2>2, <2>3
<1>2. ASSUME NEW p \in ProjectPaths, SetsLock(p) PROVE RowsInv'
  <2>1. UNCHANGED <<access, journal, mover, beside>> /\ DOMAIN tree' = DOMAIN tree
    BY <1>2 DEF SetsLock, Sets
  <2> QED
    BY <2>1, RowsStay
<1>3. ASSUME NEW p \in ProjectPaths, NEW g \in {"unset", "public", "restricted"}, SetsGate(p, g) PROVE RowsInv'
  <2>1. UNCHANGED <<access, journal, mover, beside>> /\ DOMAIN tree' = DOMAIN tree
    BY <1>3 DEF SetsGate, Sets
  <2> QED
    BY <2>1, RowsStay
<1> QED
  BY <1>1, <1>2, <1>3

\* First publishes give none.
LEMMA RowsPublish ==
    ASSUME RowsInv, NEW p \in Publishers,
           \/ \E a \in Apps, f \in Folders : Asks(p, a, f)
           \/ Arrives(p) \/ ForgetsMeta(p) \/ StoresFiles(p) \/ ForgetsAccess(p) \/ Stamps(p) \/ GivesUp(p)
    PROVE  RowsInv'
<1>1. UNCHANGED <<tree, journal, mover, beside>> /\ access' \subseteq access
  BY DEF Asks, Arrives, ForgetsMeta, StoresFiles, ForgetsAccess, Stamps, GivesUp
<1> QED
  BY <1>1, RowsStay

LEMMA RowsAsked ==
    ASSUME RowsInv,
           \/ \E p \in ProjectPaths : CreateProject(p) \/ RemoveProject(p) \/ \E q \in ProjectPaths : Relocate(p, q)
           \/ \E a \in Apps, f \in Folders : MoveApp(a, f)
           \/ Boots
    PROVE  RowsInv'
<1>1. ASSUME NEW op, NEW at \in {"check", "resume"}, NEW a, NEW from, NEW to, HoldsRelocations(op, at, a, from, to)
      PROVE  RowsInv'
  <2> DEFINE no == FALSE
  <2>1. NoMover = [op |-> "none", at |-> "idle", app |-> AnyApp, from |-> Root, to |-> Root, left |-> {}, goes |-> no]
    BY Zenon DEF NoMover
  <2> HIDE DEF no
  <2>2. UNCHANGED <<access, tree, journal, beside>> /\ mover'.at = at
    BY <1>1, <2>1 DEF HoldsRelocations
  <2> QED
    BY <2>2, RowsUntouched
<1>2. ASSUME NEW p \in ProjectPaths, CreateProject(p) PROVE RowsInv'
  BY <1>1, <1>2 DEF CreateProject
<1>3. ASSUME NEW p \in ProjectPaths, RemoveProject(p) PROVE RowsInv'
  BY <1>1, <1>3 DEF RemoveProject
<1>4. ASSUME NEW p \in ProjectPaths, NEW q \in ProjectPaths, Relocate(p, q) PROVE RowsInv'
  BY <1>1, <1>4 DEF Relocate
<1>5. ASSUME NEW a \in Apps, NEW f \in Folders, MoveApp(a, f) PROVE RowsInv'
  BY <1>1, <1>5 DEF MoveApp
<1>6. CASE Boots
  BY <1>1, <1>6 DEF Boots
<1> QED
  BY <1>2, <1>3, <1>4, <1>5, <1>6

LEMMA RowsGoOn ==
    ASSUME ProjectsInv, RowsInv,
           \/ ChangeFails \/ Resumes \/ ListsApps \/ (\E a \in Apps : MovesOne(a)) \/ ChecksCreate \/ ChecksApp \/ NamesProject
           \/ ChecksRelocate \/ ChecksRemove
    PROVE  RowsInv'
<1>1. UNCHANGED <<access, tree, journal, beside>>
  BY DEF ChangeFails, Resumes, ListsApps, MovesOne, ChecksCreate, ChecksApp, NamesProject, ChecksRelocate, ChecksRemove
<1>2. mover \in MoverRecord /\ NoMover.at = "idle"
  BY NoMoverIs DEF ProjectsInv, ProjectsTypes
<1>3. mover'.at # "begin"
  <2>1. CASE ChangeFails
    BY <1>2, <2>1 DEF ChangeFails, LetsGo
  <2>2. CASE Resumes
    BY <1>2, <2>2 DEF Resumes, LetsGo, StepsTo, MoverRecord
  <2>3. CASE ListsApps
    <3> DEFINE left == {<<a, place[a]>> : a \in
                            {b \in Existing : place[b] # Root /\ Covers(journal.from, place[b])}}
    <3>1. mover' = [mover EXCEPT !.at = "apps", !.left = left]
      BY <2>3 DEF ListsApps
    <3> HIDE DEF left
    <3> QED
      BY <1>2, <3>1 DEF MoverRecord
  <2>4. ASSUME NEW a \in Apps, MovesOne(a) PROVE mover'.at # "begin"
    BY <1>2, <2>4 DEF MovesOne, MoverRecord
  <2>5. CASE ChecksCreate
    BY <1>2, <2>5 DEF ChecksCreate, LetsGo, StepsTo, MoverRecord
  <2>6. CASE ChecksApp
    BY <1>2, <2>6 DEF ChecksApp, LetsGo, StepsTo, MoverRecord
  <2>7. CASE NamesProject
    BY <1>2, <2>7 DEF NamesProject, LetsGo, StepsTo, MoverRecord
  <2>8. CASE ChecksRelocate
    BY <1>2, <2>8 DEF ChecksRelocate, LetsGo, StepsTo, MoverRecord
  <2>9. CASE ChecksRemove
    BY <1>2, <2>9 DEF ChecksRemove, LetsGo, StepsTo, MoverRecord
  <2> QED
    BY <2>1, <2>2, <2>3, <2>4, <2>5, <2>6, <2>7, <2>8, <2>9
<1> QED
  BY <1>1, <1>3, RowsUntouched

\* A move's rows come after its tree.
LEMMA RowsMove ==
    ASSUME ProjectsInv, ProjectsInv', RowsInv,
           \/ MovesTree \/ MovesScopes \/ EndsRelocation \/ Inserts \/ RowsFollow \/ SweepsRows \/ BeginsRelocation
           \/ RemovesRows \/ RemovesProject
    PROVE  RowsInv'
<1>1. mover \in MoverRecord /\ NoMover.at = "idle" /\ access \subseteq Paths
  BY NoMoverIs DEF ProjectsInv, ProjectsTypes, RowsInv
<1>2. journal.from \in Paths /\ journal.to \in Paths
  BY PathFacts DEF ProjectsInv, ProjectsTypes
<1>3. /\ beside = {} => Fits
      /\ beside' = {} => Fits'
  BY DEF ProjectsInv
<1>4. CASE MovesTree
  <2>1. UNCHANGED <<access, journal, beside>> /\ mover'.at = "scopes"
    BY <1>1, <1>4 DEF MovesTree, StepsTo, MoverRecord
  <2>2. beside' = {} => journal'.from \notin DOMAIN tree'
    BY <1>3, <2>1 DEF Fits, ChangeFits, ResumeFits, TreeAfter
  <2> QED
    BY <2>1, <2>2, RowsStay
<1>5. CASE MovesScopes
  <2>1. /\ UNCHANGED <<tree, journal, beside>> /\ mover'.at = "clear" /\ mover.at = "scopes"
        /\ access' = {Renamed(r, journal.from, journal.to) : r \in access}
    BY <1>1, <1>5 DEF MovesScopes, StepsTo, MoverRecord
  <2>2. beside = {} => journal.from \notin DOMAIN tree
    BY <1>3, <2>1 DEF Fits, ChangeFits, ResumeFits, TreeAfter
  <2>3. access' \subseteq Paths
    BY <1>1, <1>2, <2>1, RenamedIsPath
  <2> QED
    BY <2>1, <2>2, <2>3 DEF RowsInv
<1>6. CASE EndsRelocation
  <2>1. UNCHANGED <<access, beside>> /\ journal' = NoMove /\ mover'.at # "begin"
    BY <1>1, <1>6 DEF EndsRelocation, StepsTo, LetsGo, MoverRecord
  <2> QED
    BY <2>1, RowsStay
<1>7. CASE Inserts
  <2>1. UNCHANGED <<access, journal>> /\ mover'.at # "begin" /\ (beside' = {} => beside = {})
    BY <1>1, <1>7 DEF Inserts, LetsGo
  <2>2. beside' = {} /\ journal # NoMove => tree' = tree
    BY <1>7 DEF Inserts
  <2> QED
    BY <2>1, <2>2, RowsStay
<1>8. CASE RowsFollow
  <2>1. /\ mover.op = "app" /\ mover.at = "rows" /\ UNCHANGED <<tree, journal, beside>> /\ mover'.at # "begin"
        /\ access' = {IF r = mover.from THEN AppPath(mover.to, mover.app) ELSE r : r \in access}
    BY <1>1, <1>8 DEF RowsFollow, MoverAt, LetsGo
  <2>2. beside = {} => journal = NoMove
    BY <1>3, <2>1 DEF Fits, ChangeFits, ResumeFits
  <2>3. AppPath(mover.to, mover.app) \in Paths
    BY <1>1, PathFacts, AppPathFacts DEF MoverRecord
  <2>4. access' \subseteq Paths
    BY <1>1, <2>1, <2>3
  <2> QED
    BY <2>1, <2>2, <2>4 DEF RowsInv
<1>9. CASE SweepsRows
  <2>1. /\ access' = {r \in access : ~Covers(mover.to, r)} /\ UNCHANGED <<tree, journal, beside>>
        /\ mover'.to = mover.to
    BY <1>1, <1>9 DEF SweepsRows, StepsTo, MoverRecord
  <2> QED
    BY <2>1 DEF RowsInv
<1>10. CASE BeginsRelocation
  <2> DEFINE yes == TRUE
  <2>1. mover' = [mover EXCEPT !.at = "list", !.goes = yes]
    BY <1>10, Zenon DEF BeginsRelocation
  <2> HIDE DEF yes
  <2>2. /\ UNCHANGED <<access, tree, beside>> /\ mover'.at = "list" /\ journal'.to = mover.to
        /\ mover.op = "project" /\ mover.at = "begin"
    BY <1>1, <1>10, <2>1 DEF BeginsRelocation, MoverAt, MoverRecord
  <2> QED
    BY <2>2 DEF RowsInv
<1>11. CASE RemovesRows
  <2>1. UNCHANGED <<tree, journal, beside>> /\ mover'.at = "tree" /\ access' \subseteq access
    BY <1>1, <1>11 DEF RemovesRows, StepsTo, MoverRecord
  <2> QED
    BY <2>1, RowsStay
<1>12. CASE RemovesProject
  <2>1. UNCHANGED <<access, journal, beside>> /\ mover'.at = "idle" /\ DOMAIN tree' \subseteq DOMAIN tree
    BY <1>1, <1>12 DEF RemovesProject, LetsGo
  <2> QED
    BY <2>1, RowsStay
<1> QED
  BY <1>4, <1>5, <1>6, <1>7, <1>8, <1>9, <1>10, <1>11, <1>12

\* RowsInv holds of every reachable state.
LEMMA RowsInvariance == ProjectsSpec => []RowsInv
<1>1. ProjectsInit => RowsInv
  BY DEF ProjectsInit, RowsInv
<1>2. ProjectsInv /\ ProjectsInv' /\ RowsInv /\ [ProjectsNext]_projectsVars => RowsInv'
  <2> SUFFICES ASSUME ProjectsInv, ProjectsInv', RowsInv, [ProjectsNext]_projectsVars PROVE RowsInv'
    OBVIOUS
  <2>1. CASE \/ \E r \in RowPaths : SetsRow(r)
             \/ \E p \in ProjectPaths : SetsLock(p) \/ \E g \in {"unset", "public", "restricted"} : SetsGate(p, g)
    BY <2>1, RowsSets
  <2>2. CASE \/ \E p \in ProjectPaths : CreateProject(p) \/ RemoveProject(p) \/ \E q \in ProjectPaths : Relocate(p, q)
             \/ \E a \in Apps, f \in Folders : MoveApp(a, f)
             \/ Boots
    BY <2>2, RowsAsked
  <2>3. CASE \E p \in Publishers :
                \/ \E a \in Apps, f \in Folders : Asks(p, a, f)
                \/ Arrives(p) \/ ForgetsMeta(p) \/ StoresFiles(p) \/ ForgetsAccess(p) \/ Stamps(p) \/ GivesUp(p)
    BY <2>3, RowsPublish
  <2>4. CASE \/ MovesTree \/ MovesScopes \/ EndsRelocation \/ Inserts \/ RowsFollow \/ SweepsRows \/ BeginsRelocation
             \/ RemovesRows \/ RemovesProject
    BY <2>4, RowsMove
  <2>5. CASE \/ ChangeFails \/ Resumes \/ ListsApps \/ (\E a \in Apps : MovesOne(a)) \/ ChecksCreate \/ ChecksApp
             \/ NamesProject \/ ChecksRelocate \/ ChecksRemove
    BY <2>5, RowsGoOn
  <2>6. CASE UNCHANGED projectsVars
    BY <2>6, RowsUntouched DEF projectsVars
  <2> QED
    BY <2>1, <2>2, <2>3, <2>4, <2>5, <2>6 DEF ProjectsNext
<1> QED
  BY <1>1, <1>2, ProjectsInvariance, PTL DEF ProjectsSpec

-----------------------------------------------------------------------------
(* The tree as it reads with everything at one path at another.              *)

TreeReads(from, to) ==
    [p \in {Renamed(q, from, to) : q \in DOMAIN tree} |->
        tree[CHOOSE q \in DOMAIN tree : Renamed(q, from, to) = p]]

Locked(t) == {p \in DOMAIN t : t[p].locked}

\* The locks that count, with a move in the journal and without.
LEMMA LocksAre ==
    /\ \A t : LocksOf(t, NoMove) = Locked(t)
    /\ \A t, j : j # NoMove =>
          LocksOf(t, j) = Locked(t) \union {Renamed(p, j.to, j.from) : p \in {q \in Locked(t) : Covers(j.to, q)}}
<1>1. ASSUME NEW t PROVE LocksOf(t, NoMove) = Locked(t)
  BY DEF LocksOf, Locked
<1>2. ASSUME NEW t, NEW j, j # NoMove
      PROVE  LocksOf(t, j) = Locked(t) \union {Renamed(p, j.to, j.from) : p \in {q \in Locked(t) : Covers(j.to, q)}}
  BY <1>2 DEF LocksOf, Locked
<1> QED
  BY <1>1, <1>2

\* Where nothing is, nothing reads otherwise.
LEMMA ReadsTheSame ==
    ASSUME ProjectsTypes, NEW from, NEW to, \A q \in DOMAIN tree : ~Covers(from, q)
    PROVE  TreeReads(from, to) = tree
<1>1. \A q \in DOMAIN tree : Renamed(q, from, to) = q
  BY StillPath
<1>2. {Renamed(q, from, to) : q \in DOMAIN tree} = DOMAIN tree
  BY <1>1
<1>3. \A p \in DOMAIN tree : (CHOOSE q \in DOMAIN tree : Renamed(q, from, to) = p) = p
  BY <1>1
<1>4. tree \in [DOMAIN tree -> Settings]
  BY DEF ProjectsTypes
<1> QED
  BY <1>2, <1>3, <1>4 DEF TreeReads

\* A tree with nothing at the new path reads with each lock where its project is.
LEMMA LocksRead ==
    ASSUME ProjectsTypes, NEW from \in Paths, NEW to \in Paths, from # Root, \A q \in DOMAIN tree : ~Covers(to, q)
    PROVE  Locked(TreeReads(from, to)) = {Renamed(q, from, to) : q \in Locked(tree)}
<1> DEFINE t == TreeReads(from, to)
<1>1. DOMAIN tree \subseteq Paths
  BY DEF ProjectsTypes
<1>2. ASSUME NEW p \in DOMAIN tree, NEW q \in DOMAIN tree, Renamed(p, from, to) = Renamed(q, from, to) PROVE p = q
  <2>1. CASE Covers(from, p) /\ Covers(from, q)
    BY <1>1, <1>2, <2>1, RenamedApart
  <2>2. CASE Covers(from, p) /\ ~Covers(from, q)
    BY <1>1, <1>2, <2>2, MovedPath, StillPath
  <2>3. CASE ~Covers(from, p) /\ Covers(from, q)
    BY <1>1, <1>2, <2>3, MovedPath, StillPath
  <2>4. CASE ~Covers(from, p) /\ ~Covers(from, q)
    BY <1>2, <2>4, StillPath
  <2> QED
    BY <2>1, <2>2, <2>3, <2>4
<1>3. ASSUME NEW q \in DOMAIN tree PROVE t[Renamed(q, from, to)] = tree[q]
  <2>1. (CHOOSE e \in DOMAIN tree : Renamed(e, from, to) = Renamed(q, from, to)) = q
    BY <1>2
  <2> QED
    BY <2>1 DEF TreeReads
<1>4. DOMAIN t = {Renamed(q, from, to) : q \in DOMAIN tree}
  BY DEF TreeReads
<1> HIDE DEF t
<1>5. Locked(t) = {Renamed(q, from, to) : q \in Locked(tree)}
  BY <1>3, <1>4 DEF Locked
<1> QED
  BY <1>5 DEF t

\* Rows count by the locks that are over the path.
LEMMA CountsByLocks ==
    ASSUME NEW path, NEW held, NEW L, NEW M, \A l : Covers(l, path) => (l \in L <=> l \in M)
    PROVE  ScopeAt(path, held, L) <=> ScopeAt(path, held, M)
<1>1. LockOver(path, L) = LockOver(path, M)
  BY DEF LockOver
<1> QED
  BY <1>1 DEF ScopeAt

\* Open is by the project's gate or by rows.
LEMMA OpenIs ==
    ASSUME NEW a
    PROVE  /\ Open(a) <=> \/ ProjectGate(tree, place[a])
                          \/ ScopeAt(AppPath(place[a], a), access, LocksOf(tree, journal))
           /\ \A from, to :
                 OpenWith(a, from, to) <=>
                    \/ ProjectGate(TreeReads(from, to), Renamed(place[a], from, to))
                    \/ ScopeAt(AppPath(Renamed(place[a], from, to), a), {Renamed(r, from, to) : r \in access},
                               Locked(TreeReads(from, to)))
BY LocksAre DEF Open, OpenWith, OpenIn, TreeReads

\* Before the tree moves there is nothing where it is going: whoever may open an
\* app there already has a row above, which counts there after the move.
LEMMA OpenBefore ==
    ASSUME ProjectsTypes, access \subseteq Paths, IsMove(journal), journal # NoMove,
           \A q \in DOMAIN tree : ~Covers(journal.to, q),
           \A r \in access : ~Covers(journal.to, r),
           NEW a \in Apps, Open(a)
    PROVE  OpenWith(a, journal.to, journal.from) \/ OpenWith(a, journal.from, journal.to)
<1> DEFINE from == journal.from
           to == journal.to
           path == AppPath(place[a], a)
           L == Locked(tree)
<1>1. /\ from \in Paths /\ to \in Paths /\ ~Covers(from, to) /\ ~Covers(to, from) /\ place[a] \in Paths
      /\ DOMAIN tree \subseteq Paths
  BY PathFacts DEF ProjectsTypes, IsMove
<1>2. path \in Paths /\ from # Root /\ to # Root
  BY <1>1, AppPathFacts, RenamedOnce
<1>3. TreeReads(to, from) = tree
  BY ReadsTheSame
<1>4. LocksOf(tree, journal) = L
  BY LocksAre DEF Locked
<1>5. {Renamed(r, to, from) : r \in access} = access
  BY StillPath
<1>6. CASE ~Covers(to, path)
  <2>1. ~Covers(to, place[a])
    BY <1>1, <1>6, AppUnder
  <2>2. Renamed(place[a], to, from) = place[a]
    BY <2>1, StillPath
  <2> QED
    BY <1>3, <1>4, <1>5, <2>2, OpenIs
<1>7. CASE Covers(to, path) /\ ProjectGate(tree, place[a])
  <2>1. Renamed(place[a], to, from) = place[a]
    BY <1>7, StillPath DEF ProjectGate
  <2> QED
    BY <1>3, <1>7, <2>1, OpenIs
<1>8. CASE Covers(to, path) /\ ScopeAt(path, access, L)
  <2> DEFINE M == Locked(TreeReads(from, to))
  <2>1. M = {Renamed(q, from, to) : q \in L}
    BY <1>1, <1>2, LocksRead
  <2>2. L \subseteq DOMAIN tree
    BY DEF Locked
  <2> HIDE DEF M, L, path
  <2>3. PICK prefix \in access : RowCounts(prefix, path, LockOver(path, L))
    BY <1>8 DEF ScopeAt
  <2>4. prefix \in Paths /\ Covers(prefix, path) /\ ~Covers(to, prefix)
    BY <2>3 DEF RowCounts
  <2>5. Covers(prefix, to)
    BY <1>1, <1>2, <1>8, <2>4, CoversFacts
  <2>6. \A q \in Paths : Covers(q, to) => ~Covers(from, q)
    BY <1>1, CoversFacts
  <2>7. Renamed(prefix, from, to) = prefix
    BY <2>4, <2>5, <2>6, StillPath
  <2>8. ASSUME NEW l \in LockOver(path, M) PROVE Covers(prefix, l)
    <3>1. PICK q \in L : l = Renamed(q, from, to)
      BY <2>1 DEF LockOver
    <3>2. q \in Paths /\ l \in Paths /\ Covers(l, path)
      BY <1>1, <2>2, <3>1, RenamedIsPath DEF LockOver
    <3>3. CASE Covers(to, l)
      BY <1>1, <2>4, <2>5, <3>2, <3>3, CoversFacts
    <3>4. CASE ~Covers(to, l)
      <4>1. ~Covers(from, q)
        BY <1>1, <1>2, <3>1, <3>2, <3>4, MovedPath
      <4>2. l = q /\ l \in L
        BY <3>1, <4>1, StillPath
      <4>3. ASSUME NEW m \in L, Covers(m, path) PROVE Len(l) <= Len(m)
        <5>1. m \in Paths /\ ~Covers(to, m)
          BY <1>1, <2>2
        <5>2. Covers(m, to)
          BY <1>1, <1>2, <1>8, <4>3, <5>1, CoversFacts
        <5>3. m \in M
          BY <2>1, <2>6, <5>1, <5>2, StillPath
        <5> QED
          BY <4>3, <5>3 DEF LockOver
      <4>4. l \in LockOver(path, L)
        BY <3>2, <4>2, <4>3 DEF LockOver
      <4> QED
        BY <2>3, <4>4 DEF RowCounts
    <3> QED
      BY <3>3, <3>4
  <2>9. ScopeAt(path, {Renamed(r, from, to) : r \in access}, M)
    BY <2>4, <2>7, <2>8 DEF ScopeAt, RowCounts
  <2>10. ~Covers(from, place[a])
    <3>1. Covers(from, place[a]) => Covers(from, path)
      BY <1>1, AppUnder DEF path
    <3> QED
      BY <1>1, <1>2, <1>8, <3>1, CoversFacts
  <2>11. Renamed(place[a], from, to) = place[a]
    BY <2>10, StillPath
  <2> QED
    BY <2>9, <2>11, OpenIs DEF path, M
<1>9. ProjectGate(tree, place[a]) \/ ScopeAt(path, access, L)
  BY <1>4, OpenIs
<1> QED
  BY <1>6, <1>7, <1>8, <1>9

\* Once the tree has moved there is nothing where it was: the locks it has count
\* there too, so that whoever may still open an app there could before.
LEMMA OpenAfter ==
    ASSUME ProjectsTypes, access \subseteq Paths, IsMove(journal), journal # NoMove,
           \A q \in DOMAIN tree : ~Covers(journal.from, q),
           NEW a \in Apps, Open(a)
    PROVE  OpenWith(a, journal.to, journal.from) \/ OpenWith(a, journal.from, journal.to)
<1> DEFINE from == journal.from
           to == journal.to
           path == AppPath(place[a], a)
           L == Locked(tree)
           B == {Renamed(q, to, from) : q \in {e \in L : Covers(to, e)}}
<1>1. /\ from \in Paths /\ to \in Paths /\ ~Covers(from, to) /\ ~Covers(to, from) /\ place[a] \in Paths
      /\ DOMAIN tree \subseteq Paths /\ L \subseteq DOMAIN tree
  BY PathFacts DEF ProjectsTypes, IsMove, Locked
<1>2. path \in Paths /\ from # Root /\ to # Root
  BY <1>1, AppPathFacts, RenamedOnce
<1>3. TreeReads(from, to) = tree
  BY ReadsTheSame
<1>4. LocksOf(tree, journal) = L \union B
  BY LocksAre
<1>5. CASE ProjectGate(tree, place[a])
  <2>1. Renamed(place[a], from, to) = place[a]
    BY <1>5, StillPath DEF ProjectGate
  <2> QED
    BY <1>3, <1>5, <2>1, OpenIs
<1>6. CASE ~Covers(from, path) /\ ScopeAt(path, access, L \union B)
  <2> HIDE DEF L, path
  <2>1. ASSUME NEW l \in B PROVE l \in Paths /\ Covers(from, l)
    <3>1. PICK q \in L : l = Renamed(q, to, from) /\ Covers(to, q)
      OBVIOUS
    <3>2. q \in Paths
      BY <1>1
    <3>3. Renamed(q, to, from) \in Paths /\ Covers(from, Renamed(q, to, from))
      BY <1>1, <1>2, <3>1, <3>2, MovedPath
    <3> QED
      BY <3>1, <3>3
  <2>2. \A l \in B : ~Covers(l, path)
    BY <1>1, <1>2, <1>6, <2>1, CoversFacts
  <2> HIDE DEF B
  <2>3. ScopeAt(path, access, L)
    BY <1>6, <2>2, CountsByLocks
  <2>4. PICK prefix \in access : RowCounts(prefix, path, LockOver(path, L))
    BY <2>3 DEF ScopeAt
  <2>5. prefix \in Paths /\ ~Covers(from, prefix)
    BY <1>1, <1>2, <1>6, <2>4, CoversFacts DEF RowCounts
  <2>6. Renamed(prefix, from, to) = prefix
    BY <2>5, StillPath
  <2>7. ScopeAt(path, {Renamed(r, from, to) : r \in access}, L)
    BY <2>4, <2>6 DEF ScopeAt
  <2>8. ~Covers(from, place[a])
    BY <1>1, <1>6, AppUnder DEF path
  <2>9. Renamed(place[a], from, to) = place[a]
    BY <2>8, StillPath
  <2> QED
    BY <1>3, <2>7, <2>9, OpenIs DEF path, L
<1>7. CASE Covers(from, path) /\ ScopeAt(path, access, L \union B)
  <2> DEFINE M == Locked(TreeReads(to, from))
  <2>1. M = {Renamed(q, to, from) : q \in L}
    BY <1>1, <1>2, LocksRead
  <2> HIDE DEF L, path, M
  <2>2. \A q \in Paths : Covers(q, path) => ~Covers(to, q)
    BY <1>1, <1>2, <1>7, CoversFacts
  <2>3. ASSUME NEW l, Covers(l, path) PROVE l \in L \union B <=> l \in M
    <3>1. ASSUME l \in L PROVE l \in M
      BY <1>1, <2>1, <2>2, <2>3, <3>1, StillPath
    <3>2. ASSUME l \in B PROVE l \in M
      BY <2>1, <3>2
    <3>3. ASSUME l \in M PROVE l \in L \union B
      BY <2>1, <3>3, StillPath
    <3> QED
      BY <3>1, <3>2, <3>3
  <2> HIDE DEF B
  <2>4. ScopeAt(path, access, M)
    <3> DEFINE N == L \union B
    <3>1. \A l : Covers(l, path) => (l \in N <=> l \in M)
      BY <2>3
    <3>2. ScopeAt(path, access, N)
      BY <1>7
    <3> HIDE DEF N
    <3> QED
      BY <3>1, <3>2, CountsByLocks
  <2>5. PICK prefix \in access : RowCounts(prefix, path, LockOver(path, M))
    BY <2>4 DEF ScopeAt
  <2>6. Renamed(prefix, to, from) = prefix
    BY <2>2, <2>5, StillPath DEF RowCounts
  <2>7. ScopeAt(path, {Renamed(r, to, from) : r \in access}, M)
    BY <2>5, <2>6 DEF ScopeAt
  <2>8. ~Covers(to, place[a])
    BY <1>1, <2>2, AppPathFacts DEF path
  <2>9. Renamed(place[a], to, from) = place[a]
    BY <2>8, StillPath
  <2> QED
    BY <2>7, <2>9, OpenIs DEF path, M
<1>8. ProjectGate(tree, place[a]) \/ ScopeAt(path, access, L \union B)
  BY <1>4, OpenIs
<1> QED
  BY <1>5, <1>6, <1>7, <1>8

\* Whoever may open an app while a project's move is on its way may do so before
\* the move or after it, whatever is published, locked, ungated or revoked beside
\* it, and wherever the move stops (projects.rs:310-318).
THEOREM MoveOpensNothing == ProjectsSpec => []RowsOpenNothing
<1>1. ProjectsInv /\ RowsInv => RowsOpenNothing
  <2> SUFFICES ASSUME ProjectsInv, RowsInv, journal # NoMove, beside = {}, NEW a \in Existing, Open(a)
               PROVE  OpenWith(a, journal.to, journal.from) \/ OpenWith(a, journal.from, journal.to)
    BY DEF RowsOpenNothing
  <2>1. /\ Fits /\ ProjectsTypes /\ access \subseteq Paths /\ a \in Apps
        /\ IsMove(journal) /\ (TreeBefore(journal) \/ TreeAfter(journal)) /\ Rooted(DOMAIN tree)
    BY DEF ProjectsInv, RowsInv, Existing, Fits, MoveFits
  <2>2. /\ journal.from \in Paths /\ journal.to \in Paths /\ journal.from # Root /\ journal.to # Root
        /\ DOMAIN tree \in SUBSET Paths
    BY <2>1, PathFacts DEF ProjectsTypes
  <2>3. CASE TreeBefore(journal)
    <3>1. \A q \in DOMAIN tree : ~Covers(journal.to, q)
      BY <2>1, <2>2, <2>3, RootedCovers DEF TreeBefore
    <3>2. \A r \in access : ~Covers(journal.to, r)
      BY <2>3 DEF RowsInv, TreeBefore
    <3> QED
      BY <2>1, <3>1, <3>2, OpenBefore
  <2>4. CASE TreeAfter(journal)
    <3>1. \A q \in DOMAIN tree : ~Covers(journal.from, q)
      BY <2>1, <2>2, <2>4, RootedCovers DEF TreeAfter
    <3> QED
      BY <2>1, <3>1, OpenAfter
  <2> QED
    BY <2>1, <2>3, <2>4
<1> QED
  BY <1>1, ProjectsInvariance, RowsInvariance, PTL
=============================================================================
