------------------------------- MODULE Grants -------------------------------
(***************************************************************************)
(* The OAuth store's grants of one account, as its two stores keep them:   *)
(* src/src/platform/oauth_store/postgres.rs, where a call is a transaction *)
(* that takes the account's advisory lock, and sqlite.rs, where the file's *)
(* write lock stands for it and a rotation reads before it has that lock.  *)
(***************************************************************************)
EXTENDS Integers, FiniteSets

CONSTANTS Callers,    \* the calls that may be under way at once
          Secrets,    \* bound: codes and tokens ever made
          Revocations,\* bound
          Lapses      \* bound: grants that run out

ASSUME GrantsAssumption ==
    /\ Secrets \in Nat
    /\ Revocations \in Nat
    /\ Lapses \in Nat
    /\ "nobody" \notin Callers

VARIABLES backend,   \* files or postgres
          codes, refreshes, accesses, \* oauth.codes and the two kinds of oauth.tokens
          minted,    \* codes and tokens made so far: each is random, so never made twice
          lapsed,    \* those whose expires_at has passed
          turn,      \* who holds LOCK_OAUTH_USER for the account
          call,      \* the calls under way
          paid,      \* history: pairs issued for each code and refresh token
          era        \* history: revocations so far

grantsVars == <<backend, codes, refreshes, accesses, minted, lapsed, turn, call, paid, era>>

Nobody == "nobody"

NoCall == [op |-> "none", step |-> "none", of |-> 0, good |-> FALSE, doomed |-> {}, stale |-> FALSE]

Steps == {"none", "waits", "holds", "tokens", "spent", "reads"}

Call == [op : {"none", "consent", "exchange", "rotate", "revoke"}, step : Steps,
         of : Nat, good : BOOLEAN, doomed : SUBSET Nat, stale : BOOLEAN]

GrantsTypeOK ==
    /\ backend \in {"files", "postgres"}
    /\ minted \in 0..Secrets
    /\ codes \subseteq 1..minted
    /\ refreshes \subseteq 1..minted
    /\ accesses \subseteq 1..minted
    /\ lapsed \subseteq 1..minted
    /\ turn \in Callers \union {Nobody}
    /\ call \in [Callers -> Call]
    /\ paid \in [1..Secrets -> Nat]
    /\ era \in Nat

GrantsInit ==
    /\ backend \in {"files", "postgres"}
    /\ codes = {} /\ refreshes = {} /\ accesses = {}
    /\ minted = 0
    /\ lapsed = {}
    /\ turn = Nobody
    /\ call = [r \in Callers |-> NoCall]
    /\ paid = [e \in 1..Secrets |-> 0]
    /\ era = 0

-----------------------------------------------------------------------------

\* What a commit may do.  On files it also makes every snapshot older than it
\* too old to write from.
AgedCalls == [r \in Callers |-> [call[r] EXCEPT !.stale = call[r].step = "reads"]]

NewCode ==
    /\ minted < Secrets
    /\ minted' = minted + 1
    /\ codes' = codes \union {minted + 1}
    /\ UNCHANGED <<refreshes, accesses>>

\* insert_pair, in the place of the code or refresh token e.
NewPair(e) ==
    /\ minted + 2 <= Secrets
    /\ minted' = minted + 2
    /\ accesses' = accesses \union {minted + 1}
    /\ refreshes' = (refreshes \ {e}) \union {minted + 2}
    /\ codes' = codes \ {e}
    /\ paid' = [paid EXCEPT ![e] = @ + 1]

NoPair(e) ==
    /\ refreshes' = refreshes \ {e}
    /\ codes' = codes \ {e}
    /\ UNCHANGED <<minted, accesses, paid>>

Table(op) == IF op = "exchange" THEN codes ELSE refreshes

-----------------------------------------------------------------------------
(* Postgres: a call is a transaction.                                      *)

OnPostgres(r, step) == backend = "postgres" /\ call[r].step = step

ToStep(r, step) == call' = [call EXCEPT ![r].step = step]

Begins(r, op) ==
    /\ OnPostgres(r, "none")
    /\ call' = [call EXCEPT ![r] = [NoCall EXCEPT !.op = op, !.step = "waits"]]
    /\ UNCHANGED <<backend, codes, refreshes, accesses, minted, lapsed, turn, paid, era>>

ConsentBegins(r) == Begins(r, "consent")

RevokeBegins(r) == Begins(r, "revoke")

\* exchange and rotate look up whose grant it is; one they do not find changes
\* nothing.  fits is what the request's checks will say of the code.
GrantRead(r, op, e, fits) ==
    /\ OnPostgres(r, "none")
    /\ op \in {"exchange", "rotate"}
    /\ e \in Table(op)
    /\ op = "rotate" => fits
    /\ call' = [call EXCEPT ![r] = [NoCall EXCEPT !.op = op, !.step = "waits", !.of = e, !.good = fits]]
    /\ UNCHANGED <<backend, codes, refreshes, accesses, minted, lapsed, turn, paid, era>>

\* Mutant: the account's turn is not waited for.
TurnAnyway == TRUE

TurnFree == turn = Nobody

HoldsAccount(r) ==
    /\ OnPostgres(r, "waits")
    /\ TurnFree
    /\ turn' = r
    /\ ToStep(r, "holds")
    /\ UNCHANGED <<backend, codes, refreshes, accesses, minted, lapsed, paid, era>>

\* Rows a transaction has deleted and not committed: another statement that
\* meets one waits for its end.
InHand(q) ==
    IF call[q].step \in {"tokens", "spent"} THEN {call[q].of} \union call[q].doomed ELSE {}

LockedFor(r, S) == \E q \in Callers \ {r} : S \intersect InHand(q) # {}

Ends(r) ==
    /\ call' = [call EXCEPT ![r] = NoCall]
    /\ turn' = IF turn = r THEN Nobody ELSE turn

\* Mutant: what was read before the turn came is believed.
BelievesItsRead(c) == TRUE

\* The delete looks at the row again: one revoked or traded meanwhile is not found.
StillThere(c) == c.of \in Table(c.op)

GrantDeleted(r) ==
    LET c == call[r]
    IN  /\ OnPostgres(r, "holds")
        /\ c.op \in {"exchange", "rotate"}
        /\ ~LockedFor(r, {c.of})
        /\ IF StillThere(c)
           THEN /\ call' = [call EXCEPT ![r].step = "spent", ![r].good = @ /\ c.of \notin lapsed]
                /\ UNCHANGED turn
           ELSE Ends(r)
        /\ UNCHANGED <<backend, codes, refreshes, accesses, minted, lapsed, paid, era>>

TradeCommits(r) ==
    /\ OnPostgres(r, "spent")
    /\ call[r].op \in {"exchange", "rotate"}
    /\ IF call[r].good THEN NewPair(call[r].of) ELSE NoPair(call[r].of)
    /\ Ends(r)
    /\ UNCHANGED <<backend, lapsed, era>>

ConsentCommits(r) ==
    /\ OnPostgres(r, "holds")
    /\ call[r].op = "consent"
    /\ NewCode
    /\ Ends(r)
    /\ UNCHANGED <<backend, lapsed, paid, era>>

TokensDeleted(r) ==
    LET tokens == refreshes \union accesses
    IN  /\ OnPostgres(r, "holds")
        /\ call[r].op = "revoke"
        /\ ~LockedFor(r, tokens)
        /\ call' = [call EXCEPT ![r].step = "tokens", ![r].doomed = tokens]
        /\ UNCHANGED <<backend, codes, refreshes, accesses, minted, lapsed, turn, paid, era>>

CodesDeleted(r) ==
    /\ OnPostgres(r, "tokens")
    /\ ~LockedFor(r, codes)
    /\ call' = [call EXCEPT ![r].step = "spent", ![r].doomed = @ \union codes]
    /\ UNCHANGED <<backend, codes, refreshes, accesses, minted, lapsed, turn, paid, era>>

RevokeCommits(r) ==
    LET gone == call[r].doomed
    IN  /\ OnPostgres(r, "spent")
        /\ call[r].op = "revoke"
        /\ era < Revocations
        /\ codes' = codes \ gone
        /\ refreshes' = refreshes \ gone
        /\ accesses' = accesses \ gone
        /\ era' = era + 1
        /\ Ends(r)
        /\ UNCHANGED <<backend, minted, lapsed, paid>>

\* An error, a dropped connection or a runner that dies: the transaction is
\* rolled back.  An answer lost after the commit leaves what the commit left.
RollsBack(r) ==
    /\ call[r].step # "none"
    /\ Ends(r)
    /\ UNCHANGED <<backend, codes, refreshes, accesses, minted, lapsed, paid, era>>

-----------------------------------------------------------------------------
(* Files: a call that begins by taking the write lock is one step.         *)

OnFiles == backend = "files"

FileConsent ==
    /\ OnFiles
    /\ NewCode
    /\ call' = AgedCalls
    /\ UNCHANGED <<backend, lapsed, turn, paid, era>>

FileExchange(c, fits) ==
    /\ OnFiles
    /\ c \in codes
    /\ IF fits /\ c \notin lapsed THEN NewPair(c) ELSE NoPair(c)
    /\ call' = AgedCalls
    /\ UNCHANGED <<backend, lapsed, turn, era>>

FileRevoke ==
    /\ OnFiles
    /\ era < Revocations
    /\ codes' = {} /\ refreshes' = {} /\ accesses' = {}
    /\ era' = era + 1
    /\ call' = AgedCalls
    /\ UNCHANGED <<backend, minted, lapsed, turn, paid>>

\* rotate_refresh begins a deferred transaction: it reads from a snapshot and
\* takes the write lock with its delete.
FileRotateReads(r, t) ==
    /\ OnFiles
    /\ call[r].step = "none"
    /\ t \in refreshes
    /\ call' = [call EXCEPT ![r] = [NoCall EXCEPT !.op = "rotate", !.step = "reads", !.of = t]]
    /\ UNCHANGED <<backend, codes, refreshes, accesses, minted, lapsed, turn, paid, era>>

\* From a snapshot that others wrote past, SQLITE_BUSY_SNAPSHOT: such a rotation
\* answers nothing, and RollsBack is its end.
FileRotateWrites(r) ==
    /\ OnFiles
    /\ call[r].step = "reads"
    /\ ~call[r].stale
    /\ IF call[r].of \in lapsed THEN NoPair(call[r].of) ELSE NewPair(call[r].of)
    /\ call' = [AgedCalls EXCEPT ![r] = NoCall]
    /\ UNCHANGED <<backend, lapsed, turn, era>>

-----------------------------------------------------------------------------

GrantLapses(e) ==
    /\ e \notin lapsed
    /\ Cardinality(lapsed) < Lapses
    /\ lapsed' = lapsed \union {e}
    /\ UNCHANGED <<backend, codes, refreshes, accesses, minted, turn, call, paid, era>>

\* The sweep's statements, each a transaction of its own.
TokensSwept ==
    /\ \A q \in Callers : (refreshes \union accesses) \intersect lapsed \intersect InHand(q) = {}
    /\ refreshes' = refreshes \ lapsed
    /\ accesses' = accesses \ lapsed
    /\ call' = AgedCalls
    /\ UNCHANGED <<backend, codes, minted, lapsed, turn, paid, era>>

CodesSwept ==
    /\ \A q \in Callers : codes \intersect lapsed \intersect InHand(q) = {}
    /\ codes' = codes \ lapsed
    /\ call' = AgedCalls
    /\ UNCHANGED <<backend, refreshes, accesses, minted, lapsed, turn, paid, era>>

GrantsNext ==
    \/ \E r \in Callers :
          \/ ConsentBegins(r) \/ RevokeBegins(r)
          \/ \E op \in {"exchange", "rotate"}, e \in codes \union refreshes, fits \in BOOLEAN :
                GrantRead(r, op, e, fits)
          \/ HoldsAccount(r) \/ GrantDeleted(r) \/ TradeCommits(r) \/ ConsentCommits(r)
          \/ TokensDeleted(r) \/ CodesDeleted(r) \/ RevokeCommits(r) \/ RollsBack(r)
          \/ \E t \in refreshes : FileRotateReads(r, t)
          \/ FileRotateWrites(r)
    \/ FileConsent \/ FileRevoke
    \/ \E c \in codes, fits \in BOOLEAN : FileExchange(c, fits)
    \/ \E e \in codes \union refreshes \union accesses : GrantLapses(e)
    \/ TokensSwept \/ CodesSwept

GrantsSpec == GrantsInit /\ [][GrantsNext]_grantsVars

-----------------------------------------------------------------------------

Book ==
    INSTANCE GrantBook WITH codes <- codes, refreshes <- refreshes, accesses <- accesses,
                            minted <- minted, lapsed <- lapsed, era <- era

\* oauth_store/mod.rs:170-177, "A revocation lands wholly before (the code is
\* gone) or wholly after (the pair is), never between a spent code and its
\* tokens": either store behaves as the book, whose steps are whole.
KeptAsTheBook == Book!BookSpec

\* oauth_store/mod.rs:11-13, "Single use is the store's promise, on both
\* backends": no code or refresh token brings two pairs, however many present it.
TradedOnce == \A e \in 1..Secrets : paid[e] <= 1

=============================================================================
