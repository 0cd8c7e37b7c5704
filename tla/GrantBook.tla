----------------------------- MODULE GrantBook -----------------------------
(***************************************************************************)
(* What the OAuth store promises of one account's grants,                  *)
(* src/src/platform/oauth_store/mod.rs: a code or a refresh token is traded *)
(* for a pair at most once and in one step with the pair, and a revocation *)
(* takes everything there is at once.                                      *)
(***************************************************************************)
EXTENDS Integers

VARIABLES codes, refreshes, accesses, \* the live grants of the account, by number
          minted,                     \* codes and tokens made so far
          lapsed,                     \* those past their lifetime
          era                         \* revocations so far

bookVars == <<codes, refreshes, accesses, minted, lapsed, era>>

Grants == codes \union refreshes \union accesses

BookInit ==
    /\ codes = {} /\ refreshes = {} /\ accesses = {}
    /\ minted = 0
    /\ lapsed = {}
    /\ era = 0

Consent ==
    /\ minted' = minted + 1
    /\ codes' = codes \union {minted + 1}
    /\ UNCHANGED <<refreshes, accesses, lapsed, era>>

\* Whether c was in time was judged before: it may have lapsed since.
Exchange(c) ==
    /\ c \in codes
    /\ minted' = minted + 2
    /\ codes' = codes \ {c}
    /\ accesses' = accesses \union {minted + 1}
    /\ refreshes' = refreshes \union {minted + 2}
    /\ UNCHANGED <<lapsed, era>>

\* A rotation leaves the access token it came with to run out.
Rotate(t) ==
    /\ t \in refreshes
    /\ minted' = minted + 2
    /\ accesses' = accesses \union {minted + 1}
    /\ refreshes' = (refreshes \ {t}) \union {minted + 2}
    /\ UNCHANGED <<codes, lapsed, era>>

\* A code that does not fit its request is spent for nothing, and so is a grant
\* that ran out.
Refuse(e) ==
    /\ codes' = codes \ {e}
    /\ refreshes' = IF e \in lapsed THEN refreshes \ {e} ELSE refreshes
    /\ UNCHANGED <<accesses, minted, lapsed, era>>

Revoke ==
    /\ codes' = {} /\ refreshes' = {} /\ accesses' = {}
    /\ era' = era + 1
    /\ UNCHANGED <<minted, lapsed>>

Lapse(e) ==
    /\ lapsed' = lapsed \union {e}
    /\ UNCHANGED <<codes, refreshes, accesses, minted, era>>

Sweep ==
    /\ codes' \in {codes, codes \ lapsed}
    /\ refreshes' \in {refreshes, refreshes \ lapsed}
    /\ accesses' \in {accesses, accesses \ lapsed}
    /\ UNCHANGED <<minted, lapsed, era>>

BookNext ==
    \/ Consent
    \/ \E e \in Grants : Exchange(e) \/ Rotate(e) \/ Refuse(e) \/ Lapse(e)
    \/ Revoke
    \/ Sweep

BookSpec == BookInit /\ [][BookNext]_bookVars
=============================================================================
