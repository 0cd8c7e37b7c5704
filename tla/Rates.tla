------------------------------- MODULE Rates -------------------------------
(***************************************************************************)
(* One key of the rate windows, src/src/state/rate.rs.  Spends are counted *)
(* by the grain of the store: the tick of the clock in memory, a sixtieth  *)
(* of the window on Postgres.  Both hold a lock from the look to the spend,*)
(* so a spend is one step.                                                 *)
(***************************************************************************)
EXTENDS Integers, Sums

CONSTANTS Grains,   \* the grains to choose from: 1 is the store in memory
          Per,      \* spends allowed in a window
          RateWindow,
          LastMoment   \* bound: the clock stops here

ASSUME RatesAssumption ==
    /\ Grains \subseteq Nat \ {0}
    /\ Per \in Nat
    /\ RateWindow \in Nat \ {0}
    /\ LastMoment \in Nat

VARIABLES clock,
          grain,
          counts,   \* state.rate_windows: the spends counted from each slice's start
          spends    \* history: how many were spent at each moment

ratesVars == <<clock, grain, counts, spends>>

Times == 0..LastMoment

RatesInit ==
    /\ clock = 0
    /\ grain \in Grains
    /\ counts = [s \in Times |-> 0]
    /\ spends = [t \in Times |-> 0]

-----------------------------------------------------------------------------

\* Mutant: a slice goes when its start has left the window.
KeptByStart(s) == s >= clock - RateWindow

\* A slice counts until the whole of it has left the window.
KeptSlice(s) == s + grain > clock - RateWindow

Spend ==
    LET kept == [s \in Times |-> IF KeptSlice(s) THEN counts[s] ELSE 0]
        start == clock - (clock % grain)
    IN  /\ IF Total(kept, Times) >= Per
           THEN /\ counts' = kept
                /\ UNCHANGED spends
           ELSE /\ counts' = [kept EXCEPT ![start] = @ + 1]
                /\ spends' = [spends EXCEPT ![clock] = @ + 1]
        /\ UNCHANGED <<clock, grain>>

RatesTick ==
    /\ clock < LastMoment
    /\ clock' = clock + 1
    /\ UNCHANGED <<grain, counts, spends>>

RatesNext == Spend \/ RatesTick

RatesSpec == RatesInit /\ [][RatesNext]_ratesVars

-----------------------------------------------------------------------------

\* rate.rs:9-10, "the database errs towards refusing, never towards one more":
\* whatever the grain, no window of the clock holds more spends than allowed.
NeverOneMore == Total(spends, {t \in Times : t >= clock - RateWindow /\ t <= clock}) <= Per

=============================================================================
