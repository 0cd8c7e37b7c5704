------------------------------- MODULE Leases -------------------------------
(***************************************************************************)
(* The lease store of src/src/state/leases.rs: a table with one row per    *)
(* name ever leased.  Every method is one step, a lock in memory or a       *)
(* statement on Postgres, but for taking a lease on Postgres: its          *)
(* transaction reads the row and the group, and then writes the row,       *)
(* under a lock that only others who take leases ask for (see JobSlots).   *)
(* `release`, which nothing but the tests calls, is left out.               *)
(*                                                                         *)
(* A row's expires_at is kept as the time it has left: expires_at > now is *)
(* left > 0, expires_at = now + ttl is left = Ttl, expires_at = 0 is       *)
(* left = 0.  A name that was never leased has epoch 0, so that its first  *)
(* holder gets epoch 1.                                                    *)
(***************************************************************************)
EXTENDS Integers, FiniteSets

CONSTANTS Names,     \* what can be leased: the slots of the site's jobs
          Groups,    \* what leases are counted under: the apps
          GroupOf,   \* the group each name is asked for under
          Most,      \* live leases one group may hold
          Ttl,       \* how long a lease lasts without renewal
          MaxEpoch   \* bound: holders one name may have had

ASSUME LeaseAssumption ==
    /\ IsFiniteSet(Names)
    /\ GroupOf \in [Names -> Groups]
    /\ Most \in Nat \ {0}
    /\ Ttl \in Nat \ {0}
    /\ MaxEpoch \in Nat

VARIABLE rows

Row == [epoch : Nat, left : 0..Ttl, again : BOOLEAN]

LeasesTypeOK == rows \in [Names -> Row]

LeasesInit == rows = [n \in Names |-> [epoch |-> 0, left |-> 0, again |-> FALSE]]

-----------------------------------------------------------------------------

Live(n) == rows[n].left > 0

\* The live leases of n's group, n's own aside.
LiveOthers(n) == {m \in Names \ {n} : GroupOf[m] = GroupOf[n] /\ Live(m)}

\* Mutant: one lease past the ceiling.
FullPastCeiling(n) == Cardinality(LiveOthers(n)) > Most

Full(n) == Cardinality(LiveOthers(n)) >= Most

\* Mutant: the leases still live.
OrphanedWhileLive(n) == rows[n].again /\ Live(n)

\* A holder that went and left a request for one more turn behind.
Orphaned(n) == rows[n].again /\ ~Live(n)

\* Mutant: a live lease is taken as well.
TakeableHeld(n) == ~Full(n)

\* Whether n may be taken: it is not held live and its group has room.
Takeable(n) == ~Live(n) /\ ~Full(n)

\* Mutant: a new holder gets the old epoch.
TakeSameEpoch(n) ==
    rows' = [rows EXCEPT ![n] = [epoch |-> 1, left |-> Ttl, again |-> FALSE]]

\* A name is taken over with the next epoch and no request.
Take(n) ==
    rows' = [rows EXCEPT ![n] = [epoch |-> @.epoch + 1, left |-> Ttl, again |-> FALSE]]

\* Mutant: the epoch is not compared.
HoldsUnfenced(n, e) == rows[n].epoch >= e

\* Whether this is still the holding of n that was given epoch e.  Nothing
\* asks whether it ran out: only a new holder ends it.
Holds(n, e) == rows[n].epoch = e

Renew(n, e) ==
    rows' = IF Holds(n, e) THEN [rows EXCEPT ![n].left = Ttl] ELSE rows

\* Asks the live holder for one more turn.
AskAgain(n) ==
    /\ Live(n)
    /\ rows' = [rows EXCEPT ![n].again = TRUE]

\* The holder's end of a turn, in its three outcomes.
EndAgain(n, e) ==
    /\ Holds(n, e)
    /\ rows[n].again
    /\ rows' = [rows EXCEPT ![n] = [epoch |-> @.epoch, left |-> Ttl, again |-> FALSE]]

\* Mutant: the request is not looked at in the same step.
EndReleasedUnseen(n, e) ==
    /\ Holds(n, e)
    /\ rows' = [rows EXCEPT ![n] = [epoch |-> @.epoch, left |-> 0, again |-> FALSE]]

EndReleased(n, e) ==
    /\ Holds(n, e)
    /\ ~rows[n].again
    /\ rows' = [rows EXCEPT ![n].left = 0]

EndLost(n, e) ==
    /\ ~Holds(n, e)
    /\ UNCHANGED rows

\* One unit of the store's clock passes.
Elapse ==
    rows' = [n \in Names |-> [rows[n] EXCEPT !.left = IF @ > 0 THEN @ - 1 ELSE 0]]
=============================================================================
