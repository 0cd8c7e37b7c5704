---------------------------- MODULE MCPublishes ----------------------------
EXTENDS Publishes, TLC

CONSTANTS k1, k2, w1, w2, c1, c2, r1

MCKeys == {k1, k2}
MCTree == {k1}
MCWriters == {w1, w2}
MCReaders == {c1, c2}
MCRunners == {r1}
MCSymmetry == Permutations(MCWriters) \union Permutations(MCReaders)
=============================================================================
