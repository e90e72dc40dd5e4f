---------------------------- MODULE MCCopyOnWrite ----------------------------
EXTENDS CopyOnWrite, TLC
CONSTANTS t1, t2, h1, h2, h3, m1, m2, m3, v1, v2
Symm == Permutations({t1, t2}) \cup Permutations({h1, h2, h3})
          \cup Permutations({m1, m2, m3}) \cup Permutations({v1, v2})
=============================================================================
