---------------------------- MODULE MCSessionPool ----------------------------
EXTENDS SessionPool, TLC
Sym == Permutations(Clients) \cup Permutations(Conns) \cup Permutations(Users)
==============================================================================
