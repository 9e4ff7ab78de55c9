----------------------------- MODULE MCJobQueue -----------------------------
(* Instances of JobQueue for TLC.                                          *)
EXTENDS JobQueue, TLC

CONSTANTS strong, weak, weakest

ThreeProviders == {strong, weak, weakest}
TwoProviders == {strong, weak}
OneProvider  == {strong}
MCRank == [p \in Providers |-> CASE p = strong -> 1 [] p = weak -> 2 [] OTHER -> 3]
JustStrong == {strong}
JustWeak == {weak}
Absorb == {"absorb"}
Sweep == {"sweep"}
Symmetry == Permutations(Tokens)
BothSymmetry == Permutations(Tokens) \cup Permutations(Sessions)
=============================================================================
