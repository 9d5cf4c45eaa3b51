--------------------------- MODULE MCProfileCache ---------------------------
(***************************************************************************)
(* Small instances of ProfileCache: two names that differ in more than     *)
(* case; "all" is the unfiltered list (count and page), "onlyBob" a        *)
(* filtered one whose result only bob changes.                             *)
(***************************************************************************)
EXTENDS ProfileCache, TLC

CONSTANTS r1, r2, i1, i2, i3, ada, bob, all, onlyBob

FoldOfTwo == ada :> ada @@ bob :> bob
FoldOfOne == ada :> ada

MatchesAll == all :> Name
MatchesTwo == all :> {ada, bob} @@ onlyBob :> {bob}

TwoStatements == all :> 2
CountAndPage == all :> 2 @@ onlyBob :> 1
OneStatement == all :> 1

NoFiles == {}
Crossing == {<<<<ada, bob>>>>, <<<<bob, ada>>>>}

Symmetry == Permutations(Request) \cup Permutations(Id)
=============================================================================
