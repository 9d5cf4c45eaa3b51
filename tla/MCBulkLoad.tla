----------------------------- MODULE MCBulkLoad -----------------------------
(***************************************************************************)
(* A small instance of BulkLoad.  The first file has a row one year over   *)
(* the limit, one of no known gender, a name twice and one left over after *)
(* the first chunk; the second a row cut short and a country that does not *)
(* fit.                                                                    *)
(***************************************************************************)
EXTENDS BulkLoad, TLC

CONSTANTS u1, u2, l1, s1, ada, bob

Good(name, age) ==
    [name |-> name, short |-> FALSE, blank |-> FALSE, gender |-> "female",
     numeric |-> TRUE, age |-> age, group |-> "", fits |-> TRUE]

TooOld == Good(ada, 121)
CutShort == [Good(ada, 30) EXCEPT !.short = TRUE, !.blank = TRUE]
NoGender == [Good(bob, 30) EXCEPT !.gender = "other"]
LongCountry == [Good(bob, 60) EXCEPT !.fits = FALSE]
GroupGiven == [Good(bob, 120) EXCEPT !.group = "senior"]

Files == {<<Good(ada, 12), TooOld, Good(ada, 19), NoGender, Good(bob, 20)>>,
          <<GroupGiven, Good(ada, 59), CutShort, LongCountry>>}
Seed == <<[Good(bob, 40) EXCEPT !.group = "adult"]>>

Symmetry == Permutations(Upload)
=============================================================================
