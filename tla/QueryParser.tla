---------------------------- MODULE QueryParser ----------------------------
(***************************************************************************)
(* parse_query of query_parser.py: plain English to filters.  A query is a *)
(* sequence of tokens, lower-cased: words, and numbers of up to three      *)
(* digits ("--" is the en dash).  Age groups and countries are found       *)
(* inside longer words too: Contains says what is inside what.             *)
(***************************************************************************)
EXTENDS Naturals, Sequences

CONSTANTS
    Words,         \* what a text filter may hold
    Contains,      \* [Word -> SUBSET STRING]: keywords and countries in a word
    CountryMap,    \* COUNTRY_MAP: country names to codes
    CountryOrder,  \* those names in the order they are tried: longest first
    None           \* an absent filter

Word(w) == [word |-> w, number |-> 0]
Number(n) == [word |-> "#", number |-> n]

ASSUME CountryAssumption ==
    /\ CountryOrder \in Seq(STRING)
    /\ DOMAIN CountryMap = {CountryOrder[i] : i \in 1..Len(CountryOrder)}
    /\ \A name \in DOMAIN CountryMap : CountryMap[name] \in Words
ASSUME WordAssumption ==
    {"female", "male", "child", "teenager", "adult", "senior"} \subseteq Words

IsNumber(q, i) == i \in 1..Len(q) /\ q[i].word = "#"
IsWord(q, i, S) == i \in 1..Len(q) /\ q[i].word \in S

\* A word of S, whole: the patterns with \b around them.
HasWord(q, S) == \E i \in 1..Len(q) : IsWord(q, i, S)

\* s in q, wherever it stands.
HasPart(q, s) ==
    \E i \in 1..Len(q) : q[i].word # "#" /\ s \in Contains[q[i].word]
-----------------------------------------------------------------------------
FemaleWords == {"female", "females", "woman", "women", "lady", "ladies",
                "girl", "girls"}
MaleWords == {"male", "males", "man", "men", "gentleman", "gentlemen",
              "boy", "boys", "guy", "guys"}

GenderOf(q) ==
    IF HasWord(q, FemaleWords) THEN "female"
    ELSE IF HasWord(q, MaleWords) THEN "male" ELSE None

\* _RANGE_PATTERNS: where each of them finds its first number.
Between(q) ==
    {i \in 1..Len(q) :
        /\ IsNumber(q, i) /\ IsNumber(q, i + 2)
        /\ IsWord(q, i + 1, {"and", "to", "-"})
        /\ \/ IsWord(q, i - 1, {"between"})
           \/ /\ IsWord(q, i - 1, {"age", "ages"})
              /\ IsWord(q, i - 2, {"between"})}

Ages(q) ==
    {i \in 1..Len(q) :
        /\ IsNumber(q, i) /\ IsNumber(q, i + 2)
        /\ IsWord(q, i + 1, {"and", "to", "-"})
        /\ IsWord(q, i - 1, {"age", "ages"})}

Plain(q) ==
    {i \in 1..Len(q) :
        /\ IsNumber(q, i) /\ IsNumber(q, i + 2)
        /\ IsWord(q, i + 1, {"to", "-", "--"})}

First(S) == CHOOSE i \in S : \A j \in S : i <= j

\* Mutant of AgeRange: the numbers are taken in the order they come.
AgeRangeAsWritten(q) ==
    LET S == IF Between(q) # {} THEN Between(q)
             ELSE IF Ages(q) # {} THEN Ages(q) ELSE Plain(q)
    IN  IF S = {} THEN <<>> ELSE <<q[First(S)].number,
                                   q[First(S) + 2].number>>

\* _extract_age_range: the first pattern that matches, its leftmost match, the
\* smaller number first.
AgeRange(q) ==
    LET S == IF Between(q) # {} THEN Between(q)
             ELSE IF Ages(q) # {} THEN Ages(q) ELSE Plain(q)
        a == q[First(S)].number
        b == q[First(S) + 2].number
    IN  IF S = {} THEN <<>> ELSE IF a <= b THEN <<a, b>> ELSE <<b, a>>

\* above|over, below|under: the number after the first that has one.
Bound(q, S) ==
    LET at == {i \in 2..Len(q) : IsNumber(q, i) /\ IsWord(q, i - 1, S)}
    IN  IF at = {} THEN None ELSE q[First(at)].number

\* The first age group whose keyword is in the query.
GroupOf(q) ==
    IF HasPart(q, "child") THEN "child"
    ELSE IF HasPart(q, "teen") THEN "teenager"
    ELSE IF HasPart(q, "adult") THEN "adult"
    ELSE IF \E s \in {"senior", "elderly", "old"} : HasPart(q, s)
         THEN "senior" ELSE None

\* Mutant of CountryOf: the shortest name is tried first.
ShortestCountry(q) ==
    LET found == {i \in 1..Len(CountryOrder) : HasPart(q, CountryOrder[i])}
    IN  IF found = {} THEN None
        ELSE CountryMap[CountryOrder[
                CHOOSE i \in found : \A j \in found : j <= i]]

\* The longest country name in the query.
CountryOf(q) ==
    LET found == {i \in 1..Len(CountryOrder) : HasPart(q, CountryOrder[i])}
    IN  IF found = {} THEN None
        ELSE CountryMap[CountryOrder[First(found)]]

Young(q) == AgeRange(q) = <<>> /\ HasPart(q, "young")

\* parse_query; a result without any filter is None there.
Parse(q) ==
    [gender |-> GenderOf(q),
     minAge |-> IF AgeRange(q) # <<>> THEN AgeRange(q)[1]
                ELSE IF Young(q) THEN 16 ELSE Bound(q, {"above", "over"}),
     maxAge |-> IF AgeRange(q) # <<>> THEN AgeRange(q)[2]
                ELSE IF Young(q) THEN 24 ELSE Bound(q, {"below", "under"}),
     group |-> IF AgeRange(q) # <<>> \/ Young(q) THEN None ELSE GroupOf(q),
     country |-> CountryOf(q)]

Understood(found) == \E k \in DOMAIN found : found[k] # None
=============================================================================
