----------------------------- MODULE MCListing -----------------------------
(***************************************************************************)
(* A small instance of Listing: three profiles, two of which were uploaded *)
(* together and tie in created_at.                                         *)
(***************************************************************************)
EXTENDS Listing, TLC

CONSTANT c1

P(i, g, co, grp, a, t) == [id |-> i, gender |-> g, country |-> co,
                           group |-> grp, age |-> a, created |-> t]

Profiles == {P(1, "female", "NG", "adult", 45, 2),
             P(2, "female", "NG", "adult", 20, 1),
             P(3, "male", "SS", "teenager", 19, 2)}

Capitals(w) == [Typed(w) EXCEPT !.upper = TRUE]
Padded(w) == [Typed(w) EXCEPT !.blanks = TRUE]

Listed == [NoFilters EXCEPT !.sortBy = "created_at", !.order = "asc"]

ByAge == [Listed EXCEPT !.sortBy = "age"]

ListRequests ==
    {Listed, [ByAge EXCEPT !.order = "desc"],
     [ByAge EXCEPT !.gender = Typed("female"), !.maxAge = 44]}
    \cup {[ByAge EXCEPT !.gender = t] :
            t \in {Typed("female"), Capitals("female"), Padded("female")}}

FirstPages == {<<1, 1>>, <<1, 2>>, <<2, 1>>, <<1, 3>>}

\* The words of the queries, with what they contain.
Inside == [w \in {"females", "women", "men", "adults", "teenage", "old",
                  "nigerian", "nigeria", "niger", "south sudan", "sudan",
                  "between", "aged", "ages", "and", "to", "-", "--", "over",
                  "under", "in", "young", "years", "happy"} |->
    CASE w = "adults" -> {"adult"}
      [] w = "teenage" -> {"teen"}
      [] w = "old" -> {"old"}
      [] w = "young" -> {"young"}
      [] w \in {"nigerian", "nigeria"} -> {"nigeria", "niger"}
      [] w = "niger" -> {"niger"}
      [] w = "south sudan" -> {"south sudan", "sudan"}
      [] w = "sudan" -> {"sudan"}
      [] OTHER -> {}]

Codes == "nigeria" :> "NG" @@ "niger" :> "NE" @@ "south sudan" :> "SS"
            @@ "sudan" :> "SD"
Used == {"female", "male", "child", "teenager", "adult", "senior",
         "NG", "NE", "SS", "SD"}
LongestFirst == <<"south sudan", "nigeria", "sudan", "niger">>

W(s) == [i \in 1..Len(s) |-> Word(s[i])]

NigerianWomen == [NoFilters EXCEPT !.gender = Typed("female"),
                    !.country = Typed("NG"), !.minAge = 20, !.maxAge = 45]

\* SOLUTION.md, section 3a, and test_query_normalization.py: ways to ask for
\* Nigerian women of 20 to 45.
Phrasings ==
    {W(<<"nigerian", "females">>) \o r : r \in {
        W(<<"between", "ages">>) \o <<Number(20), Word("and"), Number(45)>>,
        W(<<"between">>) \o <<Number(45), Word("to"), Number(20)>>,
        W(<<"ages">>) \o <<Number(20), Word("and"), Number(45)>>,
        W(<<"aged">>) \o <<Number(20), Word("to"), Number(45)>>}}
    \cup {W(<<"women", "aged">>)
            \o <<Number(20), Word("-"), Number(45)>>
            \o W(<<"adults", "in", "nigeria">>)}

Questions ==
    {[q |-> p, meant |-> NigerianWomen] : p \in Phrasings}
    \cup {[q |-> W(<<"young", "men", "in", "south sudan">>),
           meant |-> [NoFilters EXCEPT !.gender = Typed("male"),
                        !.country = Typed("SS"), !.minAge = 16,
                        !.maxAge = 24]],
          [q |-> W(<<"adults", "over">>) \o <<Number(19)>>
                    \o W(<<"under">>) \o <<Number(45)>>,
           meant |-> [NoFilters EXCEPT !.group = Typed("adult"),
                        !.minAge = 19, !.maxAge = 45]],
          [q |-> W(<<"happy">>), meant |-> None]}
=============================================================================
