---------------------------- MODULE TokenLedger ----------------------------
(***************************************************************************)
(* What the refresh_tokens table promises, with no request, transaction,   *)
(* clock or network in it: a token is issued once, moves from live to      *)
(* spent, and never moves back.  A token that joins an existing family     *)
(* does so in the same step that spends the token it was exchanged for.    *)
(* RefreshTokens, with the database's steps, implements this ledger, and   *)
(* so does WebSession, with the browser's.                                 *)
(***************************************************************************)
CONSTANT Token          \* tokens: records with a family field

VARIABLES live,         \* rows with revoked_at null
          spent         \* rows with revoked_at set

vars == <<live, spent>>

Recorded == live \cup spent

Init == live = {} /\ spent = {}

\* A login opens a family nobody has used.
Issue(n) ==
    /\ \A t \in Recorded : t.family # n.family
    /\ live' = live \cup {n}
    /\ UNCHANGED spent

\* A rotation trades t for n.  t may be spent already: two rotations of one
\* token can both go through.
Exchange(t, n) ==
    /\ t \in Recorded
    /\ n \notin Recorded
    /\ n.family = t.family
    /\ live' = (live \ {t}) \cup {n}
    /\ spent' = spent \cup {t}

\* A logout spends t and issues nothing.
Revoke(t) ==
    /\ t \in live
    /\ live' = live \ {t}
    /\ spent' = spent \cup {t}

Next == \E t \in Token :
            \/ Issue(t)
            \/ Revoke(t)
            \/ \E n \in Token : Exchange(t, n)

Spec == Init /\ [][Next]_vars
=============================================================================
