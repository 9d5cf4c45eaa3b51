------------------------ MODULE RefreshTokensProofs ------------------------
(***************************************************************************)
(* Theorems about RefreshTokens, for every number of requests and families *)
(* and every bound.  IInv is the inductive invariant behind the safety     *)
(* properties and the refinement of TokenLedger.                           *)
(***************************************************************************)
EXTENDS RefreshTokens, TLAPS

\* A request at work presents a real token.
TokPresented == \A r \in Request : pc[r] # "idle" => tok[r] \in Token

\* Families come from Login, so an unminted one appears nowhere.
FamiliesMinted ==
    /\ \A t \in held \cup Stored : t.family \in minted
    /\ \A r \in Request : pc[r] # "idle" => tok[r].family \in minted

\* What a request's transaction has written, by where the request is.
Shape(r) ==
    /\ put[r] # {} => pc[r] \in {"answer", "commit"}
    /\ \A a, b \in put[r] : a = b
    /\ \A a \in put[r] : /\ a.token.family = tok[r].family
                         /\ a.token = tok[r] => mark[r] = {}
                         /\ a.token # tok[r] => mark[r] = {tok[r]}
    /\ mark[r] # {} =>
           pc[r] \in {"insert", "revoke", "answer", "commit", "raise"}
    /\ mark[r] \subseteq Stored
    /\ pc[r] = "insert" => mark[r] = {tok[r]}
    /\ pc[r] \in {"answer", "commit"} => mark[r] \subseteq {tok[r]}
    /\ Rotating(r) => tok[r] \in Stored

\* Only recorded tokens are revoked, or about to be locked for it.
RevokedStored ==
    /\ revoked \subseteq Stored
    /\ \A r \in Request : todo[r] \subseteq Stored

\* The unique index: a pending INSERT clashes with no row and no other one.
PutsDisjoint ==
    \A r \in Request : \A a \in put[r] :
        /\ a.token \notin Stored
        /\ \A q \in Request \ {r} : \A b \in put[q] : a.token # b.token

\* A login in progress is alone in its family.
LoginAlone ==
    \A r \in Request : \A a \in put[r] : a.token = tok[r] =>
        /\ \A t \in Stored : t.family # tok[r].family
        /\ \A q \in Request \ {r} :
              \A b \in put[q] : b.token.family # tok[r].family

\* Outside the families that overlapped, a rotation is alone in its family
\* and holds its only live token.
RotatesAlone ==
    \A r \in Request : Rotating(r) /\ tok[r].family \notin overlap =>
        /\ LiveIn(tok[r].family) \subseteq {tok[r]}
        /\ \A q \in Request \ {r} :
              Rotating(q) => tok[q].family # tok[r].family

TInv == TypeOK /\ TokPresented

IInv == /\ TInv
        /\ FamiliesMinted
        /\ \A r \in Request : Shape(r)
        /\ RevokedStored /\ PutsDisjoint /\ LoginAlone /\ RotatesAlone
        /\ UniqueHash /\ ExchangeRevokes /\ ForkNeedsOverlap
-----------------------------------------------------------------------------
\* The types survive every step.
LEMMA TypeStep == TInv /\ [Next]_vars => TInv'
<1> SUFFICES ASSUME TInv, [Next]_vars PROVE TInv'
  OBVIOUS
<1> USE TTLAssumption, BoundsAssumption, NoTokenAssumption
<1> USE DEF TInv, TypeOK, TokPresented, Labels, Replies, worldVars, tableVars,
            txnVars, localVars, Goto, Raise, EndSession, Present
<1>1. CASE Tick
  BY <1>1 DEF Tick
<1>2. ASSUME NEW r \in Request, NEW f \in Family, Login(r, f) PROVE TInv'
  BY <1>2 DEF Login, Token, Row
<1>3. ASSUME NEW r \in Request, NothingPresented(r) PROVE TInv'
  BY <1>3 DEF NothingPresented
<1>4. ASSUME NEW r \in Request, NEW t \in held, RefreshRefused(r, t)
      PROVE  TInv'
  BY <1>4 DEF RefreshRefused
<1>5. ASSUME NEW r \in Request, NEW t \in held, RefreshStart(r, t) PROVE TInv'
  BY <1>5 DEF RefreshStart
<1>6. ASSUME NEW r \in Request, NEW t \in held, LogoutStart(r, t) PROVE TInv'
  BY <1>6 DEF LogoutStart
<1>7. ASSUME NEW r \in Request, SelectUnknown(r) PROVE TInv'
  BY <1>7 DEF SelectUnknown
<1>8. ASSUME NEW r \in Request, SelectRevoked(r) PROVE TInv'
  BY <1>8 DEF SelectRevoked
<1>9. ASSUME NEW r \in Request, SelectExpired(r) PROVE TInv'
  BY <1>9 DEF SelectExpired
<1>10. ASSUME NEW r \in Request, SelectLive(r) PROVE TInv'
  BY <1>10 DEF SelectLive, Token
<1>11. ASSUME NEW r \in Request, UserRefused(r) PROVE TInv'
  BY <1>11 DEF UserRefused
<1>12. ASSUME NEW r \in Request, UserFound(r) PROVE TInv'
  BY <1>12 DEF UserFound
<1>13. ASSUME NEW r \in Request, RotateUpdate(r) PROVE TInv'
  BY <1>13 DEF RotateUpdate
<1>14. ASSUME NEW r \in Request, RotateInsert(r) PROVE TInv'
  BY <1>14 DEF RotateInsert, NewRow, NewToken, Token, Row
<1>15. ASSUME NEW r \in Request, RotateConflict(r) PROVE TInv'
  BY <1>15 DEF RotateConflict
<1>16. ASSUME NEW r \in Request, RevokeScan(r) PROVE TInv'
  BY <1>16 DEF RevokeScan, LiveIn, Live, Stored, Row
<1>17. ASSUME NEW r \in Request, RevokeRow(r) PROVE TInv'
  BY <1>17 DEF RevokeRow
<1>18. ASSUME NEW r \in Request, RevokeDeadlock(r) PROVE TInv'
  BY <1>18 DEF RevokeDeadlock
<1>19. ASSUME NEW r \in Request, ReuseDetected(r) PROVE TInv'
  BY <1>19 DEF ReuseDetected
<1>20. ASSUME NEW r \in Request, LogoutUpdate(r) PROVE TInv'
  BY <1>20 DEF LogoutUpdate, Live, Stored, Row
<1>21. ASSUME NEW r \in Request, Answer(r) PROVE TInv'
  BY <1>21 DEF Answer, PutTokens, Row
<1>22. ASSUME NEW r \in Request, Commit(r) PROVE TInv'
  BY <1>22 DEF Commit, PutTokens, Row
<1>23. ASSUME NEW r \in Request, Rollback(r) PROVE TInv'
  BY <1>23 DEF Rollback
<1>24. ASSUME NEW r \in Request, ConnectionLost(r) PROVE TInv'
  BY <1>24 DEF ConnectionLost
<1>25. CASE UNCHANGED vars
  BY <1>25 DEF vars
<1> QED
  BY <1>1, <1>2, <1>3, <1>4, <1>5, <1>6, <1>7, <1>8, <1>9, <1>10, <1>11, <1>12,
     <1>13, <1>14, <1>15, <1>16, <1>17, <1>18, <1>19, <1>20, <1>21, <1>22,
     <1>23, <1>24, <1>25 DEF Next, ClientStep, ServerStep

\* Every variable keeps its shape: no clock, label or row leaves its range.
THEOREM TypeCorrect == Spec => []TypeOK
<1>1. Init => TInv
  BY TTLAssumption, BoundsAssumption, NoTokenAssumption
     DEF Init, TInv, TypeOK, TokPresented, Labels, Replies
<1>2. TInv => TypeOK
  BY DEF TInv
<1> QED
  BY <1>1, <1>2, TypeStep, PTL DEF Spec
-----------------------------------------------------------------------------
\* What most steps of a request are: nothing committed, no new INSERT, no new
\* rotation.
Quiet(r) ==
    /\ UNCHANGED <<minted, rows, revoked, lineage, overlap>>
    /\ held' \subseteq held \cup PutTokens(r)
    /\ \A q \in Request \ {r} :
          /\ pc'[q] = pc[q] /\ tok'[q] = tok[q] /\ todo'[q] = todo[q]
          /\ mark'[q] = mark[q] /\ put'[q] = put[q]
    /\ put'[r] # {} => put'[r] = put[r] /\ tok'[r] = tok[r]
    /\ Rotating(r)' => Rotating(r) /\ tok'[r] = tok[r]
    /\ todo'[r] \subseteq Stored
    /\ pc'[r] # "idle" => tok'[r].family \in minted

\* A quiet step that keeps its own request in shape keeps the invariant.
LEMMA QuietStep ==
    ASSUME NEW r \in Request, IInv, TInv', Quiet(r), Shape(r)'
    PROVE  IInv'
<1> USE DEF IInv
<1>1. Stored' = Stored /\ Live' = Live
  BY DEF Quiet, Stored, Live
<1>2. \A f : LiveIn(f)' = LiveIn(f)
  BY <1>1 DEF LiveIn
<1>3. \A q \in Request \ {r} : Rotating(q)' <=> Rotating(q)
  BY DEF Quiet, Rotating
<1>4. FamiliesMinted'
  BY <1>1 DEF FamiliesMinted, Quiet, PutTokens, Shape, TInv, TokPresented
<1>5. \A q \in Request : Shape(q)'
  <2>1. SUFFICES ASSUME NEW q \in Request \ {r} PROVE Shape(q)'
    OBVIOUS
  <2>2. Shape(q)
    OBVIOUS
  <2> QED
    BY <1>1, <1>3, <2>2 DEF Shape, Quiet
<1>6. RevokedStored'
  BY <1>1 DEF RevokedStored, Quiet
<1>7. PutsDisjoint'
  BY <1>1 DEF PutsDisjoint, Quiet
<1>8. LoginAlone'
  BY <1>1 DEF LoginAlone, Quiet
<1>9. RotatesAlone'
  BY <1>2, <1>3 DEF RotatesAlone, Quiet
<1>10. UniqueHash' /\ ExchangeRevokes' /\ ForkNeedsOverlap'
  BY <1>1, <1>2 DEF UniqueHash, ExchangeRevokes, ForkNeedsOverlap, Quiet
<1> QED
  BY <1>4, <1>5, <1>6, <1>7, <1>8, <1>9, <1>10
\* Steps that commit nothing, insert nothing and start no rotation.
LEMMA QuietSteps ==
    ASSUME NEW r \in Request, IInv, TInv',
           \/ NothingPresented(r)
           \/ \E t \in held : \/ RefreshRefused(r, t)
                              \/ RefreshStart(r, t)
                              \/ LogoutStart(r, t)
           \/ SelectUnknown(r) \/ SelectRevoked(r)  \/ SelectExpired(r)
           \/ UserRefused(r)   \/ UserFound(r)      \/ RotateUpdate(r)
           \/ RotateConflict(r) \/ RevokeScan(r)    \/ RevokeRow(r)
           \/ RevokeDeadlock(r) \/ ReuseDetected(r) \/ LogoutUpdate(r)
           \/ Answer(r)         \/ Rollback(r)      \/ ConnectionLost(r)
    PROVE  IInv'
<1> SUFFICES Quiet(r) /\ Shape(r)'
  BY QuietStep
<1>1. Shape(r) /\ FamiliesMinted /\ RevokedStored /\ TypeOK /\ TokPresented
  BY DEF IInv, TInv
<1>2. UNCHANGED rows => Stored' = Stored
  BY DEF Stored
<1> USE <1>1, <1>2
    DEF Quiet, Shape, Rotating, FamiliesMinted, RevokedStored, TypeOK,
        TokPresented, worldVars, tableVars, txnVars, localVars,
        Goto, Raise, EndSession, Present
<1>3. CASE NothingPresented(r)
  BY <1>3 DEF NothingPresented
<1>4. ASSUME NEW t \in held, RefreshRefused(r, t) PROVE Quiet(r) /\ Shape(r)'
  BY <1>4 DEF RefreshRefused
<1>5. ASSUME NEW t \in held, RefreshStart(r, t) PROVE Quiet(r) /\ Shape(r)'
  BY <1>5 DEF RefreshStart
<1>6. ASSUME NEW t \in held, LogoutStart(r, t) PROVE Quiet(r) /\ Shape(r)'
  BY <1>6 DEF LogoutStart
<1>7. CASE SelectUnknown(r)
  BY <1>7 DEF SelectUnknown
<1>8. CASE SelectRevoked(r)
  BY <1>8 DEF SelectRevoked
<1>9. CASE SelectExpired(r)
  BY <1>9 DEF SelectExpired
<1>10. CASE UserRefused(r)
  BY <1>10 DEF UserRefused
<1>11. CASE UserFound(r)
  BY <1>11 DEF UserFound
<1>12. CASE RotateUpdate(r)
  BY <1>12 DEF RotateUpdate
<1>13. CASE RotateConflict(r)
  BY <1>13 DEF RotateConflict
<1>14. CASE RevokeScan(r)
  BY <1>14 DEF RevokeScan, LiveIn, Live
<1>15. CASE RevokeRow(r)
  BY <1>15 DEF RevokeRow
<1>16. CASE RevokeDeadlock(r)
  BY <1>16 DEF RevokeDeadlock
<1>17. CASE ReuseDetected(r)
  BY <1>17 DEF ReuseDetected
<1>18. CASE LogoutUpdate(r)
  BY <1>18 DEF LogoutUpdate, Live
<1>19. CASE Answer(r)
  BY <1>19 DEF Answer, PutTokens
<1>20. CASE Rollback(r)
  BY <1>20 DEF Rollback
<1>21. CASE ConnectionLost(r)
  BY <1>21 DEF ConnectionLost
<1> QED
  BY <1>3, <1>4, <1>5, <1>6, <1>7, <1>8, <1>9, <1>10, <1>11, <1>12, <1>13,
     <1>14, <1>15, <1>16, <1>17, <1>18, <1>19, <1>20, <1>21
\* A login takes a family that appears nowhere else.
LEMMA LoginStep ==
    ASSUME NEW r \in Request, NEW f \in Family, IInv, TInv', Login(r, f)
    PROVE  IInv'
<1> DEFINE n == [token |-> [family |-> f, iat |-> clock],
                 expires |-> clock + RefreshTTL]
<1> USE DEF IInv
<1>1. /\ put' = [put EXCEPT ![r] = {n}] /\ tok' = [tok EXCEPT ![r] = n.token]
      /\ pc[r] = "idle" /\ pc' = [pc EXCEPT ![r] = "answer"]
      /\ f \notin minted /\ minted' = minted \cup {f}
      /\ n.token.family = f
      /\ UNCHANGED <<held, rows, revoked, lineage, overlap, todo, mark>>
  BY DEF Login, Present, Goto, tableVars
<1>2. /\ Stored' = Stored /\ \A g : LiveIn(g)' = LiveIn(g)
      /\ \A t \in Stored : t.family # f
  BY <1>1 DEF Stored, Live, LiveIn, FamiliesMinted
<1>3. \A q \in Request \ {r} :
         /\ pc'[q] = pc[q] /\ tok'[q] = tok[q] /\ mark'[q] = mark[q]
         /\ put'[q] = put[q] /\ (Rotating(q)' <=> Rotating(q))
  BY <1>1 DEF TInv, TypeOK, Rotating
<1>4. /\ put'[r] = {n} /\ tok'[r] = n.token /\ mark'[r] = {}
      /\ pc'[r] = "answer" /\ ~Rotating(r)'
  BY <1>1 DEF TInv, TypeOK, Rotating, Shape
<1>5. \A q \in Request \ {r} : \A b \in put[q] : b.token.family # f
  BY <1>1 DEF Shape, FamiliesMinted
<1>6. FamiliesMinted'
  BY <1>1, <1>2, <1>3, <1>4 DEF FamiliesMinted
<1>7. \A q \in Request : Shape(q)'
  BY <1>2, <1>3, <1>4 DEF Shape
<1>8. RevokedStored' /\ UniqueHash' /\ ExchangeRevokes' /\ ForkNeedsOverlap'
  BY <1>1, <1>2
     DEF RevokedStored, UniqueHash, ExchangeRevokes, ForkNeedsOverlap
<1>9. PutsDisjoint'
  BY <1>1, <1>2, <1>3, <1>4, <1>5 DEF PutsDisjoint
<1>10. LoginAlone'
  BY <1>1, <1>2, <1>3, <1>4, <1>5 DEF LoginAlone, Shape
<1>11. RotatesAlone'
  BY <1>1, <1>2, <1>3, <1>4 DEF RotatesAlone
<1> QED
  BY <1>6, <1>7, <1>8, <1>9, <1>10, <1>11

\* A rotation begins.  If it is not recorded as an overlap, it is alone.
LEMMA SelectLiveStep ==
    ASSUME NEW r \in Request, IInv, TInv', SelectLive(r)
    PROVE  IInv'
<1> USE DEF IInv
<1>1. /\ pc[r] = "select" /\ pc' = [pc EXCEPT ![r] = "user"]
      /\ tok[r] \in Stored /\ tok[r] \in Live
      /\ overlap' = IF Overlapped(r) THEN overlap \cup {tok[r].family}
                                     ELSE overlap
      /\ UNCHANGED <<held, minted, rows, revoked, lineage, tok, todo, mark,
                     put>>
  BY DEF SelectLive, Goto, tableVars, txnVars, worldVars, Stored, Live
<1>2. Stored' = Stored /\ \A g : LiveIn(g)' = LiveIn(g)
  BY <1>1 DEF Stored, Live, LiveIn
<1>3. \A q \in Request \ {r} :
         pc'[q] = pc[q] /\ (Rotating(q)' <=> Rotating(q))
  BY <1>1 DEF TInv, TypeOK, Rotating
<1>4. pc'[r] = "user" /\ put[r] = {} /\ mark[r] = {}
  BY <1>1 DEF TInv, TypeOK, Shape
<1>5. FamiliesMinted' /\ RevokedStored' /\ PutsDisjoint' /\ LoginAlone'
  BY <1>1, <1>2, <1>3
     DEF FamiliesMinted, RevokedStored, PutsDisjoint, LoginAlone
<1>6. \A q \in Request : Shape(q)'
  BY <1>1, <1>2, <1>3, <1>4 DEF Shape
<1>7. UniqueHash' /\ ExchangeRevokes' /\ ForkNeedsOverlap'
  BY <1>1, <1>2 DEF UniqueHash, ExchangeRevokes, ForkNeedsOverlap
<1>8. RotatesAlone'
  <2>1. SUFFICES ASSUME NEW q \in Request, Rotating(q)',
                        tok[q].family \notin overlap'
                 PROVE  /\ LiveIn(tok[q].family) \subseteq {tok[q]}
                        /\ \A p \in Request \ {q} :
                              Rotating(p)' => tok[p].family # tok[q].family
    BY <1>1, <1>2 DEF RotatesAlone
  <2>2. CASE q = r
    <3>1. ~Overlapped(r) /\ tok[r].family \notin overlap
      BY <1>1, <2>1, <2>2
    <3>2. tok[r] \in LiveIn(tok[r].family) /\ tok[r].family \in Family
      BY <1>1 DEF LiveIn, TInv, TypeOK, TokPresented, Token
    <3> QED
      BY <1>3, <2>2, <3>1, <3>2 DEF ForkNeedsOverlap, Overlapped
  <2>3. CASE q # r
    BY <1>1, <1>3, <2>1, <2>3 DEF RotatesAlone, Overlapped
  <2> QED
    BY <2>2, <2>3
<1> QED
  BY <1>5, <1>6, <1>7, <1>8

\* The INSERT of a rotation, past the unique index.
LEMMA RotateInsertStep ==
    ASSUME NEW r \in Request, IInv, TInv', RotateInsert(r)
    PROVE  IInv'
<1> DEFINE n == NewRow(r)
<1> USE DEF IInv
<1>1. /\ pc[r] = "insert" /\ pc' = [pc EXCEPT ![r] = "answer"]
      /\ put' = [put EXCEPT ![r] = {n}]
      /\ n.token \notin Stored /\ n.token.family = tok[r].family
      /\ ~PutByOther(r, n.token)
      /\ UNCHANGED <<held, minted, rows, revoked, lineage, overlap, tok, todo,
                     mark>>
  BY DEF RotateInsert, NewRow, NewToken, Goto, tableVars, worldVars, localVars
<1>2. Stored' = Stored /\ \A g : LiveIn(g)' = LiveIn(g)
  BY <1>1 DEF Stored, Live, LiveIn
<1>3. \A q \in Request \ {r} :
         pc'[q] = pc[q] /\ put'[q] = put[q] /\ (Rotating(q)' <=> Rotating(q))
  BY <1>1 DEF TInv, TypeOK, Rotating
<1>4. pc'[r] = "answer" /\ put'[r] = {n}
  BY <1>1 DEF TInv, TypeOK
<1>5. /\ Rotating(r) /\ mark[r] = {tok[r]}
      /\ tok[r] \in Stored /\ n.token # tok[r]
  BY <1>1 DEF Rotating, Shape
<1>6. \A q \in Request \ {r} : \A b \in put[q] : b.token # n.token
  BY <1>1 DEF PutByOther, PutTokens
<1>7. FamiliesMinted' /\ RevokedStored'
  BY <1>1, <1>2, <1>3 DEF FamiliesMinted, RevokedStored
<1>8. \A q \in Request : Shape(q)'
  BY <1>1, <1>2, <1>3, <1>4, <1>5 DEF Shape
<1>9. UniqueHash' /\ ExchangeRevokes' /\ ForkNeedsOverlap'
  BY <1>1, <1>2 DEF UniqueHash, ExchangeRevokes, ForkNeedsOverlap
<1>10. PutsDisjoint'
  BY <1>1, <1>2, <1>3, <1>4, <1>6 DEF PutsDisjoint
<1>11. LoginAlone'
  BY <1>1, <1>2, <1>3, <1>4, <1>5 DEF LoginAlone
<1>12. RotatesAlone'
  BY <1>1, <1>2, <1>3, <1>5 DEF RotatesAlone
<1> QED
  BY <1>7, <1>8, <1>9, <1>10, <1>11, <1>12
\* A commit adds the pending row and spends the pending marks.
LEMMA CommitTable ==
    ASSUME NEW r \in Request, IInv, Commit(r)
    PROVE  /\ Stored' = Stored \cup PutTokens(r)
           /\ revoked' = revoked \cup mark[r]
           /\ \A a, b \in put[r] : a = b
           /\ \A a \in put[r] :
                 /\ a.token \in Token /\ a.token \notin Stored
                 /\ a.token.family = tok[r].family
                 /\ \/ /\ a.token = tok[r] /\ mark[r] = {}
                       /\ \A t \in Stored : t.family # tok[r].family
                    \/ /\ a.token # tok[r] /\ mark[r] = {tok[r]}
                       /\ Rotating(r) /\ tok[r] \in Stored
           /\ mark[r] \subseteq {tok[r]} /\ mark[r] \subseteq Stored
<1> USE DEF IInv
<1>1. /\ rows' = rows \cup put[r] /\ revoked' = revoked \cup mark[r]
      /\ pc[r] = "commit"
  BY DEF Commit
<1>2. Stored' = Stored \cup PutTokens(r)
  BY <1>1 DEF Stored, PutTokens
<1>3. \A a \in put[r] : a.token # tok[r] => Rotating(r)
  BY DEF Rotating
<1>4. \A a \in put[r] : a.token \in Token
  BY DEF TInv, TypeOK, Row
<1> QED
  BY <1>1, <1>2, <1>3, <1>4 DEF Shape, LoginAlone, PutsDisjoint

LEMMA CommitStep ==
    ASSUME NEW r \in Request, IInv, TInv', Commit(r)
    PROVE  IInv'
<1> USE DEF IInv
<1>1. /\ pc' = [pc EXCEPT ![r] = "idle"]
      /\ todo' = [todo EXCEPT ![r] = {}]
      /\ mark' = [mark EXCEPT ![r] = {}]
      /\ put' = [put EXCEPT ![r] = {}]
      /\ rows' = rows \cup put[r]
      /\ lineage' = lineage \cup
                       {<<n, tok[r]>> : n \in PutTokens(r) \ {tok[r]}}
      /\ UNCHANGED <<held, minted, overlap, tok>> /\ pc[r] = "commit"
  BY DEF Commit, EndSession, Goto, worldVars
<1>2. \A q \in Request \ {r} :
         /\ pc'[q] = pc[q] /\ todo'[q] = todo[q] /\ mark'[q] = mark[q]
         /\ put'[q] = put[q] /\ (Rotating(q)' <=> Rotating(q))
  BY <1>1 DEF TInv, TypeOK, Rotating
<1>3. /\ pc'[r] = "idle" /\ todo'[r] = {} /\ mark'[r] = {} /\ put'[r] = {}
      /\ ~Rotating(r)'
  BY <1>1 DEF TInv, TypeOK, Rotating
<1>4. FamiliesMinted'
  BY <1>1, <1>2, <1>3, CommitTable DEF FamiliesMinted, PutTokens
<1>5. \A q \in Request : Shape(q)'
  BY <1>1, <1>2, <1>3, CommitTable DEF Shape
<1>6. RevokedStored'
  BY <1>1, <1>2, <1>3, CommitTable DEF RevokedStored
<1>7. PutsDisjoint'
  BY <1>1, <1>2, <1>3, CommitTable DEF PutsDisjoint, PutTokens
<1>8. LoginAlone'
  BY <1>1, <1>2, <1>3, CommitTable DEF LoginAlone, PutTokens
<1>9. UniqueHash'
  BY <1>1, CommitTable DEF UniqueHash, Stored
<1>10. ExchangeRevokes'
  BY <1>1, CommitTable DEF ExchangeRevokes, PutTokens
<1>11. \A f, t : t \in LiveIn(f)' /\ t \in Stored =>
           t \in LiveIn(f) /\ t \notin mark[r]
  BY CommitTable DEF LiveIn, Live
<1>12. \A f, t : t \in LiveIn(f)' /\ t \notin Stored =>
           f = tok[r].family /\ \E a \in put[r] : t = a.token
  BY CommitTable DEF LiveIn, Live, PutTokens
<1>13. RotatesAlone'
  <2>1. SUFFICES ASSUME NEW q \in Request, Rotating(q)',
                        tok[q].family \notin overlap
                 PROVE  /\ LiveIn(tok[q].family)' \subseteq {tok[q]}
                        /\ \A p \in Request \ {q} :
                              Rotating(p)' => tok[p].family # tok[q].family
    BY <1>1 DEF RotatesAlone
  <2>2. q # r /\ Rotating(q) /\ tok[q] \in Stored
    BY <1>2, <1>3, <2>1 DEF Shape
  <2>3. ASSUME NEW a \in put[r] PROVE tok[r].family # tok[q].family
    BY <2>1, <2>2, CommitTable DEF RotatesAlone
  <2>4. LiveIn(tok[q].family) \subseteq {tok[q]}
    BY <2>1, <2>2 DEF RotatesAlone
  <2>5. LiveIn(tok[q].family)' \subseteq LiveIn(tok[q].family)
    BY <1>1, <1>11, <1>12, <2>3
  <2>6. ASSUME NEW p \in Request \ {q}, Rotating(p)'
        PROVE  tok[p].family # tok[q].family
    BY <1>2, <1>3, <2>1, <2>2, <2>6 DEF RotatesAlone
  <2> QED
    BY <2>4, <2>5, <2>6
<1>14. ForkNeedsOverlap'
  <2>1. SUFFICES ASSUME NEW f \in Family \ overlap,
                        NEW s \in LiveIn(f)', NEW t \in LiveIn(f)'
                 PROVE  s = t
    BY <1>1 DEF ForkNeedsOverlap
  <2>2. CASE s \in Stored /\ t \in Stored
    BY <1>11, <2>2 DEF ForkNeedsOverlap
  <2>3. CASE s \notin Stored /\ t \notin Stored
    BY <1>12, <2>3, CommitTable
  <2>4. ASSUME NEW o \in LiveIn(f)', NEW n \in LiveIn(f)',
               o \in Stored, n \notin Stored
        PROVE  FALSE
    <3>1. PICK a \in put[r] : n = a.token /\ f = tok[r].family
      BY <1>12, <2>4
    <3>2. o \in LiveIn(f) /\ o \notin mark[r] /\ o.family = f /\ o \in Stored
      BY <1>11, <2>4 DEF LiveIn
    <3>3. Rotating(r) /\ mark[r] = {tok[r]}
      BY <3>1, <3>2, CommitTable
    <3> QED
      BY <3>1, <3>2, <3>3 DEF RotatesAlone
  <2> QED
    BY <2>2, <2>3, <2>4
<1> QED
  BY <1>4, <1>5, <1>6, <1>7, <1>8, <1>9, <1>10, <1>13, <1>14

\* Time passes, or nothing does.
LEMMA IdleStep ==
    ASSUME IInv, TInv', Tick \/ UNCHANGED vars
    PROVE  IInv'
<1> USE DEF IInv
<1>1. UNCHANGED <<held, minted, rows, revoked, lineage, overlap, pc, tok, todo,
                  mark, put>>
  BY DEF Tick, vars, tableVars, localVars, txnVars
<1>2. /\ Stored' = Stored /\ \A f : LiveIn(f)' = LiveIn(f)
      /\ \A r : Rotating(r)' <=> Rotating(r)
  BY <1>1 DEF Stored, Live, LiveIn, Rotating
<1>3. \A r \in Request : Shape(r)'
  BY <1>1, <1>2 DEF Shape
<1> QED
  BY <1>1, <1>2, <1>3
     DEF FamiliesMinted, RevokedStored, PutsDisjoint, LoginAlone, RotatesAlone,
         UniqueHash, ExchangeRevokes, ForkNeedsOverlap
-----------------------------------------------------------------------------
LEMMA InvInit == Init => IInv
<1> SUFFICES ASSUME Init PROVE IInv
  OBVIOUS
<1>1. TInv
  BY TTLAssumption, BoundsAssumption, NoTokenAssumption
     DEF Init, TInv, TypeOK, TokPresented, Labels, Replies
<1> QED
  BY <1>1
     DEF Init, IInv, FamiliesMinted, Shape, RevokedStored, PutsDisjoint,
         LoginAlone, RotatesAlone, Rotating, UniqueHash, ExchangeRevokes,
         ForkNeedsOverlap, LiveIn, Live, Stored, PutTokens

LEMMA InvStep == IInv /\ [Next]_vars => IInv'
<1> SUFFICES ASSUME IInv, [Next]_vars PROVE IInv'
  OBVIOUS
<1>1. TInv'
  BY TypeStep DEF IInv
<1>2. CASE Tick \/ UNCHANGED vars
  BY <1>1, <1>2, IdleStep
<1>3. ASSUME NEW r \in Request,
             ClientStep(r) \/ ServerStep(r) \/ ConnectionLost(r)
      PROVE  IInv'
  <2>1. ASSUME NEW f \in Family, Login(r, f) PROVE IInv'
    BY <1>1, <2>1, LoginStep
  <2>2. CASE SelectLive(r)
    BY <1>1, <2>2, SelectLiveStep
  <2>3. CASE RotateInsert(r)
    BY <1>1, <2>3, RotateInsertStep
  <2>4. CASE Commit(r)
    BY <1>1, <2>4, CommitStep
  <2> QED
    BY <1>1, <1>3, <2>1, <2>2, <2>3, <2>4, QuietSteps
       DEF ClientStep, ServerStep
<1> QED
  BY <1>2, <1>3 DEF Next

THEOREM Invariance == Spec => []IInv
  BY InvInit, InvStep, PTL DEF Spec

\* The unique index holds up: no two rows ever carry one token.
THEOREM HashesUnique == Spec => []UniqueHash
<1>1. IInv => UniqueHash
  BY DEF IInv
<1> QED
  BY <1>1, Invariance, PTL

\* A committed exchange has revoked the token it was paid with.
THEOREM ExchangesRevoke == Spec => []ExchangeRevokes
<1>1. IInv => ExchangeRevokes
  BY DEF IInv
<1> QED
  BY <1>1, Invariance, PTL

\* A family has two live tokens only after two of its rotations overlapped.
THEOREM ForksNeedOverlap == Spec => []ForkNeedsOverlap
<1>1. IInv => ForkNeedsOverlap
  BY DEF IInv
<1> QED
  BY <1>1, Invariance, PTL
-----------------------------------------------------------------------------
\* The response leaves before the commit.  A token that has been sent out is
\* lost only with the connection of the request that sent it: every other
\* step leaves the table's rows and the answered transactions as they are.
KeepsTokens(r) ==
    /\ rows \subseteq rows'
    /\ \A q \in Request : pc[q] = "commit" =>
          \/ put[q] \subseteq rows'
          \/ pc'[q] = "commit" /\ put'[q] = put[q]
    /\ \A t \in held' : \/ t \in held
                        \/ pc'[r] = "commit" /\ t \in PutTokens(r)'

LEMMA KeepStep ==
    ASSUME TypeOK, NEW r \in Request, ClientStep(r) \/ ServerStep(r)
    PROVE  KeepsTokens(r)
<1>1. /\ pc \in [Request -> Labels] /\ put \in [Request -> SUBSET Row]
      /\ "idle" \in Labels /\ "commit" \in Labels
  BY DEF TypeOK, Labels
<1> USE <1>1
    DEF KeepsTokens, worldVars, tableVars, txnVars, localVars, Goto, Raise,
        EndSession, Present
<1>2. CASE ClientStep(r)
  BY <1>2 DEF ClientStep, Login, NothingPresented, RefreshRefused,
              RefreshStart, LogoutStart
<1>3. CASE SelectUnknown(r) \/ SelectRevoked(r) \/ SelectExpired(r)
           \/ SelectLive(r) \/ UserRefused(r) \/ UserFound(r)
  BY <1>3 DEF SelectUnknown, SelectRevoked, SelectExpired, SelectLive,
              UserRefused, UserFound
<1>4. CASE RotateUpdate(r) \/ RotateInsert(r) \/ RotateConflict(r)
  BY <1>4 DEF RotateUpdate, RotateInsert, RotateConflict
<1>5. CASE RevokeScan(r) \/ RevokeRow(r) \/ ReuseDetected(r)
           \/ LogoutUpdate(r) \/ Rollback(r)
  BY <1>5 DEF RevokeScan, RevokeRow, ReuseDetected, LogoutUpdate, Rollback
<1>6. CASE RevokeDeadlock(r)
  <2>1. pc[r] = "revoke"
    BY <1>6 DEF RevokeDeadlock
  <2> QED
    BY <1>6, <2>1 DEF RevokeDeadlock
<1>7. CASE Answer(r)
  <2>1. /\ pc'[r] = "commit" /\ PutTokens(r)' = PutTokens(r)
        /\ held' = held \cup PutTokens(r)
    BY <1>7 DEF Answer, PutTokens
  <2> QED
    BY <1>7, <2>1 DEF Answer
<1>8. CASE Commit(r)
  BY <1>8 DEF Commit
<1> QED
  BY <1>2, <1>3, <1>4, <1>5, <1>6, <1>7, <1>8 DEF ServerStep

LEMMA HeldStep ==
    TypeOK /\ TypeOK' /\ HeldAccounted /\ [Next]_vars => HeldAccounted'
<1> SUFFICES ASSUME TypeOK, TypeOK', HeldAccounted, [Next]_vars, losses' = 0,
                    NEW t \in held'
             PROVE  \/ t \in Stored'
                    \/ \E q \in Request : /\ pc'[q] = "commit"
                                           /\ t \in PutTokens(q)'
  BY DEF HeldAccounted
<1>1. CASE Tick \/ UNCHANGED vars
  <2>1. UNCHANGED <<held, rows, pc, put, losses>>
    BY <1>1 DEF Tick, vars, tableVars, txnVars
  <2> QED
    BY <2>1 DEF HeldAccounted, Stored, PutTokens
<1>2. ASSUME NEW r \in Request, ClientStep(r) \/ ServerStep(r)
      PROVE  \/ t \in Stored'
             \/ \E q \in Request : /\ pc'[q] = "commit"
                                    /\ t \in PutTokens(q)'
  <2>1. KeepsTokens(r)
    BY <1>2, KeepStep
  <2>2. losses = 0
    BY <1>2 DEF ClientStep, ServerStep, Login, NothingPresented,
       RefreshRefused, RefreshStart, LogoutStart, SelectUnknown,
       SelectRevoked, SelectExpired, SelectLive, UserRefused, UserFound,
       RotateUpdate, RotateInsert, RotateConflict, RevokeScan, RevokeRow,
       RevokeDeadlock, ReuseDetected, LogoutUpdate, Answer, Commit, Rollback,
       worldVars
  <2>3. CASE t \notin held
    BY <2>1, <2>3 DEF KeepsTokens
  <2>4. CASE t \in Stored
    BY <2>1, <2>4 DEF KeepsTokens, Stored
  <2>5. ASSUME NEW q \in Request, pc[q] = "commit", t \in PutTokens(q)
        PROVE  \/ t \in Stored'
               \/ pc'[q] = "commit" /\ t \in PutTokens(q)'
    BY <2>1, <2>5 DEF KeepsTokens, Stored, PutTokens
  <2> QED
    BY <2>2, <2>3, <2>4, <2>5 DEF HeldAccounted
<1>3. ASSUME NEW r \in Request, ConnectionLost(r) PROVE FALSE
  BY <1>3 DEF ConnectionLost, TypeOK
<1> QED
  BY <1>1, <1>2, <1>3 DEF Next

\* Clients hold only tokens that the table knows or is about to know, unless a
\* connection died between the response and the commit.
THEOREM HeldTokensAccounted == Spec => []HeldAccounted
<1>1. Init => HeldAccounted
  BY DEF Init, HeldAccounted
<1> QED
  BY <1>1, HeldStep, TypeCorrect, PTL DEF Spec
-----------------------------------------------------------------------------
\* A commit is one ledger step: a login issues, a rotation exchanges, a logout
\* revokes or comes too late to matter.
LEMMA CommitRefines ==
    ASSUME NEW r \in Request, IInv, Commit(r)
    PROVE  [Ledger!Next]_(Ledger!vars)
<1> USE DEF IInv
<1>1. /\ Stored' = Stored \cup PutTokens(r)
      /\ Live' = Stored' \ revoked'
      /\ revoked' = revoked \cup mark[r]
      /\ revoked \subseteq Stored /\ mark[r] \subseteq Stored
  BY CommitTable DEF Live, RevokedStored
<1>2. tok[r] \in Token
  BY DEF Commit, TInv, TokPresented
<1>3. CASE put[r] = {}
  <2>1. Stored' = Stored
    BY <1>1, <1>3 DEF PutTokens
  <2>2. CASE mark[r] \subseteq revoked
    BY <1>1, <2>1, <2>2 DEF Ledger!vars, Live
  <2>3. CASE ~(mark[r] \subseteq revoked)
    <3>1. mark[r] = {tok[r]} /\ tok[r] \in Live
      BY <1>1, <2>3, CommitTable DEF Live
    <3>2. Ledger!Revoke(tok[r])
      BY <1>1, <2>1, <3>1 DEF Ledger!Revoke, Live
    <3> QED
      BY <1>2, <3>2 DEF Ledger!Next
  <2> QED
    BY <2>2, <2>3
<1>4. ASSUME NEW a \in put[r] PROVE Ledger!Next
  <2>1. /\ Stored' = Stored \cup {a.token} /\ a.token \in Token
        /\ a.token \notin Stored /\ a.token.family = tok[r].family
    BY <1>1, <1>4, CommitTable DEF PutTokens
  <2>2. CASE a.token = tok[r]
    <3>1. mark[r] = {} /\ \A t \in Stored : t.family # a.token.family
      BY <2>1, <2>2, CommitTable
    <3>2. Ledger!Issue(a.token)
      BY <1>1, <2>1, <3>1 DEF Ledger!Issue, Ledger!Recorded, Live
    <3> QED
      BY <2>1, <3>2 DEF Ledger!Next
  <2>3. CASE a.token # tok[r]
    <3>1. mark[r] = {tok[r]} /\ tok[r] \in Stored
      BY <2>3, CommitTable
    <3>2. Ledger!Exchange(tok[r], a.token)
      BY <1>1, <2>1, <2>3, <3>1 DEF Ledger!Exchange, Ledger!Recorded, Live
    <3> QED
      BY <1>2, <2>1, <3>2 DEF Ledger!Next
  <2> QED
    BY <2>2, <2>3
<1> QED
  BY <1>3, <1>4

\* Every other step leaves the table alone.
LEMMA OnlyCommitWrites ==
    [Next]_vars => \/ \E r \in Request : Commit(r)
                   \/ UNCHANGED <<rows, revoked>>
<1> SUFFICES ASSUME [Next]_vars, \A r \in Request : ~Commit(r)
             PROVE  UNCHANGED <<rows, revoked>>
  OBVIOUS
<1> USE DEF tableVars
<1>1. CASE Tick \/ UNCHANGED vars
  BY <1>1 DEF Tick, vars
<1>2. ASSUME NEW r \in Request, ClientStep(r)
      PROVE  UNCHANGED <<rows, revoked>>
  BY <1>2 DEF ClientStep, Login, NothingPresented, RefreshRefused,
              RefreshStart, LogoutStart
<1>3. ASSUME NEW r \in Request, ServerStep(r)
      PROVE  UNCHANGED <<rows, revoked>>
  BY <1>3 DEF ServerStep, SelectUnknown, SelectRevoked, SelectExpired,
              SelectLive, UserRefused, UserFound, RotateUpdate, RotateInsert,
              RotateConflict, RevokeScan, RevokeRow, RevokeDeadlock,
              ReuseDetected, LogoutUpdate, Answer, Rollback
<1>4. ASSUME NEW r \in Request, ConnectionLost(r)
      PROVE  UNCHANGED <<rows, revoked>>
  BY <1>4 DEF ConnectionLost
<1> QED
  BY <1>1, <1>2, <1>3, <1>4 DEF Next

\* Refresh tokens implement the ledger: tokens are spent for good and an
\* exchange is one step, whatever interleaves, crashes or is rolled back.
THEOREM ImplementsLedger == Spec => LedgerSpec
<1>1. Init => Ledger!Init
  BY DEF Init, Ledger!Init, Live, Stored
<1>2. IInv /\ [Next]_vars => [Ledger!Next]_(Ledger!vars)
  <2> SUFFICES ASSUME IInv, [Next]_vars PROVE [Ledger!Next]_(Ledger!vars)
    OBVIOUS
  <2>1. CASE \E r \in Request : Commit(r)
    BY <2>1, CommitRefines
  <2>2. CASE UNCHANGED <<rows, revoked>>
    BY <2>2 DEF Ledger!vars, Live, Stored
  <2> QED
    BY <2>1, <2>2, OnlyCommitWrites
<1> QED
  BY <1>1, <1>2, Invariance, PTL DEF Spec, LedgerSpec, Ledger!Spec
=============================================================================
