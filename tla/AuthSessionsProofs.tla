------------------------- MODULE AuthSessionsProofs -------------------------
(***************************************************************************)
(* What is proved about AuthSessions for every number of users, requests   *)
(* and requests in flight, and for all lifetimes.                          *)
(*                                                                         *)
(* None of the safety properties is inductive as it stands.  What they     *)
(* lean on is Shape, which says where in its handler a request can be for  *)
(* its kind and what it has issued by then; with it a step can only add to *)
(* the set of dead tokens (DeadStaysDead), and each property follows from  *)
(* that and from what the request itself did last.                         *)
(***************************************************************************)
EXTENDS AuthSessions, TLAPS

(***************************************************************************)
(* Where a request can be, and what there is of it by then.                *)
(***************************************************************************)
\* What a request asked for, once it has arrived.
Asked(r) ==
    pc[r] # "idle" => /\ req[r].kind \in Kinds
                      /\ req[r].user \in User
                      /\ req[r].kind # "login" => req[r].token \in issued

\* The handler of each kind takes its own path.
OnPath(r) ==
    /\ pc[r] \in {"checkToken", "checkUser"} => req[r].kind # "login"
    /\ pc[r] = "revokeRefresh" => /\ req[r].kind \in {"refresh", "logout"}
                                  /\ todo[r] = {req[r].token}
    /\ pc[r] \in {"issueAccess", "issueRefresh"} => req[r].kind \in {"login", "refresh"}
    /\ pc[r] \in {"listAccess", "revokeAccess"} => req[r].kind = "logout"
    /\ pc[r] = "audit" => req[r].kind \in {"login", "logout"}
    /\ entry[r] # Null => /\ pc[r] \in {"revokeRefresh", "revokeAccess"}
                          /\ entry[r] \in todo[r]

\* A token exists only after its handler got that far.
IssuedOnTime(t) ==
    /\ req[t.by].kind \in {"login", "refresh"}
    /\ pc[t.by] \in {"audit", "reply", "done", "failed"}
                     \cup (IF t.type = "access" THEN {"issueRefresh"} ELSE {})

RowOfIssued(t) ==
    userToken[t] # Null => t \in issued /\ userToken[t].user = req[t.by].user

Shape == /\ \A r \in Request : Asked(r) /\ OnPath(r)
         /\ \A t \in issued : IssuedOnTime(t)
         /\ \A t \in Jti : RowOfIssued(t)

IInv == TypeOK /\ Shape

(***************************************************************************)
(* The type invariant.                                                     *)
(***************************************************************************)
\* Init: every variable starts in its type.
LEMMA InitTypeOK == Init => TypeOK
BY NullAssumption DEF Init, TypeOK, Kinds

\* Arrival of a request: it keeps the types of all it writes.
LEMMA ArriveTypeOK ==
    ASSUME TypeOK, NEW r \in Request, NEW kind \in Kinds, NEW u \in User,
           NEW t \in Jti \cup {Null}, NEW session \in Request \cup {Null},
           Arrive(r, kind, u, t, session)
    PROVE  /\ req' \in [Request -> [kind : Kinds \cup {"none"}, user : User \cup {Null},
                                    token : Jti \cup {Null}]]
           /\ start' \in [Request -> [dead : SUBSET Jti, handed : SUBSET Jti,
                                      session : Request \cup {Null}]]
           /\ seenActive' \subseteq Request
<1>1. Dead \in SUBSET Jti /\ Handed \in SUBSET Jti
  BY DEF TypeOK, Dead, Handed
<1> QED
  BY <1>1 DEF TypeOK, Arrive

\* Every action of Next, and stuttering, keeps the types.
LEMMA StepTypeOK == IInv /\ [Next]_vars => TypeOK'
<1> SUFFICES ASSUME IInv, [Next]_vars PROVE TypeOK'
  OBVIOUS
<1>0. /\ \A t \in Jti : t.by \in Request
      /\ \A r \in Request : pc[r] # "idle" => req[r].user \in User
      /\ TypeOK
  BY DEF IInv, Shape, Asked, Jti
<1> USE DEF TypeOK, table, local
<1>s. ASSUME NEW r \in Request, Sign(r) PROVE signedAt' \in [Request -> Nat]
  BY <1>0, <1>s DEF Sign
<1>1. ASSUME NEW r \in Request, NEW u \in User, NEW ok \in BOOLEAN, Login(r, u, ok)
      PROVE  TypeOK'
  <2>1. "login" \in Kinds /\ Null \in Jti \cup {Null} /\ r \in Request \cup {Null}
    BY DEF Kinds
  <2>2. Arrive(r, "login", u, Null, r)
    BY <1>1 DEF Login
  <2> QED
    BY <1>0, <1>1, <1>s, <2>1, <2>2, ArriveTypeOK DEF Login, Steps, Ends
<1>2. ASSUME NEW r \in Request, NEW kind \in Kinds \ {"login"}, NEW t \in Handed,
             Present(r, kind, t)
      PROVE  TypeOK'
  <2>1. t \in Jti /\ req[t.by].user \in User /\ start[t.by].session \in Request \cup {Null}
    BY <1>0 DEF Handed
  <2>2. Arrive(r, kind, req[t.by].user, t, start[t.by].session)
    BY <1>2 DEF Present
  <2> QED
    BY <1>0, <1>2, <2>1, <2>2, ArriveTypeOK DEF Present, Steps, Ends
<1>3. ASSUME NEW r \in Request, CheckToken(r) PROVE TypeOK'
  BY <1>0, <1>3 DEF CheckToken, Steps, Ends
<1>4. ASSUME NEW r \in Request, CheckUser(r) PROVE TypeOK'
  <2>1. req[r].token \in Jti
    BY <1>4 DEF CheckUser, IInv, Shape, Asked, OnPath
  <2>2. todo' \in [Request -> SUBSET Jti]
    BY <1>0, <1>4, <2>1 DEF CheckUser
  <2>3. pc' \in [Request -> {"idle"} \cup Steps \cup Ends]
    BY <1>0, <1>4 DEF CheckUser, Steps, Ends
  <2> QED
    BY <1>0, <1>4, <2>2, <2>3 DEF CheckUser
<1>a. ASSUME NEW r \in Request, NEW t \in Jti, Invalidated(r, t)
      PROVE  /\ todo' \in [Request -> SUBSET Jti]
             /\ pc' \in [Request -> {"idle"} \cup Steps \cup Ends]
             /\ signedAt' \in [Request -> Nat]
  <2>1. AfterInvalidating(r) \in Steps
    BY DEF AfterInvalidating, Steps
  <2> QED
    BY <1>0, <1>a, <1>s, <2>1 DEF Invalidated
<1>5. ASSUME NEW r \in Request, InvalidateFind(r) PROVE TypeOK'
  <2>1. PICK t \in todo[r] : IF userToken[t] = Null
                             THEN Invalidated(r, t) /\ UNCHANGED entry
                             ELSE entry' = [entry EXCEPT ![r] = t] /\ UNCHANGED <<todo, pc, signedAt>>
    BY <1>5 DEF InvalidateFind
  <2>2. t \in Jti
    BY <1>0, <2>1
  <2> QED
    BY <1>0, <1>5, <1>a, <2>1, <2>2 DEF InvalidateFind
<1>6. ASSUME NEW r \in Request, InvalidateSave(r) PROVE TypeOK'
  <2>1. entry[r] \in Jti
    BY <1>0, <1>6 DEF InvalidateSave
  <2>2. userToken' \in [Jti -> Row \cup {Null}]
    <3>1. ASSUME NEW row \in Row PROVE Revoked(row) \in Row
      BY DEF Revoked, Row
    <3> QED
      BY <1>0, <1>6, <2>1, <3>1 DEF InvalidateSave
  <2>3. /\ todo' \in [Request -> SUBSET Jti]
        /\ pc' \in [Request -> {"idle"} \cup Steps \cup Ends]
        /\ signedAt' \in [Request -> Nat]
    BY <1>0, <1>6, <1>a, <2>1 DEF InvalidateSave, Ends
  <2> QED
    BY <1>0, <1>6, <2>2, <2>3 DEF InvalidateSave
<1>7. ASSUME NEW r \in Request, GetAccessTokens(r) PROVE TypeOK'
  BY <1>0, <1>7 DEF GetAccessTokens, AccessTokens, TokensOf, Steps, Ends
<1>8. ASSUME NEW r \in Request, NEW type \in TokenType, NEW next \in Steps,
             pc[r] # "idle", IssueToken(r, type, next)
      PROVE  TypeOK'
  <2>1. [by |-> r, type |-> type] \in Jti
    BY DEF Jti
  <2>2. [user |-> req[r].user, expiresAt |-> signedAt[r] + Ttl(type), revoked |-> FALSE] \in Row
    BY <1>0, <1>8, TtlAssumption DEF Row, Ttl
  <2> QED
    BY <1>0, <1>8, <1>s, <2>1, <2>2 DEF IssueToken, Ends
<1>9. ASSUME NEW r \in Request, IssueAccess(r) \/ IssueRefresh(r) PROVE TypeOK'
  BY <1>8, <1>9 DEF IssueAccess, IssueRefresh, TokenType, Steps
<1>10. ASSUME NEW r \in Request, AuditAuth(r) PROVE TypeOK'
  BY <1>0, <1>10 DEF AuditAuth, Steps, Ends
<1>11. ASSUME NEW r \in Request, Reply(r) PROVE TypeOK'
  BY <1>0, <1>11 DEF Reply, Ends
<1>12. ASSUME NEW r \in Request, Abort(r) PROVE TypeOK'
  BY <1>0, <1>12, <1>s DEF Abort, Ends
<1>13. ASSUME NEW u \in User, NEW status \in {"active", "inactive"}, SetActive(u, status)
       PROVE  TypeOK'
  BY <1>0, <1>13 DEF SetActive, InFlight
<1>14. ASSUME NEW u \in User, RemoveUser(u) PROVE TypeOK'
  BY <1>0, <1>14 DEF RemoveUser
<1>15. CASE CleanupExpiredTokens
  BY <1>0, <1>15 DEF CleanupExpiredTokens
<1>16. CASE Tick
  BY <1>0, <1>16 DEF Tick
<1>17. CASE UNCHANGED vars
  BY <1>0, <1>17 DEF vars
<1> QED
  BY <1>1, <1>2, <1>3, <1>4, <1>5, <1>6, <1>7, <1>9, <1>10, <1>11, <1>12,
     <1>13, <1>14, <1>15, <1>16, <1>17 DEF Next, Step

\* Every action of Next, and stuttering, keeps requests on the path of their
\* kind, and their tokens behind them.
LEMMA StepShape == IInv /\ [Next]_vars => Shape'
<1> SUFFICES ASSUME IInv, [Next]_vars PROVE Shape'
  OBVIOUS
<1> USE DEF table, local
<1>0. /\ TypeOK /\ Shape
      /\ \A t \in Jti : t.by \in Request /\ t.type \in TokenType
  BY DEF IInv, Jti
<1>1. ASSUME NEW r \in Request, NEW u \in User, NEW ok \in BOOLEAN, Login(r, u, ok)
      PROVE Shape'
  <2>1. \A q \in Request : Asked(q)'
    BY <1>0, <1>1 DEF TypeOK, Shape, Asked, Login, Arrive, Kinds
  <2>2. \A q \in Request : OnPath(q)'
    BY <1>0, <1>1 DEF TypeOK, Shape, Asked, OnPath, Login, Arrive, Kinds
  <2>3. \A t \in issued' : IssuedOnTime(t)'
    BY <1>0, <1>1 DEF TypeOK, Shape, OnPath, IssuedOnTime, Login, Arrive
  <2>4. \A t \in Jti : RowOfIssued(t)'
    BY <1>0, <1>1 DEF TypeOK, Shape, IssuedOnTime, RowOfIssued, Login, Arrive
  <2> QED  BY <2>1, <2>2, <2>3, <2>4 DEF Shape
<1>2. ASSUME NEW r \in Request, NEW kind \in Kinds \ {"login"}, NEW s \in Handed,
             Present(r, kind, s)
      PROVE Shape'
  <2>1. \A q \in Request : Asked(q)'
    BY <1>0, <1>2 DEF TypeOK, Shape, Asked, Present, Arrive, Handed
  <2>2. \A q \in Request : OnPath(q)'
    BY <1>0, <1>2 DEF TypeOK, Shape, Asked, OnPath, Present, Arrive, Handed
  <2>3. \A t \in issued' : IssuedOnTime(t)'
    BY <1>0, <1>2 DEF TypeOK, Shape, OnPath, IssuedOnTime, Present, Arrive, Handed
  <2>4. \A t \in Jti : RowOfIssued(t)'
    BY <1>0, <1>2 DEF TypeOK, Shape, IssuedOnTime, RowOfIssued, Present, Arrive, Handed
  <2> QED  BY <2>1, <2>2, <2>3, <2>4 DEF Shape
<1>3. ASSUME NEW r \in Request, CheckToken(r) PROVE Shape'
  <2>1. \A q \in Request : Asked(q)'
    BY <1>0, <1>3 DEF TypeOK, Shape, Asked, CheckToken
  <2>2. \A q \in Request : OnPath(q)'
    BY <1>0, <1>3 DEF TypeOK, Shape, Asked, OnPath, CheckToken
  <2>3. \A t \in issued' : IssuedOnTime(t)'
    BY <1>0, <1>3 DEF TypeOK, Shape, OnPath, IssuedOnTime, CheckToken
  <2>4. \A t \in Jti : RowOfIssued(t)'
    BY <1>0, <1>3 DEF TypeOK, Shape, IssuedOnTime, RowOfIssued, CheckToken
  <2> QED  BY <2>1, <2>2, <2>3, <2>4 DEF Shape
<1>4. ASSUME NEW r \in Request, CheckUser(r) PROVE Shape'
  <2>1. \A q \in Request : Asked(q)'
    BY <1>0, <1>4 DEF TypeOK, Shape, Asked, CheckUser, Kinds
  <2>2. \A q \in Request : OnPath(q)'
    BY <1>0, <1>4 DEF TypeOK, Shape, Asked, OnPath, CheckUser, Kinds
  <2>3. \A t \in issued' : IssuedOnTime(t)'
    BY <1>0, <1>4 DEF TypeOK, Shape, OnPath, IssuedOnTime, CheckUser
  <2>4. \A t \in Jti : RowOfIssued(t)'
    BY <1>0, <1>4 DEF TypeOK, Shape, IssuedOnTime, RowOfIssued, CheckUser
  <2> QED  BY <2>1, <2>2, <2>3, <2>4 DEF Shape
<1>5. ASSUME NEW r \in Request, InvalidateFind(r) PROVE Shape'
  <2>1. \A q \in Request : Asked(q)'
    BY <1>0, <1>5 DEF TypeOK, Shape, Asked, InvalidateFind, Invalidated, AfterInvalidating
  <2>2. \A q \in Request : OnPath(q)'
    BY <1>0, <1>5 DEF TypeOK, Shape, Asked, OnPath, InvalidateFind, Invalidated, AfterInvalidating
  <2>3. \A t \in issued' : IssuedOnTime(t)'
    BY <1>0, <1>5 DEF TypeOK, Shape, OnPath, IssuedOnTime, InvalidateFind, Invalidated, AfterInvalidating
  <2>4. \A t \in Jti : RowOfIssued(t)'
    BY <1>0, <1>5 DEF TypeOK, Shape, IssuedOnTime, RowOfIssued, InvalidateFind, Invalidated, AfterInvalidating
  <2> QED  BY <2>1, <2>2, <2>3, <2>4 DEF Shape
<1>6. ASSUME NEW r \in Request, InvalidateSave(r) PROVE Shape'
  <2>1. \A q \in Request : Asked(q)'
    BY <1>0, <1>6 DEF TypeOK, Shape, Asked, OnPath, InvalidateSave, Invalidated, AfterInvalidating
  <2>2. \A q \in Request : OnPath(q)'
    <3>1. ASSUME NEW q \in Request, q # r PROVE OnPath(q)'
      BY <1>0, <1>6, <3>1 DEF TypeOK, Shape, OnPath, InvalidateSave, Invalidated
    <3>2. OnPath(r)'
      BY <1>0, <1>6 DEF TypeOK, Shape, OnPath, InvalidateSave, Invalidated, AfterInvalidating
    <3> QED  BY <3>1, <3>2
  <2>3. \A t \in issued' : IssuedOnTime(t)'
    BY <1>0, <1>6 DEF TypeOK, Shape, OnPath, IssuedOnTime, InvalidateSave, Invalidated, AfterInvalidating
  <2>4. \A t \in Jti : RowOfIssued(t)'
    BY <1>0, <1>6 DEF TypeOK, Shape, IssuedOnTime, RowOfIssued, InvalidateSave, Invalidated, AfterInvalidating, Revoked
  <2> QED  BY <2>1, <2>2, <2>3, <2>4 DEF Shape
<1>7. ASSUME NEW r \in Request, GetAccessTokens(r) PROVE Shape'
  <2>1. \A q \in Request : Asked(q)'
    BY <1>0, <1>7 DEF TypeOK, Shape, Asked, GetAccessTokens
  <2>2. \A q \in Request : OnPath(q)'
    BY <1>0, <1>7 DEF TypeOK, Shape, Asked, OnPath, GetAccessTokens
  <2>3. \A t \in issued' : IssuedOnTime(t)'
    BY <1>0, <1>7 DEF TypeOK, Shape, OnPath, IssuedOnTime, GetAccessTokens
  <2>4. \A t \in Jti : RowOfIssued(t)'
    BY <1>0, <1>7 DEF TypeOK, Shape, IssuedOnTime, RowOfIssued, GetAccessTokens
  <2> QED  BY <2>1, <2>2, <2>3, <2>4 DEF Shape
<1>8. ASSUME NEW r \in Request, IssueAccess(r) \/ IssueRefresh(r) PROVE Shape'
  <2>1. \A q \in Request : Asked(q)'
    BY <1>0, <1>8 DEF TypeOK, Shape, Asked, IssueAccess, IssueRefresh, IssueToken
  <2>2. \A q \in Request : OnPath(q)'
    BY <1>0, <1>8 DEF TypeOK, Shape, Asked, OnPath, IssueAccess, IssueRefresh, IssueToken
  <2>3. \A t \in issued' : IssuedOnTime(t)'
    BY <1>0, <1>8 DEF TypeOK, Shape, OnPath, IssuedOnTime, IssueAccess, IssueRefresh, IssueToken
  <2>4. \A t \in Jti : RowOfIssued(t)'
    BY <1>0, <1>8 DEF TypeOK, Shape, IssuedOnTime, RowOfIssued, IssueAccess, IssueRefresh, IssueToken
  <2> QED  BY <2>1, <2>2, <2>3, <2>4 DEF Shape
<1>9. ASSUME NEW r \in Request, AuditAuth(r) PROVE Shape'
  <2>1. \A q \in Request : Asked(q)'
    BY <1>0, <1>9 DEF TypeOK, Shape, Asked, AuditAuth
  <2>2. \A q \in Request : OnPath(q)'
    BY <1>0, <1>9 DEF TypeOK, Shape, Asked, OnPath, AuditAuth
  <2>3. \A t \in issued' : IssuedOnTime(t)'
    BY <1>0, <1>9 DEF TypeOK, Shape, OnPath, IssuedOnTime, AuditAuth
  <2>4. \A t \in Jti : RowOfIssued(t)'
    BY <1>0, <1>9 DEF TypeOK, Shape, IssuedOnTime, RowOfIssued, AuditAuth
  <2> QED  BY <2>1, <2>2, <2>3, <2>4 DEF Shape
<1>10. ASSUME NEW r \in Request, Reply(r) PROVE Shape'
  <2>1. \A q \in Request : Asked(q)'
    BY <1>0, <1>10 DEF TypeOK, Shape, Asked, Reply
  <2>2. \A q \in Request : OnPath(q)'
    BY <1>0, <1>10 DEF TypeOK, Shape, Asked, OnPath, Reply
  <2>3. \A t \in issued' : IssuedOnTime(t)'
    BY <1>0, <1>10 DEF TypeOK, Shape, OnPath, IssuedOnTime, Reply
  <2>4. \A t \in Jti : RowOfIssued(t)'
    BY <1>0, <1>10 DEF TypeOK, Shape, IssuedOnTime, RowOfIssued, Reply
  <2> QED  BY <2>1, <2>2, <2>3, <2>4 DEF Shape
<1>11. ASSUME NEW r \in Request, Abort(r) PROVE Shape'
  <2>1. \A q \in Request : Asked(q)'
    BY <1>0, <1>11 DEF TypeOK, Shape, Asked, Abort, Steps
  <2>2. \A q \in Request : OnPath(q)'
    BY <1>0, <1>11 DEF TypeOK, Shape, Asked, OnPath, Abort, Steps
  <2>3. \A t \in issued' : IssuedOnTime(t)'
    BY <1>0, <1>11 DEF TypeOK, Shape, OnPath, IssuedOnTime, Abort, Steps
  <2>4. \A t \in Jti : RowOfIssued(t)'
    BY <1>0, <1>11 DEF TypeOK, Shape, IssuedOnTime, RowOfIssued, Abort, Steps
  <2> QED  BY <2>1, <2>2, <2>3, <2>4 DEF Shape
<1>12. ASSUME CleanupExpiredTokens PROVE Shape'
  <2>1. \A q \in Request : Asked(q)'
    BY <1>0, <1>12 DEF TypeOK, Shape, Asked, CleanupExpiredTokens
  <2>2. \A q \in Request : OnPath(q)'
    BY <1>0, <1>12 DEF TypeOK, Shape, Asked, OnPath, CleanupExpiredTokens
  <2>3. \A t \in issued' : IssuedOnTime(t)'
    BY <1>0, <1>12 DEF TypeOK, Shape, OnPath, IssuedOnTime, CleanupExpiredTokens
  <2>4. \A t \in Jti : RowOfIssued(t)'
    BY <1>0, <1>12 DEF TypeOK, Shape, IssuedOnTime, RowOfIssued, CleanupExpiredTokens
  <2> QED  BY <2>1, <2>2, <2>3, <2>4 DEF Shape
<1>13. CASE UNCHANGED <<userToken, issued, pc, req, todo, entry>>
  BY <1>0, <1>13 DEF Shape, Asked, OnPath, IssuedOnTime, RowOfIssued
<1> QED
  BY <1>1, <1>2, <1>3, <1>4, <1>5, <1>6, <1>7, <1>8, <1>9, <1>10, <1>11, <1>12, <1>13
     DEF Next, Step, SetActive, RemoveUser, Tick, vars

\* TypeOK: the clock, the tables and every request's program counter and local
\* variables stay in their types.
THEOREM TypeCorrect == Spec => []IInv /\ []TypeOK
<1>1. Init => IInv
  BY InitTypeOK DEF IInv, Init, Shape, Asked, OnPath, IssuedOnTime, RowOfIssued
<1>2. IInv /\ [Next]_vars => IInv'
  BY StepTypeOK, StepShape DEF IInv
<1>3. IInv => TypeOK
  BY DEF IInv
<1> QED
  BY <1>1, <1>2, <1>3, PTL DEF Spec

(***************************************************************************)
(* Dead tokens.                                                            *)
(***************************************************************************)
\* A token that is revoked, expired or forgotten stays so: no step clears
\* revokedAt, moves an expiry or writes the row of an issued token anew.
LEMMA DeadStaysDead == IInv /\ [Next]_vars => Dead \subseteq Dead'
<1> SUFFICES ASSUME IInv, [Next]_vars, NEW t \in Dead PROVE t \in Dead'
  OBVIOUS
<1> USE DEF Dead, Expired
<1>0. /\ TypeOK /\ Shape /\ t \in issued /\ t \in Jti
      /\ userToken[t] # Null => userToken[t].expiresAt \in Nat
  BY DEF IInv, TypeOK, Row
<1>1. CASE UNCHANGED <<now, userToken, issued>>
  BY <1>0, <1>1
<1>2. ASSUME NEW r \in Request, InvalidateSave(r) PROVE t \in Dead'
  BY <1>0, <1>2 DEF InvalidateSave, TypeOK, Revoked
<1>3. ASSUME NEW r \in Request, NEW type \in TokenType,
             [by |-> r, type |-> type] \notin issued, NEW next, IssueToken(r, type, next)
      PROVE  t \in Dead'
  BY <1>0, <1>3 DEF IssueToken, TypeOK
<1>4. ASSUME NEW r \in Request, IssueAccess(r) \/ IssueRefresh(r) PROVE t \in Dead'
  BY <1>0, <1>3, <1>4 DEF IssueAccess, IssueRefresh, TokenType, Shape, IssuedOnTime
<1>5. CASE CleanupExpiredTokens
  BY <1>0, <1>5 DEF CleanupExpiredTokens, TypeOK
<1>6. CASE Tick
  BY <1>0, <1>6 DEF Tick, table, TypeOK
<1> QED
  BY <1>1, <1>2, <1>4, <1>5, <1>6
     DEF Next, Step, vars, table, local, Login, Present, Arrive, CheckToken, CheckUser,
         InvalidateFind, GetAccessTokens, AuditAuth, Reply, Abort, SetActive, RemoveUser

\* A step other than its own arrival leaves what a request asked for, and what
\* held when it arrived, as it was.
LEMMA AskedForGood ==
    ASSUME IInv, [Next]_vars, NEW r \in Request, pc[r] # "idle"
    PROVE  req'[r] = req[r] /\ start'[r] = start[r] /\ pc'[r] # "idle"
<1> USE DEF IInv, TypeOK, table, local
<1>1. CASE UNCHANGED <<req, start>>
  <2>1. ASSUME NEW q \in Request, Step(q) \/ Abort(q) PROVE pc'[r] # "idle"
    BY <1>1, <2>1 DEF Step, Abort, CheckToken, CheckUser, InvalidateFind, InvalidateSave,
       Invalidated, AfterInvalidating, GetAccessTokens, IssueAccess, IssueRefresh,
       IssueToken, AuditAuth, Reply
  <2> QED
    BY <1>1, <2>1 DEF Next, Login, Present, SetActive, RemoveUser, CleanupExpiredTokens,
       Tick, vars
<1>2. ASSUME NEW q \in Request, NEW kind, NEW u, NEW t, NEW s, Arrive(q, kind, u, t, s),
             NEW step \in Steps \cup Ends, pc' = [pc EXCEPT ![q] = step]
      PROVE  req'[r] = req[r] /\ start'[r] = start[r] /\ pc'[r] # "idle"
  BY <1>2 DEF Arrive
<1> QED
  BY <1>1, <1>2 DEF Next, Step, Login, Present, CheckToken, CheckUser, InvalidateFind,
     InvalidateSave, GetAccessTokens, IssueAccess, IssueRefresh, IssueToken, AuditAuth,
     Reply, Abort, SetActive, RemoveUser, CleanupExpiredTokens, Tick, vars, Steps, Ends

(***************************************************************************)
(* verifyToken never accepts what was dead when the request arrived.       *)
(***************************************************************************)
\* The tokens that were dead at a request's arrival are dead for good.
DeadAtStart == \A r \in Request : pc[r] # "idle" => start[r].dead \subseteq Dead

\* RevokedNeverAccepted, from the moment the row was found valid.
AcceptedWasAlive ==
    \A r \in Request :
        /\ Verified(r) \/ pc[r] = "checkUser"
        /\ req[r].kind # "login"
        => req[r].token \notin start[r].dead

\* An arriving request notes which tokens are dead and handed at that moment.
LEMMA ArrivalNotes ==
    ASSUME IInv, [Next]_vars, NEW r \in Request, pc[r] = "idle", pc'[r] # "idle"
    PROVE  start'[r].dead = Dead /\ start'[r].handed = Handed
<1>1. ASSUME NEW q \in Request, q # r, NEW s, pc' = [pc EXCEPT ![q] = s] PROVE FALSE
  BY <1>1 DEF IInv, TypeOK
<1>2. ASSUME NEW kind, NEW u, NEW t, NEW s, Arrive(r, kind, u, t, s)
      PROVE  start'[r].dead = Dead /\ start'[r].handed = Handed
  BY <1>2 DEF Arrive, IInv, TypeOK
<1>3. ASSUME NEW q \in Request, Step(q) \/ Abort(q) PROVE FALSE
  BY <1>3 DEF IInv, TypeOK, Shape, OnPath, Step, Steps, Abort, CheckToken,
     CheckUser, InvalidateFind, InvalidateSave, Invalidated, GetAccessTokens,
     IssueAccess, IssueRefresh, IssueToken, AuditAuth, Reply
<1>4. ASSUME UNCHANGED pc PROVE FALSE
  BY <1>4
<1> QED
  BY <1>1, <1>2, <1>3, <1>4 DEF Next, Login, Present, SetActive, RemoveUser,
     CleanupExpiredTokens, Tick, vars

\* What a request noted as dead is still dead after any step.
LEMMA StepDeadAtStart == IInv /\ DeadAtStart /\ [Next]_vars => DeadAtStart'
<1> SUFFICES ASSUME IInv, DeadAtStart, [Next]_vars,
                    NEW r \in Request, pc'[r] # "idle"
             PROVE  start'[r].dead \subseteq Dead'
  BY DEF DeadAtStart
<1>1. CASE pc[r] # "idle"
  BY <1>1, DeadStaysDead, AskedForGood DEF DeadAtStart
<1>2. CASE pc[r] = "idle"
  BY <1>2, DeadStaysDead, ArrivalNotes
<1> QED
  BY <1>1, <1>2

\* No step lets a request past verifyToken with such a token.
LEMMA StepAcceptedWasAlive ==
    IInv /\ DeadAtStart /\ AcceptedWasAlive /\ [Next]_vars => AcceptedWasAlive'
<1> SUFFICES ASSUME IInv, DeadAtStart, AcceptedWasAlive, [Next]_vars, NEW r \in Request,
                    Verified(r)' \/ pc'[r] = "checkUser", req'[r].kind # "login"
             PROVE  req'[r].token \notin start'[r].dead
  BY DEF AcceptedWasAlive
<1> USE DEF IInv, TypeOK, table, local, Verified, Steps
<1>1. CASE Verified(r) \/ pc[r] = "checkUser"
  BY <1>1, AskedForGood DEF AcceptedWasAlive
<1>2. CASE ~ (Verified(r) \/ pc[r] = "checkUser")
  \* Only CheckToken gets a request there that was not.
  <2>1. ASSUME CheckToken(r) PROVE req'[r].token \notin start'[r].dead
    BY <2>1, <1>2 DEF CheckToken, IsTokenValid, DeadAtStart, Dead
  <2>2. ASSUME NEW q \in Request, Step(q) \/ Abort(q), ~ CheckToken(r) PROVE FALSE
    BY <1>2, <2>2 DEF Shape, OnPath, Step, Abort, CheckToken,
       CheckUser, InvalidateFind, InvalidateSave, Invalidated, AfterInvalidating,
       GetAccessTokens, IssueAccess, IssueRefresh, IssueToken, AuditAuth, Reply
  <2>3. ASSUME NEW q \in Request, NEW u \in User, NEW ok \in BOOLEAN, Login(q, u, ok)
        PROVE  FALSE
    BY <1>2, <2>3 DEF Login, Arrive
  <2>4. ASSUME NEW q \in Request, NEW kind, NEW t, Present(q, kind, t) PROVE FALSE
    BY <1>2, <2>4 DEF Present
  <2>5. ASSUME UNCHANGED pc PROVE FALSE
    BY <1>2, <2>5
  <2> QED
    BY <2>1, <2>2, <2>3, <2>4, <2>5 DEF Next, SetActive, RemoveUser,
       CleanupExpiredTokens, Tick, vars
<1> QED
  BY <1>1, <1>2

\* verifyToken (auth.service.ts): for any number of concurrent requests, a token
\* that was revoked, expired or purged when the request presenting it arrived
\* never gets past verifyToken.
THEOREM DeadTokensAreRefused == Spec => []RevokedNeverAccepted
<1>1. Init => DeadAtStart /\ AcceptedWasAlive
  BY DEF Init, DeadAtStart, AcceptedWasAlive, Verified, Steps
<1>2. AcceptedWasAlive => RevokedNeverAccepted
  BY DEF AcceptedWasAlive, RevokedNeverAccepted
<1> QED
  BY <1>1, <1>2, TypeCorrect, StepDeadAtStart, StepAcceptedWasAlive, PTL DEF Spec

(***************************************************************************)
(* refresh spends the token it was asked for with.                         *)
(***************************************************************************)
\* Once a refresh goes on to issue tokens, the one presented is dead.
SpentBeforeIssuing ==
    \A r \in Request :
        pc[r] \in {"issueAccess", "issueRefresh"} /\ req[r].kind = "refresh"
            => req[r].token \in Dead

\* No step of a refresh reaches the issue of a token before its own refresh
\* token is dead, and no step revives it afterwards.
LEMMA StepSpent ==
    IInv /\ SpentBeforeIssuing /\ RefreshSpendsItsToken /\ [Next]_vars
        => SpentBeforeIssuing' /\ RefreshSpendsItsToken'
<1> SUFFICES ASSUME IInv, SpentBeforeIssuing, RefreshSpendsItsToken, [Next]_vars
             PROVE  SpentBeforeIssuing' /\ RefreshSpendsItsToken'
  OBVIOUS
<1> USE DEF IInv, TypeOK, table, local
<1>1. ASSUME NEW r \in Request, pc'[r] \in {"issueAccess", "issueRefresh"},
             req'[r].kind = "refresh", pc[r] \notin {"issueAccess", "issueRefresh"}
      PROVE  req'[r].token \in Dead'
  <2>1. ASSUME InvalidateFind(r) PROVE req'[r].token \in Dead'
    <3>1. PICK t \in todo[r] : IF userToken[t] = Null
                               THEN Invalidated(r, t) /\ UNCHANGED entry
                               ELSE entry' = [entry EXCEPT ![r] = t] /\ UNCHANGED <<todo, pc, signedAt>>
      BY <2>1 DEF InvalidateFind
    <3>2. pc[r] = "revokeRefresh"
      BY <1>1, <2>1 DEF InvalidateFind, Shape, OnPath
    <3>3. t = req[r].token /\ userToken[t] = Null /\ t \in issued
      BY <1>1, <2>1, <3>1, <3>2 DEF InvalidateFind, Shape, OnPath, Asked
    <3> QED
      BY <2>1, <3>3 DEF InvalidateFind, Dead
  <2>2. ASSUME InvalidateSave(r) PROVE req'[r].token \in Dead'
    <3>1. pc[r] = "revokeRefresh" /\ entry[r] = req[r].token /\ entry[r] \in issued
      BY <1>1, <2>2 DEF InvalidateSave, Shape, OnPath, Asked
    <3>2. userToken[entry[r]] # Null
      BY <1>1, <2>2 DEF InvalidateSave
    <3>3. userToken'[entry[r]] = Revoked(userToken[entry[r]])
      BY <2>2, <3>1, <3>2 DEF InvalidateSave
    <3> QED
      BY <2>2, <3>1, <3>3 DEF InvalidateSave, Dead, Revoked
  <2>3. ASSUME NEW q \in Request, Step(q) \/ Abort(q),
               ~ InvalidateFind(r), ~ InvalidateSave(r)
        PROVE  FALSE
    BY <1>1, <2>3 DEF Shape, OnPath, Step, Abort, CheckToken, CheckUser, InvalidateFind,
       InvalidateSave, Invalidated, GetAccessTokens, IssueAccess, IssueRefresh,
       IssueToken, AuditAuth, Reply
  <2>4. ASSUME NEW q \in Request, NEW u, NEW ok, Login(q, u, ok) PROVE FALSE
    BY <1>1, <2>4 DEF Login, Arrive
  <2>5. ASSUME NEW q \in Request, NEW kind, NEW t, Present(q, kind, t) PROVE FALSE
    BY <1>1, <2>5 DEF Present
  <2>6. ASSUME UNCHANGED pc PROVE FALSE
    BY <1>1, <2>6
  <2> QED
    BY <2>1, <2>2, <2>3, <2>4, <2>5, <2>6 DEF Next, SetActive, RemoveUser,
       CleanupExpiredTokens, Tick, vars
<1>2. SpentBeforeIssuing'
  BY <1>1, DeadStaysDead, AskedForGood DEF SpentBeforeIssuing
<1>3. ASSUME NEW t \in issued', req'[t.by].kind = "refresh"
      PROVE  req'[t.by].token \in Dead'
  <2>1. CASE t \in issued
    <3>1. t.by \in Request /\ pc[t.by] # "idle"
      BY <2>1 DEF Shape, IssuedOnTime, Jti
    <3> QED
      BY <1>3, <2>1, <3>1, DeadStaysDead, AskedForGood DEF RefreshSpendsItsToken
  <2>2. CASE t \notin issued
    <3>1. PICK r \in Request : IssueAccess(r) \/ IssueRefresh(r)
      BY <2>2 DEF Next, Step, Login, Present, Arrive, CheckToken, CheckUser, InvalidateFind,
         InvalidateSave, GetAccessTokens, AuditAuth, Reply, Abort, SetActive, RemoveUser,
         CleanupExpiredTokens, Tick, vars
    <3>2. t.by = r
      BY <2>2, <3>1 DEF IssueAccess, IssueRefresh, IssueToken
    <3> QED
      BY <1>3, <3>1, <3>2, DeadStaysDead, AskedForGood
         DEF IssueAccess, IssueRefresh, SpentBeforeIssuing
  <2> QED
    BY <2>1, <2>2
<1> QED
  BY <1>2, <1>3 DEF RefreshSpendsItsToken

\* AuthService.refresh: no token of a new pair exists, not even when the
\* refresh then fails, unless the refresh token presented is dead.
THEOREM RefreshRotates == Spec => []RefreshSpendsItsToken
<1>1. Init => SpentBeforeIssuing /\ RefreshSpendsItsToken
  BY DEF Init, SpentBeforeIssuing, RefreshSpendsItsToken
<1> QED
  BY <1>1, TypeCorrect, StepSpent, PTL DEF Spec

\* The tokens that refreshes had answered with before a request arrived: what
\* those refreshes were asked for with was dead by then.
RefreshedWereSpent ==
    \A r \in Request : pc[r] # "idle" =>
        \A u \in start[r].handed :
            /\ u \in Jti /\ pc[u.by] # "idle"
            /\ req[u.by].kind = "refresh" => req[u.by].token \in start[r].dead

\* A request notes it when it arrives, and nothing of it changes afterwards.
LEMMA StepRefreshed ==
    IInv /\ RefreshSpendsItsToken /\ RefreshedWereSpent /\ [Next]_vars
        => RefreshedWereSpent'
<1> SUFFICES ASSUME IInv, RefreshSpendsItsToken, RefreshedWereSpent, [Next]_vars,
                    NEW r \in Request, pc'[r] # "idle", NEW u \in start'[r].handed
             PROVE  /\ u \in Jti /\ pc'[u.by] # "idle"
                    /\ req'[u.by].kind = "refresh" => req'[u.by].token \in start'[r].dead
  BY DEF RefreshedWereSpent
<1>1. /\ u \in Jti /\ pc[u.by] # "idle"
      /\ req[u.by].kind = "refresh" => req[u.by].token \in start'[r].dead
  <2>1. CASE pc[r] # "idle"
    BY <2>1, AskedForGood DEF RefreshedWereSpent
  <2>2. CASE pc[r] = "idle"
    BY <2>2, ArrivalNotes DEF Handed, RefreshSpendsItsToken, IInv, TypeOK
  <2> QED
    BY <2>1, <2>2
<1> QED
  BY <1>1, AskedForGood DEF Jti

\* AuthService.refresh: of two refreshes that were answered with new tokens for
\* one refresh token, neither was sent after the other's answer.
THEOREM RefreshTokensAreSingleUse == Spec => []OneRefreshPerToken
<1>1. Init => RefreshedWereSpent
  BY DEF Init, RefreshedWereSpent
<1>2. ASSUME TypeOK, RefreshedWereSpent, RevokedNeverAccepted PROVE OneRefreshPerToken
  <2>1. ASSUME NEW t \in Handed, NEW u \in Handed, req[t.by].kind = "refresh",
               req[u.by].kind = "refresh", req[t.by].token = req[u.by].token
        PROVE  t \notin start[u.by].handed
    BY <1>2, <2>1 DEF TypeOK, Handed, Jti, Verified, RefreshedWereSpent, RevokedNeverAccepted
  <2> QED
    BY <2>1 DEF OneRefreshPerToken
<1> QED
  BY <1>1, <1>2, TypeCorrect, DeadTokensAreRefused, RefreshRotates, StepRefreshed,
     PTL DEF Spec

(***************************************************************************)
(* A deactivated user is not served.                                       *)
(***************************************************************************)
\* A request in flight whose user is active has been noted as such.
SeenWhileActive ==
    \A r \in InFlight : account[req[r].user] = "active" => r \in seenActive

\* verifyToken and login look at isActive before they let a request on, and
\* SetActive notes every request of the user it activates.
LEMMA StepSeen ==
    IInv /\ SeenWhileActive /\ DeactivatedNeverServed /\ [Next]_vars
        => SeenWhileActive' /\ DeactivatedNeverServed'
<1> SUFFICES ASSUME IInv, SeenWhileActive, DeactivatedNeverServed, [Next]_vars
             PROVE  SeenWhileActive' /\ DeactivatedNeverServed'
  OBVIOUS
<1> USE DEF IInv, TypeOK, table, local, InFlight, Steps, SeenWhileActive,
            DeactivatedNeverServed, Verified
<1>1. ASSUME NEW r \in Request, NEW u \in User, NEW ok \in BOOLEAN, Login(r, u, ok)
      PROVE  SeenWhileActive' /\ DeactivatedNeverServed'
  BY <1>1 DEF Login, Arrive
<1>2. ASSUME NEW r \in Request, NEW kind, NEW t \in Handed, Present(r, kind, t)
      PROVE  SeenWhileActive' /\ DeactivatedNeverServed'
  BY <1>2 DEF Present, Arrive
<1>3. ASSUME NEW r \in Request, CheckUser(r)
      PROVE  SeenWhileActive' /\ DeactivatedNeverServed'
  <2>1. UNCHANGED <<req, account, issued, seenActive>>
    BY <1>3 DEF CheckUser
  <2>2. ASSUME NEW q \in Request, q # r PROVE pc'[q] = pc[q]
    BY <1>3, <2>2 DEF CheckUser
  <2>3. pc[r] = "checkUser" /\ (pc'[r] = "rejected" \/ account[req[r].user] = "active")
    BY <1>3 DEF CheckUser, UserMayProceed
  <2> QED
    BY <2>1, <2>2, <2>3
<1>4. ASSUME NEW r \in Request, NEW type \in TokenType, NEW next \in Steps,
             pc[r] \in {"issueAccess", "issueRefresh"}, IssueToken(r, type, next)
      PROVE  SeenWhileActive' /\ DeactivatedNeverServed'
  BY <1>4 DEF IssueToken, Jti
<1>5. ASSUME NEW r \in Request, \/ CheckToken(r) \/ InvalidateFind(r) \/ InvalidateSave(r)
                                \/ GetAccessTokens(r) \/ AuditAuth(r) \/ Reply(r)
                                \/ Abort(r)
      PROVE  SeenWhileActive' /\ DeactivatedNeverServed'
  BY <1>5 DEF CheckToken, InvalidateFind, InvalidateSave, Invalidated, AfterInvalidating,
     GetAccessTokens, AuditAuth, Reply, Abort, Shape, OnPath
<1>6. ASSUME NEW u \in User, NEW status \in {"active", "inactive"}, SetActive(u, status)
      PROVE  SeenWhileActive' /\ DeactivatedNeverServed'
  BY <1>6 DEF SetActive, Shape, Asked
<1>7. ASSUME \/ \E u \in User : RemoveUser(u)
             \/ CleanupExpiredTokens \/ Tick \/ UNCHANGED vars
      PROVE  SeenWhileActive' /\ DeactivatedNeverServed'
  BY <1>7 DEF RemoveUser, CleanupExpiredTokens, Tick, vars, Shape, Asked
<1> QED
  BY <1>1, <1>2, <1>3, <1>4, <1>5, <1>6, <1>7
     DEF Next, Step, IssueAccess, IssueRefresh, TokenType

\* login and verifyToken: no request is let through, and none is issued a token,
\* whose user was inactive or gone from its arrival on.
THEOREM DeactivatedAreRefused == Spec => []DeactivatedNeverServed
<1>1. Init => SeenWhileActive /\ DeactivatedNeverServed
  BY DEF Init, SeenWhileActive, DeactivatedNeverServed, InFlight, Steps, Verified
<1> QED
  BY <1>1, TypeCorrect, StepSeen, PTL DEF Spec

(***************************************************************************)
(* logout revokes the access tokens the user held when it arrived.         *)
(***************************************************************************)
EarlierAccess(r) ==
    {t \in start[r].handed : t.type = "access" /\ req[t.by].user = req[r].user}

\* What is not dead yet is still on the handler's list; at the end of the list
\* nothing is left.
LogoutOnItsWay ==
    \A r \in Request :
        /\ pc[r] # "idle" => start[r].handed \subseteq issued
        /\ req[r].kind = "logout" =>
             /\ pc[r] = "revokeAccess" => EarlierAccess(r) \subseteq todo[r] \cup Dead
             /\ pc[r] \in {"audit", "reply", "done"} => EarlierAccess(r) \subseteq Dead

\* invalidateToken takes a token off the list only when it is dead.
LEMMA InvalidationKills ==
    ASSUME IInv, [Next]_vars, NEW r \in Request, pc[r] = "revokeAccess",
           InvalidateFind(r) \/ InvalidateSave(r), pc'[r] # "failed",
           NEW t \in todo[r] \cap issued
    PROVE  /\ t \in todo'[r] \cup Dead'
           /\ pc'[r] # "revokeAccess" => t \in Dead'
<1> USE DEF IInv, TypeOK, table, local
<1>0. t \in Jti
  OBVIOUS
<1>1. CASE InvalidateFind(r)
  <2>1. PICK u \in todo[r] : IF userToken[u] = Null
                             THEN Invalidated(r, u) /\ UNCHANGED entry
                             ELSE entry' = [entry EXCEPT ![r] = u] /\ UNCHANGED <<todo, pc, signedAt>>
    BY <1>1 DEF InvalidateFind
  <2> QED
    BY <1>0, <1>1, <2>1, DeadStaysDead DEF InvalidateFind, Invalidated, Dead
<1>2. CASE InvalidateSave(r)
  <2>1. userToken[entry[r]] # Null /\ Invalidated(r, entry[r]) /\ entry[r] \in Jti
    BY <1>2 DEF InvalidateSave
  <2>2. CASE t = entry[r]
    BY <1>0, <1>2, <2>1, <2>2 DEF InvalidateSave, Revoked, Dead
  <2>3. CASE t # entry[r]
    BY <1>0, <1>2, <2>1, <2>3 DEF Invalidated
  <2> QED
    BY <2>2, <2>3
<1> QED
  BY <1>1, <1>2

\* No step takes a logout past its list with an earlier access token still
\* alive and not on the list of those to be revoked.
LEMMA StepLogout == IInv /\ LogoutOnItsWay /\ [Next]_vars => LogoutOnItsWay'
<1> SUFFICES ASSUME IInv, LogoutOnItsWay, [Next]_vars, NEW r \in Request
             PROVE  /\ pc'[r] # "idle" => start'[r].handed \subseteq issued'
                    /\ req'[r].kind = "logout" =>
                         /\ pc'[r] = "revokeAccess" =>
                              EarlierAccess(r)' \subseteq todo'[r] \cup Dead'
                         /\ pc'[r] \in {"audit", "reply", "done"} =>
                              EarlierAccess(r)' \subseteq Dead'
  BY DEF LogoutOnItsWay
<1> USE DEF IInv, TypeOK, table, local
<1>0. issued \subseteq issued'
  BY DEF Next, Step, Login, Present, Arrive, CheckToken, CheckUser, InvalidateFind,
     InvalidateSave, GetAccessTokens, IssueAccess, IssueRefresh, IssueToken, AuditAuth,
     Reply, Abort, SetActive, RemoveUser, CleanupExpiredTokens, Tick, vars
<1>1. CASE pc[r] = "idle" /\ pc'[r] # "idle"
  <2>1. \/ \E u \in User, ok \in BOOLEAN : Login(r, u, ok)
        \/ \E kind \in Kinds \ {"login"}, t \in Handed : Present(r, kind, t)
    <3>1. ASSUME NEW q \in Request, Step(q) \/ Abort(q) PROVE FALSE
      BY <1>1, <3>1 DEF Step, Steps, Abort, CheckToken, CheckUser, InvalidateFind,
         InvalidateSave, Shape, OnPath, Invalidated, GetAccessTokens, IssueAccess,
         IssueRefresh, IssueToken, AuditAuth, Reply
    <3>2. ASSUME NEW q \in Request, q # r,
                 \/ \E u \in User, ok \in BOOLEAN : Login(q, u, ok)
                 \/ \E kind \in Kinds \ {"login"}, t \in Handed : Present(q, kind, t)
          PROVE  FALSE
      BY <1>1, <3>2 DEF Login, Present
    <3>3. ASSUME UNCHANGED pc PROVE FALSE
      BY <1>1, <3>3
    <3> QED
      BY <3>1, <3>2, <3>3 DEF Next, SetActive, RemoveUser, CleanupExpiredTokens, Tick, vars
  <2>2. start'[r].handed = Handed
    BY <2>1 DEF Login, Present, Arrive
  <2>3. pc'[r] \in {"checkToken", "rejected"} \/ req'[r].kind = "login"
    BY <2>1 DEF Login, Present, Arrive
  <2> QED
    BY <1>0, <2>2, <2>3 DEF Handed
<1>2. CASE pc[r] # "idle"
  <2>1. req'[r] = req[r] /\ start'[r] = start[r]
    BY <1>2, AskedForGood
  <2>2. start[r].handed \subseteq issued
    BY <1>2 DEF LogoutOnItsWay
  <2>3. EarlierAccess(r)' = EarlierAccess(r)
    <3>1. ASSUME NEW t \in start[r].handed PROVE req'[t.by] = req[t.by]
      <4>1. t.by \in Request /\ pc[t.by] # "idle"
        BY <2>2 DEF Shape, IssuedOnTime, Jti
      <4> QED
        BY <4>1, AskedForGood
    <3> QED
      BY <2>1, <3>1 DEF EarlierAccess
  <2>4. EarlierAccess(r) \subseteq issued
    BY <2>2 DEF EarlierAccess
  <2>5. CASE req[r].kind = "logout" /\ pc[r] = "listAccess" /\ GetAccessTokens(r)
    <3>1. ASSUME NEW t \in EarlierAccess(r), userToken[t] # Null
          PROVE  t \in AccessTokens(req[r].user)
      <4>1. t \in Jti /\ t.type = "access" /\ req[t.by].user = req[r].user
        BY <2>4, <3>1 DEF EarlierAccess
      <4>2. userToken[t].user = req[t.by].user
        BY <3>1, <4>1 DEF Shape, RowOfIssued
      <4> QED
        BY <3>1, <4>1, <4>2 DEF AccessTokens, TokensOf
    <3>2. EarlierAccess(r) \subseteq AccessTokens(req[r].user) \cup Dead'
      BY <2>4, <3>1, DeadStaysDead DEF Dead
    <3> QED
      BY <1>0, <2>1, <2>2, <2>3, <2>5, <3>2 DEF GetAccessTokens
  <2>6. CASE req[r].kind = "logout" /\ pc[r] = "revokeAccess"
             /\ (InvalidateFind(r) \/ InvalidateSave(r)) /\ pc'[r] # "failed"
    <3>1. EarlierAccess(r) \subseteq (todo[r] \cap issued) \cup Dead'
      BY <2>4, <2>6, DeadStaysDead DEF LogoutOnItsWay
    <3>2. /\ EarlierAccess(r) \subseteq todo'[r] \cup Dead'
          /\ pc'[r] # "revokeAccess" => EarlierAccess(r) \subseteq Dead'
      BY <2>6, <3>1, InvalidationKills
    <3> QED
      BY <1>0, <2>1, <2>2, <2>3, <3>2
  <2>7. ASSUME req[r].kind = "logout", pc'[r] # "failed", ~ GetAccessTokens(r),
               ~ (pc[r] = "revokeAccess" /\ (InvalidateFind(r) \/ InvalidateSave(r)))
        PROVE  /\ pc'[r] = "revokeAccess" => pc[r] = "revokeAccess" /\ todo'[r] = todo[r]
               /\ pc'[r] \in {"audit", "reply", "done"} => pc[r] \in {"audit", "reply", "done"}
    <3>1. CASE pc'[r] = pc[r] /\ todo'[r] = todo[r]
      BY <3>1
    <3>2. CASE Step(r) \/ Abort(r)
      BY <2>7, <3>2 DEF Shape, OnPath, Step, Abort, CheckToken, CheckUser, InvalidateFind,
         InvalidateSave, Invalidated, AfterInvalidating, IssueAccess, IssueRefresh,
         IssueToken, AuditAuth, Reply
    <3>3. ASSUME NEW q \in Request, q # r, Step(q) \/ Abort(q)
          PROVE  pc'[r] = pc[r] /\ todo'[r] = todo[r]
      BY <3>3 DEF Step, Abort, CheckToken, CheckUser, InvalidateFind, InvalidateSave,
         Invalidated, GetAccessTokens, IssueAccess, IssueRefresh, IssueToken, AuditAuth, Reply
    <3>4. ASSUME NEW q \in Request,
                 \/ \E u \in User, ok \in BOOLEAN : Login(q, u, ok)
                 \/ \E kind \in Kinds \ {"login"}, t \in Handed : Present(q, kind, t)
          PROVE  pc'[r] = pc[r] /\ todo'[r] = todo[r]
      BY <1>2, <3>4 DEF Login, Present, Arrive
    <3> QED
      BY <3>1, <3>2, <3>3, <3>4 DEF Next, SetActive, RemoveUser, CleanupExpiredTokens,
         Tick, vars
  <2>8. CASE req[r].kind # "logout" \/ pc'[r] = "failed"
    BY <1>0, <2>1, <2>2, <2>8
  <2>9. CASE req[r].kind = "logout" /\ pc'[r] # "failed" /\ ~ GetAccessTokens(r)
             /\ ~ (pc[r] = "revokeAccess" /\ (InvalidateFind(r) \/ InvalidateSave(r)))
    BY <1>0, <2>1, <2>2, <2>3, <2>7, <2>9, DeadStaysDead DEF LogoutOnItsWay
  <2>10. GetAccessTokens(r) => pc[r] = "listAccess"
    BY DEF GetAccessTokens
  <2> QED
    BY <2>5, <2>6, <2>8, <2>9, <2>10
<1>3. CASE pc'[r] = "idle"
  BY <1>3, <1>2
<1> QED
  BY <1>1, <1>2, <1>3

\* AuthService.logout: when a logout has answered, every access token its user
\* held when it arrived is dead, whatever ran concurrently and however the rows
\* were listed.
THEOREM LogoutRevokesAccess == Spec => []LogoutEndsEarlierAccess
<1>1. Init => LogoutOnItsWay
  BY DEF Init, LogoutOnItsWay
<1>2. LogoutOnItsWay => LogoutEndsEarlierAccess
  BY DEF LogoutOnItsWay, LogoutEndsEarlierAccess, EarlierAccess
<1> QED
  BY <1>1, <1>2, TypeCorrect, StepLogout, PTL DEF Spec

(***************************************************************************)
(* No request revokes what is not its own to revoke.                       *)
(***************************************************************************)
\* What a request may have on its list: the refresh token it presented, then the
\* access tokens of its user.
Listed(r) ==
    /\ pc[r] \in {"checkUser", "revokeRefresh"} /\ req[r].kind # "guarded" =>
         req[r].token.type = "refresh"
    /\ pc[r] = "revokeAccess" =>
         \A t \in todo[r] : /\ t.type = "access" /\ pc[t.by] # "idle"
                            /\ req[t.by].user = req[r].user

ListsAreOwn == \A r \in Request : Listed(r)

\* r has arrived and is a request by which t may be revoked.
MayRevoke(r, t) ==
    /\ pc[r] # "idle"
    /\ IF t.type = "refresh"
       THEN req[r].kind \in {"refresh", "logout"} /\ req[r].token = t
       ELSE req[r].kind = "logout" /\ req[r].user = req[t.by].user

RevokedByOwner ==
    \A t \in issued :
        userToken[t] # Null /\ userToken[t].revoked => \E r \in Request : MayRevoke(r, t)

\* verifyToken checks the type of the token presented; the query of a logout
\* selects access tokens of its user, and a list only gets shorter.
LEMMA StepLists == IInv /\ ListsAreOwn /\ [Next]_vars => ListsAreOwn'
<1> SUFFICES ASSUME IInv, ListsAreOwn, [Next]_vars, NEW r \in Request PROVE Listed(r)'
  BY DEF ListsAreOwn
<1> USE DEF IInv, TypeOK, table, local
<1>1. ASSUME NEW t \in Jti, pc[t.by] # "idle"
      PROVE  req'[t.by] = req[t.by] /\ pc'[t.by] # "idle"
  BY <1>1, AskedForGood DEF Jti
<1>2. CASE CheckToken(r)
  BY <1>2 DEF CheckToken, IsTokenValid, ExpectedType, Listed, Shape, OnPath, Asked, Kinds
<1>3. CASE GetAccessTokens(r)
  <2>1. ASSUME NEW t \in AccessTokens(req[r].user)
        PROVE  t.type = "access" /\ pc[t.by] # "idle" /\ req[t.by].user = req[r].user
    BY <2>1 DEF AccessTokens, TokensOf, Shape, RowOfIssued, IssuedOnTime
  <2> QED
    BY <1>1, <1>3, <2>1 DEF GetAccessTokens, AccessTokens, TokensOf, Listed
<1>4. CASE CheckUser(r) \/ InvalidateFind(r) \/ InvalidateSave(r)
  <2>1. ASSUME pc'[r] = "revokeAccess" PROVE pc[r] = "revokeAccess" /\ todo'[r] \subseteq todo[r]
    BY <1>4, <2>1 DEF CheckUser, InvalidateFind, InvalidateSave, Invalidated,
       AfterInvalidating, Shape, OnPath
  <2>2. pc'[r] \in {"checkUser", "revokeRefresh"} => pc[r] \in {"checkUser", "revokeRefresh"}
    BY <1>4 DEF CheckUser, InvalidateFind, InvalidateSave, Invalidated, AfterInvalidating
  <2>3. req'[r] = req[r]
    BY <1>4 DEF CheckUser, InvalidateFind, InvalidateSave
  <2> QED
    BY <1>1, <2>1, <2>2, <2>3 DEF ListsAreOwn, Listed
<1>5. CASE IssueAccess(r) \/ IssueRefresh(r) \/ AuditAuth(r) \/ Reply(r) \/ Abort(r)
  BY <1>5 DEF IssueAccess, IssueRefresh, IssueToken, AuditAuth, Reply, Abort, Listed
<1>6. ASSUME pc'[r] \in {"idle", "checkToken", "issueAccess", "rejected"} PROVE Listed(r)'
  BY <1>6 DEF Listed
<1>7. ASSUME pc'[r] = pc[r], todo'[r] = todo[r] PROVE Listed(r)'
  <2>1. CASE pc[r] = "idle"
    BY <1>6, <1>7, <2>1
  <2>2. CASE pc[r] # "idle"
    <3>1. req'[r] = req[r]
      BY <2>2, AskedForGood
    <3> QED
      BY <1>1, <1>7, <2>2, <3>1 DEF ListsAreOwn, Listed
  <2> QED
    BY <2>1, <2>2
<1>8. ASSUME NEW q \in Request, q # r, Step(q) \/ Abort(q)
      PROVE  pc'[r] = pc[r] /\ todo'[r] = todo[r]
  BY <1>8 DEF Step, Abort, CheckToken, CheckUser, InvalidateFind, InvalidateSave,
     Invalidated, GetAccessTokens, IssueAccess, IssueRefresh, IssueToken, AuditAuth, Reply
<1>9. ASSUME NEW q \in Request,
             \/ \E u \in User, ok \in BOOLEAN : Login(q, u, ok)
             \/ \E kind \in Kinds \ {"login"}, t \in Handed : Present(q, kind, t)
      PROVE  Listed(r)'
  <2>1. CASE q = r
    BY <1>6, <1>9, <2>1 DEF Login, Present, Arrive
  <2>2. CASE q # r
    BY <1>7, <1>9, <2>2 DEF Login, Present, Arrive
  <2> QED
    BY <2>1, <2>2
<1> QED
  BY <1>2, <1>3, <1>4, <1>5, <1>7, <1>8, <1>9
     DEF Next, Step, SetActive, RemoveUser, CleanupExpiredTokens, Tick, vars

\* A token becomes revoked only as the one its request has on its list.
LEMMA StepRevoked ==
    IInv /\ ListsAreOwn /\ RevokedByOwner /\ [Next]_vars => RevokedByOwner'
<1> SUFFICES ASSUME IInv, ListsAreOwn, RevokedByOwner, [Next]_vars,
                    NEW t \in issued', userToken'[t] # Null, userToken'[t].revoked
             PROVE  \E r \in Request : MayRevoke(r, t)'
  BY DEF RevokedByOwner
<1> USE DEF IInv, TypeOK, table, local
<1>1. ASSUME t \in issued, NEW r \in Request, MayRevoke(r, t) PROVE MayRevoke(r, t)'
  <2>1. t \in Jti /\ pc[t.by] # "idle"
    BY <1>1 DEF Shape, IssuedOnTime
  <2> QED
    BY <1>1, <2>1, AskedForGood DEF MayRevoke, Jti
<1>2. CASE t \in issued /\ userToken[t] # Null /\ userToken[t].revoked
  BY <1>1, <1>2 DEF RevokedByOwner
<1>3. ASSUME NEW r \in Request, InvalidateSave(r), entry[r] = t, t \in issued
      PROVE  \E q \in Request : MayRevoke(q, t)'
  <2>1. t \in todo[r] /\ pc[r] \in {"revokeRefresh", "revokeAccess"}
    BY <1>3 DEF InvalidateSave, Shape, OnPath
  <2>2. CASE pc[r] = "revokeRefresh"
    <3>1. req[r].kind \in {"refresh", "logout"} /\ t = req[r].token
      BY <2>1, <2>2 DEF Shape, OnPath
    <3>2. t.type = "refresh"
      BY <2>2, <3>1 DEF ListsAreOwn, Listed
    <3> QED
      BY <1>1, <1>3, <2>2, <3>1, <3>2 DEF MayRevoke
  <2>3. CASE pc[r] = "revokeAccess"
    <3>1. req[r].kind = "logout" /\ t.type = "access" /\ req[t.by].user = req[r].user
      BY <2>1, <2>3 DEF ListsAreOwn, Listed, Shape, OnPath
    <3> QED
      BY <1>1, <1>3, <2>3, <3>1 DEF MayRevoke
  <2> QED
    BY <2>1, <2>2, <2>3
<1>4. ASSUME NEW r \in Request, InvalidateSave(r), entry[r] # t
      PROVE  t \in issued /\ userToken'[t] = userToken[t]
  BY <1>4 DEF InvalidateSave
<1>5. ASSUME NEW r \in Request, IssueAccess(r) \/ IssueRefresh(r)
      PROVE  t \in issued /\ userToken'[t] = userToken[t]
  <2>1. ASSUME NEW type \in TokenType, NEW next, IssueToken(r, type, next)
        PROVE  t \in issued /\ userToken'[t] = userToken[t]
    <3> DEFINE new == [by |-> r, type |-> type]
    <3>1. new \in Jti
      BY DEF Jti
    <3>2. CASE account[req[r].user] # "absent"
      <4>1. userToken'[new].revoked = FALSE /\ issued' = issued \cup {new}
        BY <2>1, <3>1, <3>2 DEF IssueToken
      <4> HIDE DEF new
      <4>2. t # new
        BY <4>1
      <4>3. userToken'[t] = userToken[t]
        BY <2>1, <3>2, <4>2 DEF IssueToken, new
      <4> QED
        BY <4>1, <4>2, <4>3
    <3>3. CASE account[req[r].user] = "absent"
      BY <2>1, <3>3 DEF IssueToken
    <3> QED
      BY <3>2, <3>3
  <2> QED
    BY <1>5, <2>1 DEF IssueAccess, IssueRefresh, TokenType
<1>6. CASE CleanupExpiredTokens
  BY <1>6, <1>2 DEF CleanupExpiredTokens
<1>7. CASE UNCHANGED <<userToken, issued>>
  BY <1>2, <1>7
<1>8. ASSUME NEW r \in Request, InvalidateSave(r) PROVE \E q \in Request : MayRevoke(q, t)'
  BY <1>2, <1>3, <1>4, <1>8 DEF InvalidateSave
<1> QED
  BY <1>2, <1>5, <1>6, <1>7, <1>8
     DEF Next, Step, vars, Login, Present, Arrive, CheckToken, CheckUser, InvalidateFind,
         GetAccessTokens, AuditAuth, Reply, Abort, SetActive, RemoveUser, Tick

\* refresh and logout: whatever overlaps, a refresh token is revoked by a request
\* that presented it and by no other, an access token by a logout of its user.
THEOREM OnlyOwnersRevoke == Spec => []OthersKeepTheirSession
<1>1. Init => ListsAreOwn /\ RevokedByOwner
  BY DEF Init, ListsAreOwn, Listed, RevokedByOwner
<1>2. RevokedByOwner => OthersKeepTheirSession
  BY DEF RevokedByOwner, MayRevoke, OthersKeepTheirSession
<1> QED
  BY <1>1, <1>2, TypeCorrect, StepLists, StepRevoked, PTL DEF Spec

(***************************************************************************)
(* What outlives a logout.                                                 *)
(***************************************************************************)
\* A session begins with a login; who presents one of its tokens belongs to
\* it, and to its user.
SessionOf(r) ==
    LET s == start[r].session IN
    pc[r] # "idle" =>
      /\ s \in Request /\ pc[s] # "idle" /\ req[s].user = req[r].user
      /\ req[r].kind = "login" => s = r
      /\ req[r].kind # "login" => /\ pc[s] = "done"
                                  /\ req[r].token \in Handed
                                  /\ s = start[req[r].token.by].session
      /\ /\ req[r].kind \in {"refresh", "logout"}
         /\ Verified(r) \/ pc[r] = "checkUser"
         => req[r].token.type = "refresh"

Sessions == \A r \in Request : SessionOf(r)

\* A refresh or logout that has revoked the token presented goes on with it dead.
UsedIsDead ==
    \A r \in Request :
        /\ req[r].kind \in {"refresh", "logout"}
        /\ Verified(r) /\ pc[r] # "revokeRefresh"
        => req[r].token \in Dead

\* An answered refresh was asked for with t.
Spent(t) == \E q \in Refreshes(start[t.by].session) : req[q].token = t

\* Two answered refreshes were asked for with one token.
Split(s) == \E q, p \in Refreshes(s) : q # p /\ req[q].token = req[p].token

\* The refresh tokens that clients hold of a session that is not split form a
\* chain, each but the last spent for the next.
Chained ==
    \A t, u \in Handed :
        /\ t.type = "refresh" /\ u.type = "refresh"
        /\ start[t.by].session = start[u.by].session
        /\ ~ Split(start[t.by].session)
        => t = u \/ Spent(t) \/ Spent(u)

\* So nothing is added to the session after a logout has arrived with the last
\* of them, unless a refresh spends it too.
NothingAfterLogout ==
    \A r \in Request :
        /\ pc[r] # "idle" /\ req[r].kind = "logout"
        /\ req[r].token.type = "refresh"
        /\ ~ Split(start[r].session) /\ ~ Spent(req[r].token)
        => \A t \in Handed : start[t.by].session = start[r].session
                               => t \in start[r].handed

\* Only Reply makes a request done, and so hands its tokens out; what had been
\* handed stays so.
LEMMA HandedGrows ==
    ASSUME IInv, [Next]_vars
    PROVE  \/ /\ \A r \in Request : pc'[r] = "done" <=> pc[r] = "done"
              /\ Handed' = Handed
           \/ \E q \in Request : /\ Reply(q)
                                 /\ Handed' = Handed \cup {t \in issued : t.by = q}
<1> USE DEF IInv, TypeOK, table, local
<1>1. ASSUME NEW q \in Request, Reply(q)
      PROVE  Handed' = Handed \cup {t \in issued : t.by = q}
  BY <1>1 DEF Reply, Handed
<1>2. ASSUME \A r \in Request : pc'[r] = "done" <=> pc[r] = "done",
             \A t \in issued' : pc[t.by] = "done" => t \in issued,
             issued \subseteq issued'
      PROVE  Handed' = Handed
  <2>1. \A t \in issued : t.by \in Request
    BY DEF Jti
  <2>2. \A t \in issued' : pc'[t.by] = "done" => pc[t.by] = "done"
    BY <1>2, StepTypeOK DEF Jti
  <2> QED
    BY <1>2, <2>1, <2>2 DEF Handed
<1>3. ASSUME NEW q \in Request, IssueAccess(q) \/ IssueRefresh(q)
      PROVE  /\ \A r \in Request : pc'[r] = "done" <=> pc[r] = "done"
             /\ Handed' = Handed
  <2>1. \A r \in Request : pc'[r] = "done" <=> pc[r] = "done"
    BY <1>3 DEF IssueAccess, IssueRefresh, IssueToken
  <2>2. \A t \in issued' : t \in issued \/ t.by = q
    BY <1>3 DEF IssueAccess, IssueRefresh, IssueToken
  <2>3. issued \subseteq issued' /\ pc[q] # "done"
    BY <1>3 DEF IssueAccess, IssueRefresh, IssueToken
  <2> QED
    BY <1>2, <2>1, <2>2, <2>3
<1>4. ASSUME UNCHANGED issued, \A r \in Request : pc'[r] = "done" <=> pc[r] = "done"
      PROVE  Handed' = Handed
  BY <1>2, <1>4
<1>5. ASSUME NEW q \in Request,
             \/ CheckToken(q) \/ CheckUser(q) \/ InvalidateFind(q) \/ InvalidateSave(q)
             \/ GetAccessTokens(q) \/ AuditAuth(q) \/ Abort(q)
      PROVE  UNCHANGED issued /\ \A r \in Request : pc'[r] = "done" <=> pc[r] = "done"
  BY <1>5 DEF CheckToken, CheckUser, InvalidateFind, InvalidateSave, Invalidated,
     AfterInvalidating, GetAccessTokens, AuditAuth, Abort, Steps, Shape, OnPath
<1>6. ASSUME NEW q \in Request,
             \/ \E u \in User, ok \in BOOLEAN : Login(q, u, ok)
             \/ \E kind \in Kinds \ {"login"}, t \in Handed : Present(q, kind, t)
      PROVE  UNCHANGED issued /\ \A r \in Request : pc'[r] = "done" <=> pc[r] = "done"
  BY <1>6 DEF Login, Present, Arrive
<1>7. ASSUME UNCHANGED <<pc, issued>>
      PROVE  UNCHANGED issued /\ \A r \in Request : pc'[r] = "done" <=> pc[r] = "done"
  BY <1>7
<1> QED
  BY <1>1, <1>3, <1>4, <1>5, <1>6, <1>7
     DEF Next, Step, SetActive, RemoveUser, CleanupExpiredTokens, Tick, vars

\* Arrive notes the session; nothing changes it, and CheckToken checks the type.
LEMMA StepSessions == IInv /\ Sessions /\ [Next]_vars => Sessions'
<1> SUFFICES ASSUME IInv, Sessions, [Next]_vars, NEW r \in Request, pc'[r] # "idle"
             PROVE  SessionOf(r)'
  BY DEF Sessions, SessionOf
<1> USE DEF IInv, TypeOK, table, local
<1>0. Handed \subseteq Handed' /\ \A t \in Handed : t.by \in Request /\ pc[t.by] = "done"
  BY HandedGrows DEF Handed, Jti
<1>a. \A q \in Request : pc[q] = "done" => pc'[q] = "done"
  BY HandedGrows DEF Reply
<1>1. CASE pc[r] # "idle"
  <2>1. req'[r] = req[r] /\ start'[r] = start[r]
    BY <1>1, AskedForGood
  <2> DEFINE s == start[r].session
  <2>2. /\ s \in Request /\ pc[s] # "idle" /\ req[s].user = req[r].user
        /\ req[r].kind = "login" => s = r
        /\ req[r].kind # "login" => /\ pc[s] = "done"
                                    /\ req[r].token \in Handed
                                    /\ s = start[req[r].token.by].session
        /\ /\ req[r].kind \in {"refresh", "logout"}
           /\ Verified(r) \/ pc[r] = "checkUser"
           => req[r].token.type = "refresh"
    BY <1>1 DEF Sessions, SessionOf
  <2>3. req'[s] = req[s] /\ start'[s] = start[s] /\ pc'[s] # "idle"
    BY <2>2, AskedForGood
  <2>4. req[r].kind # "login" =>
          start'[req[r].token.by].session = start[req[r].token.by].session
    BY <1>0, <2>2, AskedForGood
  <2>5. ASSUME req[r].kind \in {"refresh", "logout"}, Verified(r)' \/ pc'[r] = "checkUser",
               ~ (Verified(r) \/ pc[r] = "checkUser")
        PROVE  req[r].token.type = "refresh"
    <3>1. ASSUME CheckToken(r) PROVE req[r].token.type = "refresh"
      BY <2>5, <3>1 DEF CheckToken, IsTokenValid, ExpectedType, Verified, Steps
    <3>2. ASSUME NEW q \in Request, Step(q) \/ Abort(q), ~ CheckToken(r) PROVE FALSE
      BY <2>5, <3>2 DEF Verified, Steps, Shape, OnPath, Step, Abort, CheckToken,
         CheckUser, InvalidateFind, InvalidateSave, Invalidated, AfterInvalidating,
         GetAccessTokens, IssueAccess, IssueRefresh, IssueToken, AuditAuth, Reply
    <3>3. ASSUME NEW q \in Request,
                 \/ \E u \in User, ok \in BOOLEAN : Login(q, u, ok)
                 \/ \E kind \in Kinds \ {"login"}, t \in Handed : Present(q, kind, t)
          PROVE  FALSE
      BY <1>1, <2>5, <3>3 DEF Login, Present, Arrive, Verified
    <3>4. ASSUME UNCHANGED pc PROVE FALSE
      BY <2>5, <3>4 DEF Verified
    <3> QED
      BY <3>1, <3>2, <3>3, <3>4 DEF Next, SetActive, RemoveUser, CleanupExpiredTokens,
         Tick, vars
  <2> QED
    BY <1>0, <1>a, <2>1, <2>2, <2>3, <2>4, <2>5 DEF SessionOf
<1>2. CASE pc[r] = "idle"
  <2>1. ASSUME NEW q \in Request, q # r, NEW step, pc' = [pc EXCEPT ![q] = step] PROVE FALSE
    BY <1>2, <2>1
  <2>2. ASSUME NEW q \in Request, Step(q) \/ Abort(q) PROVE FALSE
    BY <1>2, <2>2 DEF Step, Steps, Abort, CheckToken, CheckUser, InvalidateFind,
       InvalidateSave, Shape, OnPath, Invalidated, GetAccessTokens, IssueAccess,
       IssueRefresh, IssueToken, AuditAuth, Reply
  <2>3. ASSUME UNCHANGED pc PROVE FALSE
    BY <1>2, <2>3
  <2>4. ASSUME NEW u \in User, NEW ok \in BOOLEAN, Login(r, u, ok) PROVE SessionOf(r)'
    BY <2>4 DEF Login, Arrive, SessionOf
  <2>5. ASSUME NEW kind \in Kinds \ {"login"}, NEW t \in Handed, Present(r, kind, t)
        PROVE  SessionOf(r)'
    <3> DEFINE s == start[t.by].session
    <3>1. req'[r] = [kind |-> kind, user |-> req[t.by].user, token |-> t]
      BY <2>5 DEF Present, Arrive
    <3>2. start'[r].session = s /\ pc'[r] = "checkToken"
      BY <2>5 DEF Present, Arrive
    <3>3. /\ t.by \in Request /\ pc[t.by] = "done"
          /\ s \in Request /\ pc[s] = "done" /\ req[s].user = req[t.by].user
      BY <1>0 DEF Sessions, SessionOf
    <3>4. /\ req'[s] = req[s]
          /\ start'[t.by].session = s
      BY <3>3, AskedForGood
    <3> QED
      BY <1>0, <1>a, <3>1, <3>2, <3>3, <3>4 DEF SessionOf, Verified, Steps
  <2> QED
    BY <2>1, <2>2, <2>3, <2>4, <2>5 DEF Next, Login, Present, SetActive, RemoveUser,
       CleanupExpiredTokens, Tick, vars
<1> QED
  BY <1>1, <1>2

\* invalidateToken of the token presented ends with it dead, and nothing revives it.
LEMMA StepUsed == IInv /\ UsedIsDead /\ [Next]_vars => UsedIsDead'
<1> SUFFICES ASSUME IInv, UsedIsDead, [Next]_vars, NEW r \in Request,
                    req'[r].kind \in {"refresh", "logout"},
                    Verified(r)', pc'[r] # "revokeRefresh"
             PROVE  req'[r].token \in Dead'
  BY DEF UsedIsDead
<1> USE DEF IInv, TypeOK, table, local, Verified, Steps
<1>1. CASE Verified(r) /\ pc[r] # "revokeRefresh"
  BY <1>1, DeadStaysDead, AskedForGood DEF UsedIsDead
<1>2. CASE ~ (Verified(r) /\ pc[r] # "revokeRefresh")
  <2>1. ASSUME InvalidateFind(r) PROVE req'[r].token \in Dead'
    <3>1. PICK t \in todo[r] : IF userToken[t] = Null
                               THEN Invalidated(r, t) /\ UNCHANGED entry
                               ELSE entry' = [entry EXCEPT ![r] = t] /\ UNCHANGED <<todo, pc, signedAt>>
      BY <2>1 DEF InvalidateFind
    <3>2. pc[r] = "revokeRefresh" /\ UNCHANGED req
      BY <1>2, <2>1 DEF InvalidateFind
    <3>3. t = req[r].token /\ userToken[t] = Null /\ t \in issued
      BY <1>2, <2>1, <3>1, <3>2 DEF Shape, OnPath, Asked
    <3> QED
      BY <2>1, <3>2, <3>3 DEF InvalidateFind, Dead
  <2>2. ASSUME InvalidateSave(r) PROVE req'[r].token \in Dead'
    <3>1. pc[r] = "revokeRefresh" /\ entry[r] = req[r].token /\ entry[r] \in issued
      BY <1>2, <2>2 DEF InvalidateSave, Shape, OnPath, Asked
    <3>2. userToken[entry[r]] # Null
      BY <1>2, <2>2 DEF InvalidateSave
    <3>3. userToken'[entry[r]] = Revoked(userToken[entry[r]])
      BY <2>2, <3>1, <3>2 DEF InvalidateSave
    <3> QED
      BY <2>2, <3>1, <3>3 DEF InvalidateSave, Dead, Revoked
  <2>3. ASSUME NEW q \in Request, Step(q) \/ Abort(q),
               ~ InvalidateFind(r), ~ InvalidateSave(r)
        PROVE  FALSE
    <3>1. ASSUME InvalidateFind(q) \/ InvalidateSave(q) PROVE FALSE
      <4>1. q # r
        BY <2>3, <3>1
      <4>2. pc'[r] = pc[r] /\ req' = req
        BY <3>1, <4>1 DEF InvalidateFind, InvalidateSave, Invalidated
      <4> QED
        BY <1>2, <4>2
    <3>2. ASSUME CheckUser(q) PROVE FALSE
      BY <1>2, <3>2 DEF CheckUser
    <3> QED
      BY <1>2, <2>3, <3>1, <3>2 DEF Shape, OnPath, Step, Abort, CheckToken,
         GetAccessTokens, IssueAccess, IssueRefresh, IssueToken, AuditAuth, Reply
  <2>4. ASSUME NEW q \in Request, NEW u, NEW ok, Login(q, u, ok) PROVE FALSE
    BY <1>2, <2>4 DEF Login, Arrive
  <2>5. ASSUME NEW q \in Request, NEW kind, NEW t, Present(q, kind, t) PROVE FALSE
    BY <1>2, <2>5 DEF Present
  <2>6. ASSUME UNCHANGED pc PROVE FALSE
    BY <1>2, <2>6
  <2> QED
    BY <2>1, <2>2, <2>3, <2>4, <2>5, <2>6 DEF Next, SetActive, RemoveUser,
       CleanupExpiredTokens, Tick, vars
<1> QED
  BY <1>1, <1>2

\* Answered refreshes stay answered; only a Reply adds one.
LEMMA RefreshesGrow ==
    ASSUME IInv, [Next]_vars, NEW s
    PROVE  /\ Refreshes(s) \subseteq Refreshes(s)'
           /\ \A q \in Refreshes(s)' : q \in Refreshes(s) \/ Reply(q)
           /\ \A q \in Refreshes(s) : req'[q] = req[q]
<1>1. \A q \in Request : /\ pc[q] = "done" => pc'[q] = "done"
                         /\ pc'[q] = "done" => pc[q] = "done" \/ Reply(q)
  BY HandedGrows DEF IInv, TypeOK, Reply
<1>2. \A q \in Request : pc[q] = "done" => req'[q] = req[q] /\ start'[q] = start[q]
  BY AskedForGood
<1> QED
  BY <1>1, <1>2 DEF Refreshes

\* What was spent, or split, is so for good.
LEMMA SpentForGood ==
    ASSUME IInv, [Next]_vars
    PROVE  /\ \A s : Split(s) => Split(s)'
           /\ \A t \in Handed : /\ start'[t.by] = start[t.by]
                                /\ Spent(t) => Spent(t)'
<1>1. ASSUME NEW s, Split(s) PROVE Split(s)'
  BY <1>1, RefreshesGrow DEF Split
<1>2. ASSUME NEW t \in Handed
      PROVE  start'[t.by] = start[t.by] /\ (Spent(t) => Spent(t)')
  <2>1. t.by \in Request /\ pc[t.by] # "idle"
    BY DEF IInv, TypeOK, Handed, Jti
  <2>2. start'[t.by] = start[t.by]
    BY <2>1, AskedForGood
  <2>3. ASSUME Spent(t) PROVE Spent(t)'
    <3>1. PICK s : s = start[t.by].session
      OBVIOUS
    <3>2. PICK q \in Refreshes(s) : req[q].token = t
      BY <2>3, <3>1 DEF Spent
    <3>3. q \in Refreshes(s)' /\ req'[q].token = t
      BY <3>2, RefreshesGrow
    <3> QED
      BY <2>2, <3>1, <3>3 DEF Spent
  <2> QED
    BY <2>2, <2>3
<1> QED
  BY <1>1, <1>2

\* Reply to a request hands out tokens of a session in which, unless it is now
\* split, every other refresh token has been spent by then.
LEMMA ReplySpends ==
    ASSUME IInv, Sessions, Chained, NEW q \in Request, Reply(q),
           NEW u \in issued, u.by = q, ~ Split(start[q].session)',
           NEW t \in Handed, t.type = "refresh",
           start[t.by].session = start[q].session
    PROVE  Spent(t)'
<1> USE DEF IInv, TypeOK, table, local
<1>0. [Next]_vars
  BY DEF Next, Step
<1>1. /\ pc[q] = "reply" /\ pc'[q] = "done" /\ UNCHANGED <<req, start>>
      /\ t.by \in Request /\ pc[t.by] = "done"
  BY DEF Reply, Handed, Jti
<1>2. PICK s : s = start[q].session
  OBVIOUS
<1>3. ~ Split(s)' /\ ~ Split(s)
  BY <1>0, <1>1, <1>2, SpentForGood
<1>4. req[q].kind \in {"login", "refresh"}
  BY DEF Shape, IssuedOnTime
<1>5. CASE req[q].kind = "login"
  \* No other session has tokens of this one, which begins here.
  BY <1>1, <1>5 DEF Sessions, SessionOf
<1>6. CASE req[q].kind = "refresh"
  <2> DEFINE p == req[q].token
  <2>1. p \in Handed /\ p.type = "refresh" /\ start[p.by].session = s
    BY <1>1, <1>2, <1>6 DEF Sessions, SessionOf, Verified, Steps
  <2>2. q \in Refreshes(s)'
    BY <1>1, <1>2, <1>6 DEF Refreshes
  <2>3. CASE t = p
    BY <1>1, <1>2, <2>2, <2>3 DEF Spent
  <2>4. CASE Spent(p)
    <3>1. PICK x \in Refreshes(s) : req[x].token = p
      BY <2>1, <2>4 DEF Spent
    <3>2. x # q
      BY <1>1, <3>1 DEF Refreshes
    <3>3. x \in Refreshes(s)' /\ req'[x].token = req'[q].token
      BY <1>0, <1>1, <3>1, RefreshesGrow
    <3> QED
      BY <1>3, <2>2, <3>2, <3>3 DEF Split
  <2>5. CASE t # p /\ ~ Spent(p)
    BY <1>0, <1>2, <1>3, <2>1, <2>5, SpentForGood DEF Chained
  <2> QED
    BY <2>3, <2>4, <2>5
<1> QED
  BY <1>4, <1>5, <1>6

\* The tokens of one answer are one of each type, so the chain only gets longer.
LEMMA StepChained == IInv /\ Sessions /\ Chained /\ [Next]_vars => Chained'
<1> SUFFICES ASSUME IInv, Sessions, Chained, [Next]_vars,
                    NEW t \in Handed', NEW u \in Handed',
                    t.type = "refresh", u.type = "refresh",
                    start'[t.by].session = start'[u.by].session,
                    ~ Split(start[t.by].session)', t # u, ~ Spent(t)', ~ Spent(u)'
             PROVE  FALSE
  BY DEF Chained
<1> USE DEF IInv, TypeOK
<1>1. PICK s : s = start'[t.by].session
  OBVIOUS
<1>2. ~ Split(s)' /\ ~ Split(s)
  BY <1>1, SpentForGood
<1>3. CASE t \in Handed /\ u \in Handed
  BY <1>1, <1>2, <1>3, SpentForGood DEF Chained
<1>4. ASSUME NEW q \in Request, Reply(q), Handed' = Handed \cup {x \in issued : x.by = q}
      PROVE  FALSE
  <2>1. UNCHANGED start
    BY <1>4 DEF Reply, local
  <2>2. ASSUME NEW x \in issued, x.by = q, NEW y \in Handed, y.type = "refresh",
               start[x.by].session = s, start[y.by].session = s
        PROVE  Spent(y)'
    <3>1. ~ Split(start[q].session)'
      BY <1>2, <2>1, <2>2
    <3> QED
      BY <1>4, <2>2, <3>1, ReplySpends
  <2>3. CASE t.by = q /\ u.by = q /\ t \in issued /\ u \in issued
    BY <2>3 DEF Jti
  <2>4. CASE t.by = q /\ t \in issued /\ u \in Handed
    BY <1>1, <2>1, <2>2, <2>4
  <2>5. CASE u.by = q /\ u \in issued /\ t \in Handed
    BY <1>1, <2>1, <2>2, <2>5
  <2> QED
    BY <1>3, <1>4, <2>3, <2>4, <2>5
<1> QED
  BY <1>3, <1>4, HandedGrows

\* Whoever is answered later in the session of a logout has spent its token.
LEMMA StepNothingAfter ==
    IInv /\ Sessions /\ Chained /\ NothingAfterLogout /\ [Next]_vars
        => NothingAfterLogout'
<1> SUFFICES ASSUME IInv, Sessions, Chained, NothingAfterLogout, [Next]_vars,
                    NEW r \in Request, pc'[r] # "idle", req'[r].kind = "logout",
                    req'[r].token.type = "refresh", ~ Split(start[r].session)',
                    ~ Spent(req[r].token)',
                    NEW t \in Handed', start'[t.by].session = start'[r].session
             PROVE  t \in start'[r].handed
  BY DEF NothingAfterLogout
<1> USE DEF IInv, TypeOK
<1>1. PICK s, k : s = start'[r].session /\ k = req'[r].token
  OBVIOUS
<1>2. ~ Split(s)' /\ ~ Split(s) /\ ~ Spent(k)'
  BY <1>1, SpentForGood
<1>3. CASE pc[r] = "idle"
  <2>1. start'[r].handed = Handed /\ ~ (\E q \in Request : Reply(q))
    <3>1. ASSUME NEW q \in Request, Reply(q) PROVE FALSE
      BY <1>3, <3>1 DEF Reply
    <3> QED
      BY <1>3, <3>1, ArrivalNotes
  <2> QED
    BY <2>1, HandedGrows
<1>4. CASE pc[r] # "idle"
  <2>1. req'[r] = req[r] /\ start'[r] = start[r]
    BY <1>4, AskedForGood
  <2>2. k \in Handed /\ start[k.by].session = s /\ pc[s] = "done"
    BY <1>1, <1>4, <2>1 DEF Sessions, SessionOf
  <2>3. ~ Spent(k)
    BY <1>2, <2>2, SpentForGood
  <2>4. CASE t \in Handed
    BY <1>1, <1>2, <1>4, <2>1, <2>3, <2>4, SpentForGood DEF NothingAfterLogout
  <2>5. ASSUME NEW q \in Request, Reply(q), t \in issued, t.by = q PROVE FALSE
    <3>1. UNCHANGED start /\ start[q].session = s
      BY <1>1, <2>5 DEF Reply, local
    <3>2. ~ Split(start[q].session)'
      BY <1>2, <3>1
    <3> QED
      BY <1>1, <1>2, <2>1, <2>2, <2>5, <3>1, <3>2, ReplySpends
  <2> QED
    BY <2>4, <2>5, HandedGrows
<1> QED
  BY <1>3, <1>4

\* AuthService.logout: when a logout has answered, every token of its session is
\* dead, however often the session was refreshed before, unless a refresh raced
\* the logout for its token or two refreshes of the session raced each other.
THEOREM OnlyRacesOutlive == Spec => []OnlyOverlapsOutliveLogout
<1>1. Init => Sessions /\ UsedIsDead /\ Chained /\ NothingAfterLogout
  BY DEF Init, Sessions, SessionOf, UsedIsDead, Verified, Steps, Chained,
     NothingAfterLogout, Handed
<1>2. ASSUME TypeOK, RevokedNeverAccepted, LogoutEndsEarlierAccess,
             Sessions, UsedIsDead, Chained, NothingAfterLogout
      PROVE  OnlyOverlapsOutliveLogout
  <2> SUFFICES ASSUME NEW r \in Request, pc[r] = "done", req[r].kind = "logout",
                      ~ \E q \in Refreshes(start[r].session),
                           p \in Refreshes(start[r].session) \cup {r} : Raced(q, p),
                      NEW t \in Handed, start[t.by].session = start[r].session
               PROVE  t \in Dead
    BY DEF OnlyOverlapsOutliveLogout
  <2> DEFINE s == start[r].session
             k == req[r].token
  <2>1. ASSUME NEW q \in Refreshes(s)
        PROVE  /\ q \in Request /\ q # r
               /\ req[q].token \in Dead /\ req[q].token \notin start[q].dead
    BY <1>2, <2>1 DEF Refreshes, UsedIsDead, RevokedNeverAccepted, Verified
  <2>2. /\ k \in Handed /\ k.type = "refresh" /\ start[k.by].session = s
        /\ k \in Dead /\ k \notin start[r].dead
    BY <1>2 DEF Sessions, SessionOf, UsedIsDead, RevokedNeverAccepted, Verified
  <2>3. ~ Split(s)
    BY <2>1 DEF Split, Raced
  <2>4. ~ Spent(k)
    BY <2>1, <2>2 DEF Spent, Raced
  <2>5. t.by \in Request /\ pc[t.by] = "done" /\ t.type \in {"access", "refresh"}
    BY <1>2 DEF TypeOK, Handed, Jti, TokenType
  <2>6. CASE t.type = "access"
    <3>1. t \in start[r].handed
      BY <1>2, <2>2, <2>3, <2>4 DEF NothingAfterLogout
    <3>2. req[t.by].user = req[r].user
      BY <1>2, <2>5 DEF Sessions, SessionOf
    <3> QED
      BY <1>2, <2>6, <3>1, <3>2 DEF LogoutEndsEarlierAccess
  <2>7. CASE t.type = "refresh"
    <3>1. t = k \/ Spent(t)
      BY <1>2, <2>2, <2>3, <2>4, <2>7 DEF Chained
    <3> QED
      BY <2>1, <2>2, <3>1 DEF Spent
  <2> QED
    BY <2>5, <2>6, <2>7
<1> QED
  BY <1>1, <1>2, TypeCorrect, DeadTokensAreRefused, LogoutRevokesAccess,
     StepSessions, StepUsed, StepChained, StepNothingAfter, PTL DEF Spec

(***************************************************************************)
(* The registry implements TokenLifecycle.                                 *)
(***************************************************************************)
\* issueToken makes a token that did not exist live, or lapsed when its row took
\* longer to insert than the token lives.
LEMMA IssueImplements ==
    ASSUME IInv, NEW r \in Request, IssueAccess(r) \/ IssueRefresh(r)
    PROVE  Lifecycle!Next \/ UNCHANGED TokenStatus
<1> USE DEF IInv, TypeOK, table, local, TokenStatus, Expired
<1> DEFINE Issuing(t) == /\ t \in Jti \ issued
                         /\ issued' = issued \cup {t}
                         /\ \E row \in Row :
                              /\ ~ row.revoked
                              /\ userToken' = [userToken EXCEPT ![t] = row]
                         /\ UNCHANGED now
<1>1. ASSUME NEW type \in TokenType, NEW next, [by |-> r, type |-> type] \notin issued,
             pc[r] # "idle", IssueToken(r, type, next)
      PROVE  (\E t \in Jti : Issuing(t)) \/ UNCHANGED <<now, userToken, issued>>
  <2>1. CASE account[req[r].user] # "absent"
    <3> DEFINE t == [by |-> r, type |-> type]
               row == [user |-> req[r].user, expiresAt |-> signedAt[r] + Ttl(type), revoked |-> FALSE]
    <3>1. t \in Jti
      BY DEF Jti
    <3>2. row \in Row /\ ~ row.revoked
      BY <1>1, TtlAssumption DEF Row, Ttl, Shape, Asked
    <3>3. Issuing(t)
      <4>1. userToken' = [userToken EXCEPT ![t] = row]
        BY <1>1, <2>1 DEF IssueToken
      <4> HIDE DEF row
      <4> QED
        BY <1>1, <2>1, <3>1, <3>2, <4>1 DEF IssueToken
    <3> QED
      BY <3>1, <3>3
  <2>2. CASE account[req[r].user] = "absent"
    BY <1>1, <2>2 DEF IssueToken
  <2> QED
    BY <2>1, <2>2
<1>2. (\E t \in Jti : Issuing(t)) \/ UNCHANGED <<now, userToken, issued>>
  BY <1>1 DEF IssueAccess, IssueRefresh, TokenType, Shape, IssuedOnTime
<1>3. ASSUME NEW t \in Jti, Issuing(t) PROVE Lifecycle!Issue(t)
  <2>1. PICK row \in Row : /\ ~ row.revoked
                           /\ userToken' = [userToken EXCEPT ![t] = row]
    BY <1>3
  <2>2. row # Null
    BY NullAssumption
  <2>3. TokenStatus[t] = "unissued"
    BY <1>3
  <2>4. TokenStatus'[t] \in {"live", "lapsed"}
    BY <1>3, <2>1, <2>2
  <2>5. ASSUME NEW u \in Jti, u # t PROVE TokenStatus'[u] = TokenStatus[u]
    BY <1>3, <2>1, <2>5
  <2>6. TokenStatus' = [TokenStatus EXCEPT ![t] = TokenStatus'[t]]
    BY <2>4, <2>5
  <2> QED
    BY <2>3, <2>4, <2>6 DEF Lifecycle!Issue
<1>4. CASE \E t \in Jti : Issuing(t)
  BY <1>3, <1>4 DEF Lifecycle!Next
<1>5. CASE UNCHANGED <<now, userToken, issued>>
  BY <1>5
<1> QED
  BY <1>2, <1>4, <1>5

\* invalidateToken revokes a token, or revokes again what was revoked.
LEMMA InvalidateImplements ==
    ASSUME IInv, NEW r \in Request, InvalidateSave(r)
    PROVE  Lifecycle!Next \/ UNCHANGED TokenStatus
<1> USE DEF IInv, TypeOK, table, local, TokenStatus, Expired
<1> DEFINE t == entry[r]
<1>0. t \in Jti /\ UNCHANGED <<now, issued>>
  BY DEF InvalidateSave
<1>1. CASE userToken[t] = Null
  BY <1>0, <1>1 DEF InvalidateSave
<1>2. CASE userToken[t] # Null
  <2>1. userToken' = [userToken EXCEPT ![t] = Revoked(userToken[t])]
    BY <1>2 DEF InvalidateSave
  <2>2. t \in issued
    BY <1>0, <1>2 DEF Shape, RowOfIssued
  <2>3. Revoked(userToken[t]) # Null /\ Revoked(userToken[t]).revoked
    <3>1. userToken[t] \in Row
      BY <1>0, <1>2
    <3>2. ASSUME NEW row \in Row PROVE Revoked(row) \in Row /\ Revoked(row).revoked
      BY DEF Revoked, Row
    <3> QED
      BY <3>1, <3>2, NullAssumption
  <2>4. TokenStatus'[t] = "revoked"
    BY <1>0, <2>1, <2>2, <2>3
  <2>5. TokenStatus[t] \in {"live", "lapsed", "revoked"}
    BY <1>0, <1>2, <2>2
  <2>6. ASSUME NEW u \in Jti, u # t PROVE TokenStatus'[u] = TokenStatus[u]
    BY <1>0, <2>1, <2>6
  <2>7. TokenStatus' = [TokenStatus EXCEPT ![t] = "revoked"]
    <3>1. TokenStatus' = [u \in Jti |-> TokenStatus'[u]]
      OBVIOUS
    <3>2. TokenStatus = [u \in Jti |-> TokenStatus[u]]
      OBVIOUS
    <3> HIDE DEF TokenStatus
    <3> QED
      BY <1>0, <2>4, <2>6, <3>1, <3>2
  <2>8. CASE TokenStatus[t] = "revoked"
    BY <2>7, <2>8
  <2>9. CASE TokenStatus[t] \in {"live", "lapsed"}
    BY <1>0, <2>7, <2>9 DEF Lifecycle!Revoke, Lifecycle!Next
  <2> QED
    BY <2>5, <2>8, <2>9
<1> QED
  BY <1>1, <1>2

\* The cleanup forgets tokens whose time is up, and only those.
LEMMA CleanupImplements ==
    ASSUME IInv, CleanupExpiredTokens
    PROVE  Lifecycle!Next \/ UNCHANGED TokenStatus
<1> USE DEF IInv, TypeOK, table, local, TokenStatus, Expired
<1> DEFINE S == {t \in Jti : LongExpired(t)}
<1>1. ASSUME NEW t \in S
      PROVE  TokenStatus[t] \in {"lapsed", "revoked"} /\ TokenStatus'[t] = "purged"
  <2>1. userToken[t] # Null /\ t \in issued /\ userToken[t].expiresAt <= now
    BY RetentionAssumption DEF LongExpired, Row, Shape, RowOfIssued
  <2> QED
    BY <2>1 DEF CleanupExpiredTokens
<1>2. ASSUME NEW t \in Jti \ S PROVE TokenStatus'[t] = TokenStatus[t]
  BY DEF CleanupExpiredTokens
<1>3. TokenStatus' = [t \in Jti |-> IF t \in S THEN "purged" ELSE TokenStatus[t]]
  BY <1>1, <1>2
<1>4. S \in SUBSET {t \in Jti : TokenStatus[t] \in {"lapsed", "revoked"}}
  BY <1>1
<1> QED
  BY <1>3, <1>4 DEF Lifecycle!Purge, Lifecycle!Next

\* The clock makes live tokens lapse.
LEMMA TickImplements ==
    ASSUME IInv, Tick
    PROVE  Lifecycle!Next \/ UNCHANGED TokenStatus
<1> USE DEF IInv, TypeOK, table, local, TokenStatus, Expired
<1> DEFINE S == {t \in Jti : TokenStatus[t] = "live" /\ Expired(t)'}
<1>1. ASSUME NEW t \in S PROVE TokenStatus'[t] = "lapsed"
  BY DEF Tick
<1>2. ASSUME NEW t \in Jti \ S PROVE TokenStatus'[t] = TokenStatus[t]
  BY DEF Tick, Row
<1>3. TokenStatus' = [t \in Jti |-> IF t \in S THEN "lapsed" ELSE TokenStatus[t]]
  BY <1>1, <1>2
<1>4. S \in SUBSET {t \in Jti : TokenStatus[t] = "live"}
  OBVIOUS
<1> QED
  BY <1>3, <1>4 DEF Lifecycle!Lapse, Lifecycle!Next

\* AuthSessions implements TokenLifecycle: seen from outside, the registry only
\* issues, revokes, lapses and forgets tokens, and never makes a dead one live.
THEOREM RegistryImplementsLifecycle == Spec => ImplementsLifecycle
<1>1. Init => Lifecycle!Init
  BY DEF Init, Lifecycle!Init, Lifecycle!Status, TokenStatus
<1>2. IInv /\ [Next]_vars => [Lifecycle!Next]_TokenStatus
  <2> SUFFICES ASSUME IInv, [Next]_vars PROVE Lifecycle!Next \/ UNCHANGED TokenStatus
    OBVIOUS
  <2>1. CASE UNCHANGED <<now, userToken, issued>>
    BY <2>1 DEF TokenStatus, Expired
  <2> QED
    BY <2>1, IssueImplements, InvalidateImplements, CleanupImplements, TickImplements
       DEF Next, Step, vars, table, local, Login, Present, Arrive, CheckToken, CheckUser,
           InvalidateFind, GetAccessTokens, AuditAuth, Reply, Abort, SetActive, RemoveUser
<1> QED
  BY <1>1, <1>2, TypeCorrect, PTL DEF Spec, ImplementsLifecycle, Lifecycle!Spec
=============================================================================
