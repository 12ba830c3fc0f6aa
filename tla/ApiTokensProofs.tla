-------------------------- MODULE ApiTokensProofs ---------------------------
(***************************************************************************)
(* What is proved about ApiTokens for every number of tokens, environments *)
(* and requests in flight.                                                 *)
(*                                                                         *)
(* IInv says where in its handler a request can be and what it holds by    *)
(* then.  On it rests that a token is stored as decided unless a stale     *)
(* save wrote over it (StoredAsDecided), from which the guard's decisions  *)
(* follow, and that a removal is on record before its row goes.            *)
(***************************************************************************)
EXTENDS ApiTokens, TLAPS

(***************************************************************************)
(* Where a request can be, and what it holds by then.                      *)
(***************************************************************************)
\* What the handler of each kind has been given, or has read.
Holds(r) ==
    /\ pc[r] # "idle" => req[r].kind \in Kinds
    /\ pc[r] = "insert" => /\ req[r].kind = "create"
                           /\ req[r].dto.env # Null /\ req[r].dto.active # Null
    /\ pc[r] \in {"load", "save", "reload", "audit", "delete", "done"} => req[r].token \in Token
    /\ pc[r] = "load" => req[r].kind \in {"update", "regenerate", "remove"}
    /\ pc[r] = "save" => req[r].kind \in {"update", "regenerate"} /\ loaded[r] # Null
    /\ pc[r] = "reload" => req[r].kind # "remove"
    /\ pc[r] = "delete" => req[r].kind = "remove"

IInv == TypeOK /\ \A r \in Request : Holds(r)

\* Changed: a row with some of its fields replaced is a row.
LEMMA ChangedIsRow ==
    ASSUME NEW row \in Row, NEW r \in Request,
           req[r].dto \in Dto
    PROVE  Changed(row, r) \in Row
BY DEF Changed, Row, Dto, Secret

\* Withdraws: what a request takes out of use are secrets.
LEMMA WithdrawnAreSecrets ==
    ASSUME TypeOK, NEW r \in Request, req[r].token \in Token
    PROVE  Withdraws(r) \subseteq Secret
BY DEF TypeOK, Withdraws, Row

(***************************************************************************)
(* The type invariant.                                                     *)
(***************************************************************************)
\* Arrival of a request: it keeps the types of all it writes.
LEMMA ArriveInv ==
    ASSUME IInv, NEW r \in Request, NEW kind \in Kinds, NEW t \in Token \cup {Null},
           NEW dto \in Dto, NEW step \in {"load", "insert"},
           Arrive(r, kind, t, dto, step),
           step = "insert" => kind = "create" /\ dto.env # Null /\ dto.active # Null,
           step = "load" => kind # "create" /\ t \in Token
    PROVE  IInv'
<1>1. TypeOK'
  BY DEF IInv, TypeOK, Arrive, tables, history, Steps, Kinds
<1>2. \A q \in Request : Holds(q)'
  BY DEF IInv, TypeOK, Arrive, tables, history, Holds, Kinds
<1> QED  BY <1>1, <1>2 DEF IInv

\* Every action of Next, and stuttering, keeps the types, and every handler on
\* its way.
LEMMA StepInv == IInv /\ [Next]_vars => IInv'
<1> SUFFICES ASSUME IInv, [Next]_vars PROVE IInv'
  OBVIOUS
<1>0. TypeOK /\ \A r \in Request : Holds(r)
  BY DEF IInv
<1> USE DEF tables, local, history
<1>1. ASSUME NEW r \in Request, NEW dto \in Dto, Create(r, dto) PROVE IInv'
  BY <1>1, ArriveInv DEF Create, Kinds
<1>2. ASSUME NEW r \in Request, NEW dto \in Dto, NEW t \in Token, Update(r, t, dto) PROVE IInv'
  BY <1>2, ArriveInv DEF Update, Kinds
<1>3. ASSUME NEW r \in Request, NEW t \in Token, Regenerate(r, t) \/ Remove(r, t) PROVE IInv'
  <2>1. Blank \in Dto
    BY DEF Blank, Dto
  <2> QED
    BY <1>3, <2>1, ArriveInv DEF Regenerate, Remove, Kinds
<1>a. ASSUME NEW r \in Request, pc[r] # "idle", Fail(r) PROVE IInv'
  <2>1. TypeOK'
    BY <1>0, <1>a DEF Fail, TypeOK, Ends
  <2>2. \A q \in Request : Holds(q)'
    BY <1>0, <1>a DEF Fail, TypeOK, Holds, Kinds
  <2> QED  BY <2>1, <2>2 DEF IInv
<1>4. ASSUME NEW r \in Request, Insert(r) PROVE IInv'
  <2> DEFINE row == [secret |-> r, env |-> req[r].dto.env, active |-> req[r].dto.active]
  <2>1. row \in Row
    BY <1>0, <1>4 DEF Insert, TypeOK, Holds, Row, Dto, Secret
  <2>2. CASE Fail(r)
    BY <1>4, <1>a, <2>2 DEF Insert
  <2>3. CASE ~ Fail(r)
    <3>1. PICK t \in Token \ born :
             /\ token' = [token EXCEPT ![t] = row]
             /\ decided' = [decided EXCEPT ![t] = row]
             /\ born' = born \cup {t}
             /\ req' = [req EXCEPT ![r] = [kind |-> "create", token |-> t, dto |-> req[r].dto]]
             /\ pc' = [pc EXCEPT ![r] = "reload"]
             /\ UNCHANGED <<environments, recorded, loaded, withdrawn, dirty>>
      BY <1>4, <2>3 DEF Insert
    <3>2. TypeOK'
      BY <1>0, <2>1, <3>1 DEF TypeOK, Steps, Kinds
    <3>3. \A q \in Request : Holds(q)'
      BY <1>0, <3>1 DEF TypeOK, Holds, Kinds
    <3> QED  BY <3>2, <3>3 DEF IInv
  <2> QED  BY <2>2, <2>3
<1>5. ASSUME NEW r \in Request, Load(r) PROVE IInv'
  <2>1. CASE Fail(r)
    BY <1>5, <1>a, <2>1 DEF Load
  <2>2. CASE ~ Fail(r)
    <3>1. TypeOK'
      BY <1>0, <1>5, <2>2 DEF Load, TypeOK, Holds, Steps
    <3>2. \A q \in Request : Holds(q)'
      BY <1>0, <1>5, <2>2 DEF Load, TypeOK, Holds
    <3> QED  BY <3>1, <3>2 DEF IInv
  <2> QED  BY <2>1, <2>2
<1>6. ASSUME NEW r \in Request, Save(r) PROVE IInv'
  <2>1. CASE Fail(r)
    BY <1>6, <1>a, <2>1 DEF Save
  <2>2. CASE ~ Fail(r)
    <3>1. req[r].token \in Token /\ loaded[r] \in Row /\ req[r].dto \in Dto
      BY <1>0, <1>6 DEF Save, TypeOK, Holds
    <3>2. \A row \in Row : Changed(row, r) \in Row
      BY <3>1, ChangedIsRow
    <3>3. Withdraws(r) \subseteq Secret
      BY <1>0, <3>1, WithdrawnAreSecrets
    <3>4. TypeOK'
      BY <1>0, <1>6, <2>2, <3>1, <3>2, <3>3 DEF Save, TypeOK, Steps
    <3>5. \A q \in Request : Holds(q)'
      BY <1>0, <1>6, <2>2 DEF Save, TypeOK, Holds
    <3> QED  BY <3>4, <3>5 DEF IInv
  <2> QED  BY <2>1, <2>2
<1>7. ASSUME NEW r \in Request, Reload(r) PROVE IInv'
  <2>1. CASE Fail(r)
    BY <1>7, <1>a, <2>1 DEF Reload
  <2>2. CASE ~ Fail(r)
    <3>1. TypeOK'
      BY <1>0, <1>7, <2>2 DEF Reload, TypeOK, Steps, Ends
    <3>2. \A q \in Request : Holds(q)'
      BY <1>0, <1>7, <2>2 DEF Reload, TypeOK, Holds
    <3> QED  BY <3>1, <3>2 DEF IInv
  <2> QED  BY <2>1, <2>2
<1>8. ASSUME NEW r \in Request, Audit(r) PROVE IInv'
  <2>1. TypeOK'
    BY <1>0, <1>8 DEF Audit, TypeOK, Steps, Ends
  <2>2. \A q \in Request : Holds(q)'
    BY <1>0, <1>8 DEF Audit, TypeOK, Holds
  <2> QED  BY <2>1, <2>2 DEF IInv
<1>9. ASSUME NEW r \in Request, Delete(r) PROVE IInv'
  <2>1. req[r].token \in Token
    BY <1>0, <1>9 DEF Delete, Holds
  <2>2. Withdraws(r) \subseteq Secret
    BY <1>0, <2>1, WithdrawnAreSecrets
  <2>3. TypeOK'
    BY <1>0, <1>9, <2>1, <2>2 DEF Delete, TypeOK, Ends
  <2>4. \A q \in Request : Holds(q)'
    BY <1>0, <1>9 DEF Delete, TypeOK, Holds
  <2> QED  BY <2>3, <2>4 DEF IInv
<1>10. ASSUME NEW e \in Environment, RemoveEnvironment(e) PROVE IInv'
  BY <1>0, <1>10 DEF RemoveEnvironment, IInv, TypeOK, Holds
<1>11. CASE UNCHANGED vars
  BY <1>0, <1>11 DEF vars, IInv, TypeOK, Holds
<1> QED
  BY <1>1, <1>2, <1>3, <1>a, <1>4, <1>5, <1>6, <1>7, <1>8, <1>9, <1>10, <1>11
     DEF Next, Step, Abort, Steps

\* TypeOK: the tables, and every request's program counter and local variables,
\* stay in their types.
THEOREM TypeCorrect == Spec => []IInv /\ []TypeOK
<1>1. Init => IInv
  <2> SUFFICES ASSUME Init PROVE IInv
    OBVIOUS
  <2>1. TypeOK
    BY DEF Init, TypeOK, Existing, Blank, Dto
  <2>2. \A r \in Request : Holds(r)
    BY DEF Init, Holds
  <2> QED  BY <2>1, <2>2 DEF IInv
<1>2. IInv => TypeOK
  BY DEF IInv
<1> QED
  BY <1>1, <1>2, StepInv, PTL DEF Spec

(***************************************************************************)
(* What is never taken back.                                               *)
(***************************************************************************)
\* A request that has passed its first write is asked for good, and keys,
\* records, stale saves and withdrawn secrets only add up.
LEMMA OnlyAddsUp ==
    IInv /\ [Next]_vars =>
        /\ born \subseteq born' /\ recorded \subseteq recorded'
        /\ dirty \subseteq dirty' /\ withdrawn \subseteq withdrawn'
        /\ \A r \in Request : pc[r] # "idle" =>
             /\ pc'[r] # "idle"
             /\ pc[r] # "insert" => pc'[r] # "insert" /\ req'[r] = req[r]
<1> SUFFICES ASSUME IInv, [Next]_vars
             PROVE  /\ born \subseteq born' /\ recorded \subseteq recorded'
                    /\ dirty \subseteq dirty' /\ withdrawn \subseteq withdrawn'
                    /\ \A r \in Request : pc[r] # "idle" =>
                         /\ pc'[r] # "idle"
                         /\ pc[r] # "insert" => pc'[r] # "insert" /\ req'[r] = req[r]
  OBVIOUS
<1> USE DEF IInv, TypeOK, tables, local, history, Fail
<1>1. ASSUME NEW r \in Request, Step(r) \/ Abort(r)
      PROVE  /\ born \subseteq born' /\ recorded \subseteq recorded'
             /\ dirty \subseteq dirty' /\ withdrawn \subseteq withdrawn'
             /\ pc[r] # "idle" /\ pc' = [pc EXCEPT ![r] = pc'[r]]
             /\ pc'[r] \in Steps \cup Ends /\ pc'[r] # "insert"
             /\ pc[r] # "insert" => req' = req
             /\ req' = [req EXCEPT ![r] = req'[r]]
  <2>1. CASE Insert(r)
    BY <2>1 DEF Insert, Steps, Ends
  <2>2. CASE Load(r) \/ Save(r)
    BY <2>2 DEF Load, Save, Steps, Ends
  <2>3. CASE Reload(r) \/ Audit(r) \/ Delete(r) \/ Abort(r)
    BY <2>3 DEF Reload, Audit, Delete, Abort, Steps, Ends
  <2> QED  BY <1>1, <2>1, <2>2, <2>3 DEF Step
<1>2. ASSUME NEW r \in Request, NEW kind, NEW t, NEW dto, NEW step \in {"load", "insert"},
             Arrive(r, kind, t, dto, step)
      PROVE  /\ UNCHANGED <<born, recorded, dirty, withdrawn>> /\ pc[r] = "idle"
             /\ pc' = [pc EXCEPT ![r] = step]
             /\ \A q \in Request \ {r} : req'[q] = req[q]
  BY <1>2 DEF Arrive
<1>3. CASE \E r \in Request : Step(r) \/ Abort(r)
  BY <1>1, <1>3 DEF Steps, Ends
<1>4. CASE \E r \in Request :
             \/ \E dto \in Dto : Create(r, dto) \/ \E t \in Token : Update(r, t, dto)
             \/ \E t \in Token : Regenerate(r, t) \/ Remove(r, t)
  BY <1>2, <1>4 DEF Create, Update, Regenerate, Remove
<1>5. CASE (\E e \in Environment : RemoveEnvironment(e)) \/ UNCHANGED vars
  BY <1>5 DEF RemoveEnvironment, vars
<1> QED  BY <1>3, <1>4, <1>5 DEF Next

(***************************************************************************)
(* Removals.                                                               *)
(***************************************************************************)
\* Tokens with a record of their removal.
Recorded == {req[r].token : r \in {q \in recorded : req[q].kind = "remove"}}

\* A handler holds keys of rows that were there, and deletes what is on record.
HoldsKeys(r) ==
    /\ pc[r] # "idle" /\ req[r].kind \in {"update", "remove"} => req[r].token \in born
    /\ pc[r] \in {"save", "reload", "audit", "done"} => req[r].token \in born
    /\ pc[r] = "delete" => req[r].token \in Recorded
    /\ r \in recorded => pc[r] \notin {"idle", "insert"}

KeysInv == Existing \subseteq born /\ \A r \in Request : HoldsKeys(r)

\* A record stays, and with it what its request asked for.
LEMMA RecordsStay ==
    ASSUME IInv, KeysInv, [Next]_vars
    PROVE  Recorded \subseteq Recorded'
<1>1. \A r \in recorded : r \in Request /\ pc[r] \notin {"idle", "insert"}
  BY DEF KeysInv, HoldsKeys, IInv, TypeOK
<1> QED
  BY <1>1, OnlyAddsUp DEF Recorded

\* remove records what it read before it deletes, or else found the row gone,
\* which was then recorded before.
LEMMA StepKeys ==
    IInv /\ KeysInv /\ RemovalsAreRecorded /\ [Next]_vars
        => KeysInv' /\ RemovalsAreRecorded'
<1> SUFFICES ASSUME IInv, KeysInv, RemovalsAreRecorded, [Next]_vars
             PROVE  KeysInv' /\ RemovalsAreRecorded'
  OBVIOUS
<1>0. /\ TypeOK /\ \A r \in Request : Holds(r) /\ HoldsKeys(r)
      /\ born \ Existing \subseteq Recorded
      /\ Recorded \subseteq Recorded'
      /\ Existing \subseteq born
  BY RecordsStay DEF IInv, KeysInv, RemovalsAreRecorded, Recorded
<1> SUFFICES /\ Existing' \subseteq born'
             /\ \A r \in Request : HoldsKeys(r)'
             /\ born' \ Existing' \subseteq Recorded'
  BY DEF KeysInv, RemovalsAreRecorded, Recorded
<1> USE DEF TypeOK, Existing, tables, local, history
<1>a. ASSUME UNCHANGED <<token, born, recorded>>,
             \A r \in Request : HoldsKeys(r)'
      PROVE  /\ Existing' \subseteq born'
             /\ born' \ Existing' \subseteq Recorded'
  BY <1>0, <1>a
<1>b. ASSUME NEW r \in Request, pc[r] # "idle", Fail(r)
      PROVE  /\ \A q \in Request : HoldsKeys(q)'
             /\ UNCHANGED <<token, born, recorded>>
  BY <1>0, <1>b DEF Fail, HoldsKeys, Holds
<1>1. ASSUME NEW r \in Request, NEW kind \in Kinds, NEW t \in Token \cup {Null}, NEW dto \in Dto,
             NEW step \in {"load", "insert"}, Arrive(r, kind, t, dto, step),
             kind \in {"update", "remove"} => t \in Existing
      PROVE  /\ \A q \in Request : HoldsKeys(q)'
             /\ UNCHANGED <<token, born, recorded>>
  BY <1>0, <1>1 DEF Arrive, HoldsKeys
<1>2. ASSUME NEW r \in Request, Insert(r)
      PROVE  /\ Existing' \subseteq born'
             /\ \A q \in Request : HoldsKeys(q)'
             /\ born' \ Existing' \subseteq Recorded'
  <2>1. CASE Fail(r)
    BY <1>2, <1>a, <1>b, <2>1 DEF Insert
  <2>2. CASE ~ Fail(r)
    <3> DEFINE row == [secret |-> r, env |-> req[r].dto.env, active |-> req[r].dto.active]
    <3>1. PICK t \in Token \ born :
             /\ token' = [token EXCEPT ![t] = row]
             /\ born' = born \cup {t}
             /\ req' = [req EXCEPT ![r] = [kind |-> "create", token |-> t, dto |-> req[r].dto]]
             /\ pc' = [pc EXCEPT ![r] = "reload"]
             /\ UNCHANGED <<recorded, loaded>>
      BY <1>2, <2>2 DEF Insert
    <3>2. row # Null
      BY <1>0, <1>2, NullAssumption DEF Insert, Holds, Row, Dto, Secret
    <3>3. \A q \in Request : HoldsKeys(q)'
      BY <1>0, <1>2, <3>1 DEF HoldsKeys, Insert
    <3> QED  BY <1>0, <3>1, <3>2, <3>3
  <2> QED  BY <2>1, <2>2
<1>3. ASSUME NEW r \in Request, Load(r)
      PROVE  /\ \A q \in Request : HoldsKeys(q)'
             /\ UNCHANGED <<token, born, recorded>>
  <2>1. CASE Fail(r)
    BY <1>3, <1>b, <2>1 DEF Load
  <2>2. CASE ~ Fail(r)
    <3>1. UNCHANGED <<token, born, recorded, req>>
      BY <1>3, <2>2 DEF Load
    <3>2. ASSUME NEW q \in Request, q # r PROVE HoldsKeys(q)'
      BY <1>0, <1>3, <2>2, <3>1, <3>2 DEF Load, HoldsKeys
    <3>3. HoldsKeys(r)'
      BY <1>0, <1>3, <2>2, <3>1 DEF Load, HoldsKeys, Holds
    <3> QED  BY <3>1, <3>2, <3>3
  <2> QED  BY <2>1, <2>2
<1>4. ASSUME NEW r \in Request, Save(r)
      PROVE  /\ Existing' \subseteq born'
             /\ \A q \in Request : HoldsKeys(q)'
             /\ born' \ Existing' \subseteq Recorded'
  <2>1. CASE Fail(r)
    BY <1>4, <1>a, <1>b, <2>1 DEF Save
  <2>2. CASE ~ Fail(r)
    <3>1. req[r].token \in born /\ loaded[r] \in Row /\ req[r].dto \in Dto
      BY <1>0, <1>4 DEF Save, HoldsKeys, Holds
    <3>2. Changed(loaded[r], r) # Null
      BY <3>1, ChangedIsRow, NullAssumption
    <3>3. /\ token' = [token EXCEPT ![req[r].token] = Changed(loaded[r], r)]
          /\ pc' = [pc EXCEPT ![r] = "reload"]
          /\ UNCHANGED <<recorded, born, req, loaded>>
      BY <1>4, <2>2 DEF Save
    <3>4. \A q \in Request : HoldsKeys(q)'
      BY <1>0, <3>1, <3>3 DEF HoldsKeys
    <3> QED  BY <1>0, <3>1, <3>2, <3>3, <3>4
  <2> QED  BY <2>1, <2>2
<1>5. ASSUME NEW r \in Request, Reload(r)
      PROVE  /\ \A q \in Request : HoldsKeys(q)'
             /\ UNCHANGED <<token, born, recorded>>
  <2>1. CASE Fail(r)
    BY <1>5, <1>b, <2>1 DEF Reload
  <2>2. CASE ~ Fail(r)
    BY <1>0, <1>5, <2>2 DEF Reload, HoldsKeys
  <2> QED  BY <2>1, <2>2
<1>6. ASSUME NEW r \in Request, Audit(r)
      PROVE  /\ Existing' \subseteq born'
             /\ \A q \in Request : HoldsKeys(q)'
             /\ born' \ Existing' \subseteq Recorded'
  <2>1. ASSUME NEW q \in Request, q # r PROVE HoldsKeys(q)'
    BY <1>0, <1>6, <2>1 DEF Audit, HoldsKeys, Holds
  <2>2. HoldsKeys(r)'
    BY <1>0, <1>6 DEF Audit, HoldsKeys, Holds, Recorded
  <2> QED  BY <1>0, <1>6, <2>1, <2>2 DEF Audit
<1>7. ASSUME NEW r \in Request, Delete(r)
      PROVE  /\ Existing' \subseteq born'
             /\ \A q \in Request : HoldsKeys(q)'
             /\ born' \ Existing' \subseteq Recorded'
  <2>1. req[r].token \in Recorded
    BY <1>0, <1>7 DEF Delete, HoldsKeys
  <2>2. \A q \in Request : HoldsKeys(q)'
    BY <1>0, <1>7 DEF Delete, HoldsKeys, Holds
  <2> QED  BY <1>0, <1>7, <2>1, <2>2 DEF Delete
<1>8. ASSUME NEW e \in Environment, RemoveEnvironment(e)
      PROVE  /\ \A q \in Request : HoldsKeys(q)'
             /\ UNCHANGED <<token, born, recorded>>
  BY <1>0, <1>8 DEF RemoveEnvironment, HoldsKeys
<1>9. ASSUME UNCHANGED vars
      PROVE  /\ \A q \in Request : HoldsKeys(q)'
             /\ UNCHANGED <<token, born, recorded>>
  BY <1>0, <1>9 DEF vars, HoldsKeys
<1>10. ASSUME NEW r \in Request, NEW dto \in Dto, Create(r, dto)
       PROVE  /\ \A q \in Request : HoldsKeys(q)'
              /\ UNCHANGED <<token, born, recorded>>
  BY <1>1, <1>10 DEF Create, Kinds
<1>11. ASSUME NEW r \in Request, NEW t \in Token,
              (\E dto \in Dto : Update(r, t, dto)) \/ Regenerate(r, t) \/ Remove(r, t)
       PROVE  /\ \A q \in Request : HoldsKeys(q)'
              /\ UNCHANGED <<token, born, recorded>>
  <2>1. Blank \in Dto
    BY DEF Blank, Dto
  <2> QED
    BY <1>1, <1>11, <2>1 DEF Update, Regenerate, Remove, Kinds
<1> QED
  BY <1>a, <1>b, <1>2, <1>3, <1>4, <1>5, <1>6, <1>7, <1>8, <1>9, <1>10, <1>11
     DEF Next, Step, Abort, Steps

\* ApiTokensService.remove: a token that was there and is gone has the record of
\* its removal, however many requests overlap, fail or insert it again.
THEOREM GoneIsRecorded == Spec => []RemovalsAreRecorded
<1>1. Init => KeysInv /\ RemovalsAreRecorded
  BY DEF Init, KeysInv, HoldsKeys, RemovalsAreRecorded
<1> QED
  BY <1>1, StepKeys, TypeCorrect, PTL DEF Spec

(***************************************************************************)
(* What is stored, and what the guard makes of it.                         *)
(***************************************************************************)
\* A token is stored with every field as it was last named in a request, unless
\* a save was made over a row written since it was loaded.
StoredAsDecided == \A t \in Token \ dirty : token[t] = decided[t]

\* A save that is not stale does to the row what its request did to the decision:
\* what it loaded is what is there, and that is what was decided.
LEMMA StepStored ==
    IInv /\ StoredAsDecided /\ [Next]_vars => StoredAsDecided'
<1> SUFFICES ASSUME IInv, StoredAsDecided, [Next]_vars PROVE StoredAsDecided'
  OBVIOUS
<1>0. TypeOK /\ \A r \in Request : Holds(r)
  BY DEF IInv
<1> USE DEF TypeOK, StoredAsDecided, tables, local, history
<1>a. CASE UNCHANGED <<token, decided, dirty>>
  BY <1>a
<1>1. ASSUME NEW r \in Request, Insert(r) PROVE StoredAsDecided'
  BY <1>0, <1>1 DEF Insert, Fail
<1>2. ASSUME NEW r \in Request, Save(r) PROVE StoredAsDecided'
  <2>1. CASE Fail(r)
    BY <1>a, <2>1 DEF Fail
  <2>2. CASE ~ Fail(r)
    <3> DEFINE t == req[r].token
    <3>1. t \in Token /\ loaded[r] # Null
      BY <1>0, <1>2 DEF Save, Holds
    <3>2. /\ token' = [token EXCEPT ![t] = Changed(loaded[r], r)]
          /\ decided' = [decided EXCEPT ![t] = IF @ = Null THEN Null ELSE Changed(@, r)]
          /\ dirty' = dirty \cup {s \in {t} : token[t] # loaded[r]}
      BY <1>2, <2>2 DEF Save
    <3>3. t \notin dirty' => token[t] = loaded[r] /\ decided[t] = loaded[r]
      BY <1>0, <3>1, <3>2
    <3> QED  BY <1>0, <3>1, <3>2, <3>3
  <2> QED  BY <2>1, <2>2
<1>3. ASSUME NEW r \in Request, Delete(r) PROVE StoredAsDecided'
  BY <1>0, <1>3 DEF Delete
<1>4. ASSUME NEW r \in Request, Load(r) \/ Reload(r) \/ Audit(r) \/ Abort(r)
      PROVE  UNCHANGED <<token, decided, dirty>>
  BY <1>4 DEF Load, Reload, Audit, Abort, Fail
<1>5. ASSUME NEW r \in Request,
             \/ \E dto \in Dto : Create(r, dto) \/ \E t \in Token : Update(r, t, dto)
             \/ \E t \in Token : Regenerate(r, t) \/ Remove(r, t)
      PROVE  UNCHANGED <<token, decided, dirty>>
  BY <1>5 DEF Create, Update, Regenerate, Remove, Arrive
<1>6. ASSUME NEW e \in Environment, RemoveEnvironment(e) PROVE UNCHANGED <<token, decided, dirty>>
  BY <1>6 DEF RemoveEnvironment
<1>7. CASE UNCHANGED vars
  BY <1>7 DEF vars
<1> QED
  BY <1>a, <1>1, <1>2, <1>3, <1>4, <1>5, <1>6, <1>7 DEF Next, Step

\* create, update, regenerate and remove of ApiTokensService, however they
\* overlap and fail: the row of a token no stale save touched is as was decided.
THEOREM Stored == Spec => []StoredAsDecided
<1>1. Init => StoredAsDecided
  BY DEF Init, StoredAsDecided
<1> QED
  BY <1>1, StepStored, TypeCorrect, PTL DEF Spec

\* ApiTokenGuard: it opens for a secret in an environment exactly when the
\* requests that named the secret, the environment and the active state of its
\* token last say so, but for tokens that a stale save wrote over.
THEOREM GuardFollowsDecisions == Spec => []GuardAsDecided
<1>1. ASSUME TypeOK, StoredAsDecided PROVE GuardAsDecided
  <2>1. ASSUME NEW t \in Token \ dirty, decided[t] # Null, decided[t].active
        PROVE  CanActivate(decided[t].secret, decided[t].env)
    BY <1>1, <2>1 DEF StoredAsDecided, CanActivate, Existing
  <2>2. ASSUME NEW s \in Secret, NEW e \in Environment, CanActivate(s, e)
        PROVE  \/ \E t \in Token : decided[t] = [secret |-> s, env |-> e, active |-> TRUE]
               \/ \E t \in Existing \cap dirty : token[t].secret = s
    <3>1. PICK t \in Existing : token[t].secret = s /\ token[t].active /\ token[t].env = e
      BY <2>2 DEF CanActivate
    <3>2. token[t] \in Row
      BY <1>1, <3>1 DEF TypeOK, Existing
    <3>3. token[t] = [secret |-> s, env |-> e, active |-> TRUE]
      BY <3>1, <3>2 DEF Row
    <3> QED
      BY <1>1, <3>1, <3>3 DEF StoredAsDecided, Existing
  <2> QED  BY <2>1, <2>2 DEF GuardAsDecided
<1> QED
  BY <1>1, TypeCorrect, Stored, PTL DEF Spec

(***************************************************************************)
(* The secret that is shown.                                               *)
(***************************************************************************)
\* From its write on, the secret a create or regenerate has drawn is the one its
\* token has, unless a request withdrew it or a save was stale.
Keeps(r) ==
    pc[r] \in {"reload", "audit", "done"} /\ req[r].kind \in {"create", "regenerate"} =>
        \/ req[r].token \in dirty
        \/ r \in withdrawn
        \/ token[req[r].token] # Null /\ token[req[r].token].secret = r

SecretsKept == \A r \in Request : Keeps(r)

\* Whatever takes the secret of a token out of use withdraws it: what was decided
\* is what is stored.
LEMMA StepSecrets ==
    IInv /\ KeysInv /\ StoredAsDecided /\ SecretsKept /\ [Next]_vars => SecretsKept'
<1> SUFFICES ASSUME IInv, KeysInv, StoredAsDecided, SecretsKept, [Next]_vars PROVE SecretsKept'
  OBVIOUS
<1>0. TypeOK /\ \A r \in Request : Holds(r) /\ HoldsKeys(r) /\ Keeps(r)
  BY DEF IInv, KeysInv, SecretsKept
<1> SUFFICES \A q \in Request : Keeps(q)'
  BY DEF SecretsKept
<1> USE DEF TypeOK, tables, local, history
\* A step of r that leaves the tokens alone keeps it on its way.
<1>a. ASSUME NEW r \in Request, UNCHANGED <<token, dirty, withdrawn>>,
             \A q \in Request \ {r} : pc'[q] = pc[q] /\ req'[q] = req[q],
             pc'[r] \in {"audit", "done"} =>
               req'[r] = req[r] /\ (pc[r] \in {"reload", "audit"} \/ req[r].kind \in {"update", "remove"}),
             pc'[r] # "reload"
      PROVE  \A q \in Request : Keeps(q)'
  BY <1>0, <1>a DEF Keeps
<1>1. ASSUME NEW r \in Request, Insert(r) PROVE \A q \in Request : Keeps(q)'
  <2>1. CASE Fail(r)
    BY <1>0, <2>1 DEF Fail, Keeps
  <2>2. CASE ~ Fail(r)
    <3> DEFINE row == [secret |-> r, env |-> req[r].dto.env, active |-> req[r].dto.active]
    <3>1. PICK t \in Token \ born :
             /\ token' = [token EXCEPT ![t] = row]
             /\ req' = [req EXCEPT ![r] = [kind |-> "create", token |-> t, dto |-> req[r].dto]]
             /\ pc' = [pc EXCEPT ![r] = "reload"]
             /\ UNCHANGED <<withdrawn, dirty>>
      BY <1>1, <2>2 DEF Insert
    <3>2. row # Null
      BY <1>0, <1>1, NullAssumption DEF Insert, Holds, Row, Dto, Secret
    <3>3. Keeps(r)'
      BY <1>0, <3>1, <3>2 DEF Keeps
    <3>4. ASSUME NEW q \in Request, q # r PROVE Keeps(q)'
      BY <1>0, <3>1, <3>4 DEF Keeps, HoldsKeys
    <3> QED  BY <3>3, <3>4
  <2> QED  BY <2>1, <2>2
<1>2. ASSUME NEW r \in Request, Save(r) PROVE \A q \in Request : Keeps(q)'
  <2>1. CASE Fail(r)
    BY <1>0, <2>1 DEF Fail, Keeps
  <2>2. CASE ~ Fail(r)
    <3> DEFINE t == req[r].token
    <3>1. /\ t \in Token /\ loaded[r] \in Row /\ req[r].dto \in Dto
          /\ req[r].kind \in {"update", "regenerate"}
      BY <1>0, <1>2 DEF Save, Holds
    <3>2. /\ token' = [token EXCEPT ![t] = Changed(loaded[r], r)]
          /\ withdrawn' = withdrawn \cup Withdraws(r)
          /\ dirty' = dirty \cup {s \in {t} : token[t] # loaded[r]}
          /\ pc' = [pc EXCEPT ![r] = "reload"]
          /\ req' = req
      BY <1>2, <2>2 DEF Save
    <3>3. Changed(loaded[r], r) \in Row /\ Changed(loaded[r], r) # Null
      BY <3>1, ChangedIsRow, NullAssumption
    <3>4. Keeps(r)'
      BY <1>0, <3>1, <3>2, <3>3 DEF Keeps, Changed
    <3>5. ASSUME NEW q \in Request, q # r PROVE Keeps(q)'
      <4>1. CASE req[q].token # t \/ t \in dirty'
        BY <1>0, <3>1, <3>2, <3>5, <4>1 DEF Keeps
      <4>2. CASE req[q].token = t /\ t \notin dirty'
        <5>1. token[t] = loaded[r] /\ decided[t] = loaded[r] /\ loaded[r] # Null /\ t \notin dirty
          BY <3>1, <3>2, <4>2, NullAssumption DEF StoredAsDecided
        <5>2. req[r].kind = "update" => Changed(loaded[r], r).secret = token[t].secret
          BY <5>1 DEF Changed
        <5>3. req[r].kind = "regenerate" => token[t].secret \in withdrawn'
          BY <3>2, <5>1 DEF Withdraws
        <5> QED
          BY <1>0, <3>1, <3>2, <3>3, <3>5, <4>2, <5>1, <5>2, <5>3 DEF Keeps
      <4> QED  BY <4>1, <4>2
    <3> QED  BY <3>4, <3>5
  <2> QED  BY <2>1, <2>2
<1>3. ASSUME NEW r \in Request, Delete(r) PROVE \A q \in Request : Keeps(q)'
  <2> DEFINE t == req[r].token
  <2>1. /\ t \in Token /\ req[r].kind = "remove"
        /\ token' = [token EXCEPT ![t] = Null]
        /\ withdrawn' = withdrawn \cup Withdraws(r)
        /\ pc' = [pc EXCEPT ![r] = "done"]
        /\ req' = req /\ dirty' = dirty
    BY <1>0, <1>3 DEF Delete, Holds
  <2>2. t \notin dirty /\ token[t] # Null => token[t].secret \in withdrawn'
    BY <2>1 DEF StoredAsDecided, Withdraws
  <2> QED
    BY <1>0, <2>1, <2>2 DEF Keeps
<1>4. ASSUME NEW r \in Request, Load(r) \/ Reload(r) \/ Audit(r) \/ Abort(r)
      PROVE  \A q \in Request : Keeps(q)'
  <2>1. /\ UNCHANGED <<token, dirty, withdrawn, req>>
        /\ \A q \in Request \ {r} : pc'[q] = pc[q]
        /\ pc'[r] # "reload"
        /\ pc'[r] \in {"audit", "done"} => pc[r] \in {"reload", "audit"} \/ req[r].kind = "remove"
    BY <1>0, <1>4 DEF Load, Reload, Audit, Abort, Fail
  <2> QED  BY <1>a, <2>1
<1>5. ASSUME NEW r \in Request,
             \/ \E dto \in Dto : Create(r, dto) \/ \E t \in Token : Update(r, t, dto)
             \/ \E t \in Token : Regenerate(r, t) \/ Remove(r, t)
      PROVE  \A q \in Request : Keeps(q)'
  <2>1. /\ UNCHANGED <<token, dirty, withdrawn>>
        /\ \A q \in Request \ {r} : pc'[q] = pc[q] /\ req'[q] = req[q]
        /\ pc'[r] \in {"load", "insert"}
    BY <1>0, <1>5 DEF Create, Update, Regenerate, Remove, Arrive
  <2> QED  BY <1>a, <2>1
<1>6. ASSUME NEW e \in Environment, RemoveEnvironment(e) PROVE \A q \in Request : Keeps(q)'
  BY <1>0, <1>6 DEF RemoveEnvironment, Keeps
<1>7. CASE UNCHANGED vars
  BY <1>0, <1>7 DEF vars, Keeps
<1> QED
  BY <1>1, <1>2, <1>3, <1>4, <1>5, <1>6, <1>7 DEF Next, Step

\* README.md: "plain value shown once on create or regenerate".  The secret an
\* answered request showed is the one its token has, until a request replaces or
\* removes it, or a stale save undoes it.
THEOREM ShownSecretsWork == Spec => []ShownSecretIsStored
<1>1. Init => SecretsKept /\ KeysInv
  BY DEF Init, SecretsKept, Keeps, KeysInv, HoldsKeys
<1>2. SecretsKept => ShownSecretIsStored
  BY DEF SecretsKept, Keeps, ShownSecretIsStored
<1>3. Init => RemovalsAreRecorded
  BY DEF Init, RemovalsAreRecorded
<1> QED
  BY <1>1, <1>2, <1>3, StepKeys, StepSecrets, Stored, TypeCorrect, PTL DEF Spec
=============================================================================
