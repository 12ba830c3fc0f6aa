---------------------------- MODULE ScopesProofs ----------------------------
(***************************************************************************)
(* What is proved about projects and environments for every number of      *)
(* them, of codes and of requests, whatever foreign keys protect.          *)
(* ClientFlagsProofs carries it over to ClientFlags.                       *)
(***************************************************************************)
EXTENDS Scopes, TLAPS

(***************************************************************************)
(* Where a request can be, and what it holds by then.                      *)
(***************************************************************************)
Holds(r) ==
    /\ pc[r] # "idle" => req[r].kind \in Kinds /\ req[r].scope \in Scope
    /\ pc[r] = "insert" => /\ req[r].kind = "create"
                           /\ req[r].dto.code # Null /\ req[r].dto.active # Null
    /\ pc[r] = "load" => req[r].kind \in {"update", "remove"}
    /\ pc[r] = "save" => req[r].kind = "update" /\ loaded[r] # Null
    /\ pc[r] = "delete" => req[r].kind = "remove"
    /\ pc[r] = "idle" => r \notin recorded \cup altered \cup stale

ScopesInv == ScopesTypeOK /\ \A r \in Request : Holds(r)

\* Assigned: a row with some of its fields replaced is a row.
LEMMA AssignedIsRow ==
    ASSUME NEW row \in Row, NEW dto \in Dto
    PROVE  Assigned(row, dto) \in Row
BY DEF Assigned, Row, Dto

\* Arrival of a request: it keeps the types of all it writes.
LEMMA ArriveScopesInv ==
    ASSUME ScopesInv, NEW r \in Request, NEW kind \in Kinds, NEW x \in Scope, NEW dto \in Dto,
           NEW step \in {"load", "insert"}, Arrive(r, kind, x, dto, step),
           step = "insert" => kind = "create" /\ dto.code # Null /\ dto.active # Null,
           step = "load" => kind # "create"
    PROVE  ScopesInv'
<1>1. ScopesTypeOK'
  BY DEF ScopesInv, ScopesTypeOK, Arrive, Steps, Kinds
<1>2. \A q \in Request : Holds(q)'
  BY DEF ScopesInv, ScopesTypeOK, Arrive, Holds, Kinds
<1> QED  BY <1>1, <1>2 DEF ScopesInv

\* Every step of the two services, and stuttering, keeps the types, and every
\* handler on its way.
LEMMA StepScopesInv == ScopesInv /\ [ScopeNext]_scopeVars => ScopesInv'
<1> SUFFICES ASSUME ScopesInv, [ScopeNext]_scopeVars PROVE ScopesInv'
  OBVIOUS
<1>0. ScopesTypeOK /\ \A r \in Request : Holds(r)
  BY DEF ScopesInv
<1> USE DEF local
<1>1. ASSUME NEW r \in Request, NEW x \in Scope, NEW dto \in Bodies, Create(r, x, dto)
      PROVE  ScopesInv'
  BY <1>1, ArriveScopesInv, BodiesAssumption DEF Create, Kinds
<1>2. ASSUME NEW r \in Request, NEW x \in Scope,
             \/ \E dto \in Bodies : Arrive(r, "update", x, dto, "load")
             \/ Arrive(r, "remove", x, Blank, "load")
      PROVE  ScopesInv'
  <2>1. Blank \in Dto
    BY DEF Blank, Dto
  <2> QED
    BY <1>2, <2>1, ArriveScopesInv, BodiesAssumption DEF Kinds
<1>a. ASSUME NEW r \in Request, pc[r] # "idle", Fail(r) PROVE ScopesInv'
  <2>1. ScopesTypeOK'
    BY <1>0, <1>a DEF Fail, ScopesTypeOK, Ends
  <2>2. \A q \in Request : Holds(q)'
    BY <1>0, <1>a DEF Fail, ScopesTypeOK, Holds
  <2> QED  BY <2>1, <2>2 DEF ScopesInv
<1>3. ASSUME NEW r \in Request, Insert(r) PROVE ScopesInv'
  <2>1. CASE Fail(r)
    BY <1>3, <1>a, <2>1 DEF Insert
  <2>2. CASE ~ Fail(r)
    <3> DEFINE row == [code |-> req[r].dto.code, active |-> req[r].dto.active]
    <3>1. row \in Row /\ req[r].scope \in Scope
      BY <1>0, <1>3 DEF Insert, ScopesTypeOK, Holds, Row, Dto
    <3>2. ScopesTypeOK'
      BY <1>0, <1>3, <2>2, <3>1 DEF Insert, ScopesTypeOK, Steps
    <3>3. \A q \in Request : Holds(q)'
      BY <1>0, <1>3, <2>2 DEF Insert, ScopesTypeOK, Holds
    <3> QED  BY <3>2, <3>3 DEF ScopesInv
  <2> QED  BY <2>1, <2>2
<1>4. ASSUME NEW r \in Request, Load(r) PROVE ScopesInv'
  <2>1. CASE Fail(r)
    BY <1>4, <1>a, <2>1 DEF Load
  <2>2. CASE ~ Fail(r)
    <3>1. ScopesTypeOK'
      BY <1>0, <1>4, <2>2 DEF Load, AfterLoad, ScopesTypeOK, Holds, Steps
    <3>2. \A q \in Request : Holds(q)'
      BY <1>0, <1>4, <2>2 DEF Load, AfterLoad, ScopesTypeOK, Holds
    <3> QED  BY <3>1, <3>2 DEF ScopesInv
  <2> QED  BY <2>1, <2>2
<1>5. ASSUME NEW r \in Request, Save(r) PROVE ScopesInv'
  <2>1. CASE Fail(r)
    BY <1>5, <1>a, <2>1 DEF Save
  <2>2. CASE ~ Fail(r)
    <3>1. req[r].scope \in Scope /\ loaded[r] \in Row /\ req[r].dto \in Dto
      BY <1>0, <1>5 DEF Save, ScopesTypeOK, Holds
    <3>2. /\ Copy(r) \in Row
          /\ \A row \in Row : Assigned(row, req[r].dto) \in Row
      BY <3>1, AssignedIsRow DEF Copy
    <3>3. ScopesTypeOK'
      <4>1. stale' \subseteq Request /\ altered' \subseteq Request
        BY <1>0, <1>5, <2>2 DEF Save, ScopesTypeOK
      <4>2. /\ scope' \in [Scope -> Row \cup {Null}]
            /\ decided' \in [Scope -> Row \cup {Null}]
        BY <1>0, <1>5, <2>2, <3>1, <3>2 DEF Save, ScopesTypeOK
      <4> QED
        BY <1>0, <1>5, <2>2, <4>1, <4>2 DEF Save, AfterSave, ScopesTypeOK, Steps, Ends
    <3>4. \A q \in Request : Holds(q)'
      BY <1>0, <1>5, <2>2 DEF Save, AfterSave, ScopesTypeOK, Holds
    <3> QED  BY <3>3, <3>4 DEF ScopesInv
  <2> QED  BY <2>1, <2>2
<1>6. ASSUME NEW r \in Request, Audit(r) PROVE ScopesInv'
  <2>1. ScopesTypeOK'
    BY <1>0, <1>6 DEF Audit, ScopesTypeOK, Steps, Ends
  <2>2. \A q \in Request : Holds(q)'
    BY <1>0, <1>6 DEF Audit, ScopesTypeOK, Holds
  <2> QED  BY <2>1, <2>2 DEF ScopesInv
<1>7. ASSUME NEW r \in Request, NEW referred \in SUBSET Scope, Delete(r, referred)
      PROVE  ScopesInv'
  <2>1. CASE Fail(r)
    BY <1>7, <1>a, <2>1 DEF Delete
  <2>2. CASE ~ Fail(r)
    <3>1. ScopesTypeOK'
      BY <1>0, <1>7, <2>2 DEF Delete, ScopesTypeOK, Ends
    <3>2. \A q \in Request : Holds(q)'
      BY <1>0, <1>7, <2>2 DEF Delete, ScopesTypeOK, Holds
    <3> QED  BY <3>1, <3>2 DEF ScopesInv
  <2> QED  BY <2>1, <2>2
<1>8. CASE UNCHANGED scopeVars
  BY <1>0, <1>8 DEF scopeVars, ScopesInv, ScopesTypeOK, Holds
<1> QED
  BY <1>1, <1>2, <1>a, <1>3, <1>4, <1>5, <1>6, <1>7, <1>8
     DEF ScopeNext, ScopeStep, Abort, Steps

\* ScopesTypeOK: the tables, and every request's program counter and local
\* variables, stay in their types.
THEOREM ScopesTypeCorrect == ScopeSpec => []ScopesInv
<1>1. InitScopes => ScopesInv
  <2> SUFFICES ASSUME InitScopes PROVE ScopesInv
    OBVIOUS
  <2>1. ScopesTypeOK
    BY DEF InitScopes, ScopesTypeOK, Existing, Blank, Dto
  <2>2. \A r \in Request : Holds(r)
    BY DEF InitScopes, Holds
  <2> QED  BY <2>1, <2>2 DEF ScopesInv
<1> QED
  BY <1>1, StepScopesInv, PTL DEF ScopeSpec

(***************************************************************************)
(* What a step may do to the tables and their history.                     *)
(***************************************************************************)
\* A write: one row is set, nothing is set, or nothing is touched at all.
Inserts(r) ==
    /\ pc[r] = "insert" /\ pc'[r] = "audit"
    /\ CodeFree(req[r].dto.code, req[r].scope)
    /\ scope' = [scope EXCEPT ![req[r].scope] =
                   [code |-> req[r].dto.code, active |-> req[r].dto.active]]
    /\ decided' = [decided EXCEPT ![req[r].scope] =
                     [code |-> req[r].dto.code, active |-> req[r].dto.active]]
    /\ born' = born \cup {req[r].scope}
    /\ UNCHANGED <<recorded, stale, altered>>

Saves(r) ==
    /\ pc[r] = "save" /\ pc'[r] = AfterSave(r, Copy(r))
    /\ CodeFree(Copy(r).code, req[r].scope)
    /\ scope' = [scope EXCEPT ![req[r].scope] = Copy(r)]
    /\ decided' = [decided EXCEPT ![req[r].scope] =
                     IF @ = Null THEN Null ELSE Assigned(@, req[r].dto)]
    /\ stale' = stale \cup {q \in {r} : scope[req[r].scope] # loaded[r]}
    /\ altered' = altered \cup {q \in {r} : scope[req[r].scope] # Copy(r)}
    /\ UNCHANGED <<born, recorded>>

Deletes(r) ==
    /\ pc[r] = "delete" /\ pc'[r] = "done"
    /\ scope' = [scope EXCEPT ![req[r].scope] = Null]
    /\ decided' = [decided EXCEPT ![req[r].scope] = Null]
    /\ UNCHANGED <<born, recorded, stale, altered>>

Records(r) ==
    /\ pc[r] = "audit"
    /\ pc'[r] = IF req[r].kind = "remove" THEN "delete" ELSE "done"
    /\ recorded' = recorded \cup {r}
    /\ UNCHANGED <<scope, decided, stale, born, altered>>

\* The other steps only read.
Reads(r) ==
    /\ \/ pc[r] # "idle" /\ pc'[r] = "failed"
       \/ pc[r] = "idle" /\ req'[r].scope \in Existing /\ pc'[r] = "load"
       \/ pc[r] = "idle" /\ req'[r].kind = "create" /\ pc'[r] = "insert"
       \/ pc[r] = "load" /\ pc'[r] = AfterLoad(r)
    /\ UNCHANGED <<scope, decided, stale, born, recorded, altered>>

\* A step is one of one request, which has asked for good once it has arrived.
LEMMA EachStep ==
    ASSUME ScopesInv, ScopeNext
    PROVE  \E r \in Request :
             /\ \A q \in Request \ {r} : pc'[q] = pc[q] /\ req'[q] = req[q]
                                       /\ loaded'[q] = loaded[q]
             /\ pc[r] # "idle" => req' = req
             /\ pc[r] \notin {"idle", "load"} => loaded' = loaded
             /\ Inserts(r) \/ Saves(r) \/ Deletes(r) \/ Records(r) \/ Reads(r)
<1> USE DEF ScopesInv, ScopesTypeOK, local, Fail
<1>1. PICK r \in Request, referred \in SUBSET Scope : ScopeStep(r, referred)
  BY DEF ScopeNext
<1>2. CASE (\E x \in Scope, dto \in Bodies :
              Create(r, x, dto) \/ Arrive(r, "update", x, dto, "load"))
           \/ \E x \in Scope : Arrive(r, "remove", x, Blank, "load")
  BY <1>2 DEF Create, Arrive, Reads
<1>3. CASE Insert(r)
  BY <1>3 DEF Insert, Inserts, Reads
<1>4. CASE Load(r)
  BY <1>4 DEF Load, Reads
<1>5. CASE Save(r)
  BY <1>5 DEF Save, Saves, Reads, AfterSave
<1>6. CASE Audit(r)
  BY <1>6 DEF Audit, Records
<1>7. CASE Delete(r, referred) \/ Abort(r)
  BY <1>7 DEF Delete, Abort, Steps, Deletes, Reads
<1> QED
  BY <1>1, <1>2, <1>3, <1>4, <1>5, <1>6, <1>7 DEF ScopeStep

(***************************************************************************)
(* A row is as it was decided.                                             *)
(***************************************************************************)
\* update: only a save over a row that was written since it was loaded can undo
\* what another request had stored, and nothing else that the handlers do can.
THEOREM ScopesAsDecided == ScopeSpec => []OnlyStaleSavesUndo
<1>1. InitScopes => OnlyStaleSavesUndo
  BY DEF InitScopes, OnlyStaleSavesUndo
<1>2. ScopesInv /\ OnlyStaleSavesUndo /\ [ScopeNext]_scopeVars => OnlyStaleSavesUndo'
  <2> SUFFICES ASSUME ScopesInv, OnlyStaleSavesUndo, ScopeNext PROVE OnlyStaleSavesUndo'
    BY DEF OnlyStaleSavesUndo, Dirty, scopeVars
  <2> USE DEF OnlyStaleSavesUndo
  <2>0. ScopesTypeOK /\ \A r \in Request : Holds(r)
    BY DEF ScopesInv
  <2>1. PICK r \in Request :
          /\ \A q \in Request \ {r} : pc'[q] = pc[q] /\ req'[q] = req[q]
          /\ pc[r] # "idle" => req' = req
          /\ Inserts(r) \/ Saves(r) \/ Deletes(r) \/ Records(r) \/ Reads(r)
    BY EachStep
  <2>a. Dirty \subseteq Dirty'
    <3>1. stale \subseteq stale'
      BY <2>1 DEF Inserts, Saves, Deletes, Records, Reads
    <3>2. \A q \in stale : q \in Request /\ req'[q] = req[q]
      BY <2>0, <2>1 DEF Holds, ScopesTypeOK
    <3> QED  BY <3>1, <3>2 DEF Dirty
  <2>2. CASE Inserts(r) \/ Deletes(r)
    BY <2>0, <2>2, <2>a DEF Inserts, Deletes, ScopesTypeOK
  <2>3. CASE Saves(r)
    <3> SUFFICES ASSUME NEW x \in Scope \ Dirty' PROVE scope'[x] = decided'[x]
      OBVIOUS
    <3>1. x \notin Dirty /\ scope[x] = decided[x]
      BY <2>a
    <3>2. CASE x = req[r].scope
      <4>1. scope[x] = loaded[r] /\ loaded[r] # Null
        <5>1. r \notin stale' /\ loaded[r] # Null
          BY <2>0, <2>1, <2>3, <3>2 DEF Saves, Holds, Dirty
        <5> QED  BY <2>3, <3>2, <5>1 DEF Saves
      <4>2. decided'[x] = Assigned(loaded[r], req[r].dto) /\ scope'[x] = Copy(r)
        BY <2>0, <2>3, <3>1, <3>2, <4>1 DEF Saves, ScopesTypeOK
      <4> QED  BY <4>2 DEF Copy
    <3>3. CASE x # req[r].scope
      BY <2>0, <2>3, <3>1, <3>3 DEF Saves, ScopesTypeOK
    <3> QED  BY <3>2, <3>3
  <2>4. CASE Records(r) \/ Reads(r)
    BY <2>4, <2>a DEF Records, Reads
  <2> QED  BY <2>1, <2>2, <2>3, <2>4
<1> QED
  BY <1>1, <1>2, ScopesTypeCorrect, PTL DEF ScopeSpec

(***************************************************************************)
(* A change is recorded.                                                   *)
(***************************************************************************)
\* Where a request is that has changed a row: past its save, on its way to the
\* record unless the record would compare equal.
Altered(r) ==
    /\ req[r].kind = "update"
    /\ pc[r] \in {"audit", "done", "failed"}
    /\ pc[r] = "done" => \/ r \in recorded
                         \/ r \in stale /\ Assigned(loaded[r], req[r].dto) = loaded[r]

\* update and logUpdateIf: an acknowledged save that changed a row is recorded,
\* unless the row had been written since it was loaded and the body names nothing
\* new to what was loaded.
THEOREM ScopeChangesRecorded == ScopeSpec => []ChangesAreRecorded
<1> DEFINE AlteredInv == \A r \in altered : Altered(r)
<1>1. InitScopes => AlteredInv
  BY DEF InitScopes
<1>2. ScopesInv /\ AlteredInv /\ [ScopeNext]_scopeVars => AlteredInv'
  <2>1. CASE UNCHANGED scopeVars
    BY <2>1 DEF scopeVars, Altered
  <2>2. ASSUME ScopesInv, AlteredInv, ScopeNext PROVE AlteredInv'
    <3>0. ScopesTypeOK /\ \A r \in Request : Holds(r)
      BY <2>2 DEF ScopesInv
    <3>1. PICK r \in Request :
            /\ \A q \in Request \ {r} : pc'[q] = pc[q] /\ req'[q] = req[q]
                                      /\ loaded'[q] = loaded[q]
            /\ pc[r] # "idle" => req' = req
            /\ pc[r] \notin {"idle", "load"} => loaded' = loaded
            /\ Inserts(r) \/ Saves(r) \/ Deletes(r) \/ Records(r) \/ Reads(r)
      BY <2>2, EachStep
    <3>2. \A q \in altered' \ {r} : Altered(q)'
      <4>1. \A q \in altered' \ {r} : q \in altered /\ q \in Request
        BY <3>0, <3>1 DEF Inserts, Saves, Deletes, Records, Reads, ScopesTypeOK
      <4>2. recorded \subseteq recorded' /\ stale \subseteq stale'
        BY <3>1 DEF Inserts, Saves, Deletes, Records, Reads
      <4> QED  BY <2>2, <3>1, <4>1, <4>2 DEF Altered
    <3>3. ASSUME r \in altered' PROVE Altered(r)'
      <4>1. CASE Saves(r)
        <5>1. req' = req /\ req[r].kind = "update"
          BY <3>0, <3>1, <4>1 DEF Saves, Holds
        <5>2. r \notin altered
          BY <2>2, <4>1 DEF Saves, Altered
        <5>3. scope[req[r].scope] # Copy(r)
          BY <3>3, <4>1, <5>2 DEF Saves
        <5>4. pc'[r] = "done" => r \in stale' /\ Copy(r) = loaded[r]
          BY <4>1, <5>3 DEF Saves, AfterSave
        <5>5. loaded' = loaded
          BY <3>1, <4>1 DEF Saves
        <5> QED  BY <4>1, <5>1, <5>4, <5>5 DEF Saves, AfterSave, Altered, Copy
      <4>2. CASE ~ Saves(r)
        <5>1. r \in altered /\ Altered(r) /\ pc[r] \notin {"idle", "load"} /\ req' = req
          BY <2>2, <3>1, <3>3, <4>2 DEF Inserts, Deletes, Records, Reads, Altered
        <5>2. Records(r) \/ pc'[r] = "failed"
          BY <3>1, <4>2, <5>1 DEF Inserts, Deletes, Reads, Altered
        <5> QED  BY <5>1, <5>2 DEF Records, Altered
      <4> QED  BY <4>1, <4>2
    <3> QED  BY <3>2, <3>3
  <2> QED  BY <2>1, <2>2
<1>3. AlteredInv => ChangesAreRecorded
  BY DEF Altered, ChangesAreRecorded
<1> QED
  BY <1>1, <1>2, <1>3, ScopesTypeCorrect, PTL DEF ScopeSpec

(***************************************************************************)
(* What is gone has a record.                                              *)
(***************************************************************************)
\* The rows whose removal is on record.
Recorded == {req[r].scope : r \in {q \in recorded : req[q].kind = "remove"}}

\* What a request may touch: a row that was there once; and, when it comes to
\* delete, one whose removal it has recorded, or that it did not find.
HoldsKeys(r) ==
    /\ pc[r] # "idle" /\ req[r].kind # "create" => req[r].scope \in born
    /\ pc[r] = "delete" => req[r].scope \in Recorded

KeysInv ==
    /\ Existing \subseteq born
    /\ born \ Existing \subseteq Recorded
    /\ \A r \in Request : HoldsKeys(r)

\* A record stays: nothing changes the request it is of.
LEMMA RecordsStay ==
    ASSUME ScopesInv, NEW r \in Request,
           \A q \in Request \ {r} : req'[q] = req[q],
           pc[r] # "idle" => req' = req,
           recorded \subseteq recorded'
    PROVE  Recorded \subseteq Recorded'
<1>1. \A q \in recorded : q \in Request /\ pc[q] # "idle"
  BY DEF ScopesInv, ScopesTypeOK, Holds
<1>2. \A q \in recorded : req'[q] = req[q]
  BY <1>1
<1> QED  BY <1>2 DEF Recorded

\* Every step keeps them; the one that matters is a remove that found no row: by
\* then another one has recorded.
LEMMA StepKeys == ScopesInv /\ KeysInv /\ [ScopeNext]_scopeVars => KeysInv'
<1>1. ASSUME KeysInv, UNCHANGED scopeVars PROVE KeysInv'
  BY <1>1 DEF scopeVars, KeysInv, HoldsKeys, Existing, Recorded
<1>2. ASSUME ScopesInv, KeysInv, ScopeNext PROVE KeysInv'
  <2>0. ScopesTypeOK /\ \A r \in Request : Holds(r)
    BY <1>2 DEF ScopesInv
  <2>1. PICK r \in Request :
          /\ \A q \in Request \ {r} : pc'[q] = pc[q] /\ req'[q] = req[q]
          /\ pc[r] # "idle" => req' = req
          /\ Inserts(r) \/ Saves(r) \/ Deletes(r) \/ Records(r) \/ Reads(r)
    BY <1>2, EachStep
  <2>2. recorded \subseteq recorded' /\ born \subseteq born'
    BY <2>1 DEF Inserts, Saves, Deletes, Records, Reads
  <2>3. Recorded \subseteq Recorded'
    BY <1>2, <2>1, <2>2, RecordsStay
  <2>4. /\ Existing' \subseteq born'
        /\ born' \ Existing' \subseteq Recorded'
    <3>1. CASE Inserts(r)
      <4>1. Existing' = Existing \cup {req[r].scope}
        BY <2>0, <3>1, NullAssumption DEF Inserts, Existing, ScopesTypeOK, Holds, Row, Dto
      <4> QED  BY <1>2, <2>3, <3>1, <4>1 DEF Inserts, KeysInv
    <3>2. CASE Saves(r)
      <4>1. Copy(r) # Null /\ req[r].scope \in born
        <5>1. loaded[r] \in Row /\ req[r].dto \in Dto
          BY <2>0, <3>2 DEF Saves, Holds, ScopesTypeOK
        <5>2. Copy(r) \in Row
          BY <5>1, AssignedIsRow DEF Copy
        <5> QED  BY <1>2, <2>0, <3>2, <5>2, NullAssumption DEF Saves, Holds, KeysInv, HoldsKeys
      <4>2. Existing \subseteq Existing' /\ Existing' \subseteq Existing \cup {req[r].scope}
        BY <2>0, <3>2, <4>1 DEF Saves, Existing, ScopesTypeOK
      <4> QED  BY <1>2, <2>3, <3>2, <4>1, <4>2 DEF Saves, KeysInv
    <3>3. CASE Deletes(r)
      <4>1. req[r].scope \in Recorded
        BY <1>2, <3>3 DEF Deletes, KeysInv, HoldsKeys
      <4>2. Existing' = Existing \ {req[r].scope}
        BY <2>0, <3>3 DEF Deletes, Existing, ScopesTypeOK
      <4> QED  BY <1>2, <2>3, <3>3, <4>1, <4>2 DEF Deletes, KeysInv
    <3>4. CASE Records(r) \/ Reads(r)
      BY <1>2, <2>3, <3>4 DEF Records, Reads, KeysInv, Existing
    <3> QED  BY <2>1, <3>1, <3>2, <3>3, <3>4
  <2>5. \A q \in Request \ {r} : HoldsKeys(q)'
    BY <1>2, <2>1, <2>2, <2>3 DEF KeysInv, HoldsKeys
  <2>6. HoldsKeys(r)'
    <3>1. CASE Records(r)
      <4>1. pc'[r] = "delete" => req[r].scope \in Recorded'
        BY <2>1, <3>1 DEF Records, Recorded
      <4> QED  BY <1>2, <2>1, <2>2, <3>1, <4>1 DEF Records, KeysInv, HoldsKeys
    <3>2. CASE Reads(r)
      <4>1. CASE pc[r] = "idle" /\ pc'[r] # "failed"
        BY <1>2, <2>2, <3>2, <4>1 DEF Reads, KeysInv, HoldsKeys, AfterLoad
      <4>2. CASE pc[r] = "load" /\ pc'[r] = AfterLoad(r)
        <5>1. req' = req /\ req[r].scope \in born /\ req[r].scope \in Scope
          BY <1>2, <2>0, <2>1, <4>2 DEF KeysInv, HoldsKeys, Holds
        <5>2. pc'[r] = "delete" => req[r].scope \in Recorded
          BY <1>2, <4>2, <5>1 DEF AfterLoad, KeysInv, Existing
        <5> QED  BY <2>2, <2>3, <5>1, <5>2 DEF HoldsKeys
      <4>3. CASE pc[r] # "idle" /\ pc'[r] = "failed"
        BY <1>2, <2>1, <2>2, <3>2, <4>3 DEF KeysInv, HoldsKeys
      <4> QED  BY <3>2, <4>1, <4>2, <4>3 DEF Reads
    <3>3. CASE Inserts(r) \/ Saves(r) \/ Deletes(r)
      BY <1>2, <2>1, <2>2, <3>3 DEF Inserts, Saves, Deletes, AfterSave, KeysInv, HoldsKeys
    <3> QED  BY <2>1, <3>1, <3>2, <3>3
  <2> QED  BY <2>4, <2>5, <2>6 DEF KeysInv
<1> QED  BY <1>1, <1>2

\* remove and logDeleteIf: whatever was removed, once or twice, over whichever
\* update that inserts it again, has a record of a removal.
THEOREM ScopeRemovalsRecorded == ScopeSpec => []ScopeRemovalsAreRecorded
<1>1. InitScopes => KeysInv
  BY DEF InitScopes, KeysInv, HoldsKeys, Existing
<1>2. ScopesInv /\ KeysInv => ScopeRemovalsAreRecorded
  BY DEF KeysInv, Recorded, ScopeRemovalsAreRecorded
<1> QED
  BY <1>1, <1>2, StepKeys, ScopesTypeCorrect, PTL DEF ScopeSpec

(***************************************************************************)
(* The constraint on code, which ClientFlagsProofs relies on.              *)
(***************************************************************************)
UniqueCodes == \A x \in Existing : CodeFree(scope[x].code, x)

\* create and update: two rows of one table never bear one code, although
\* UniqueValidator checks it long before the statement that writes.
THEOREM CodesAreUnique == ScopeSpec => []UniqueCodes
<1>1. InitScopes => UniqueCodes
  BY DEF InitScopes, UniqueCodes
<1>2. ScopesInv /\ UniqueCodes /\ [ScopeNext]_scopeVars => UniqueCodes'
  <2>1. ASSUME UniqueCodes, UNCHANGED scopeVars PROVE UniqueCodes'
    BY <2>1 DEF scopeVars, UniqueCodes, CodeFree, Existing, Table
  <2>2. ASSUME ScopesInv, UniqueCodes, ScopeNext PROVE UniqueCodes'
    <3>0. ScopesTypeOK /\ \A r \in Request : Holds(r)
      BY <2>2 DEF ScopesInv
    <3>1. PICK r \in Request : Inserts(r) \/ Saves(r) \/ Deletes(r) \/ Records(r) \/ Reads(r)
      BY <2>2, EachStep
    <3> DEFINE z == req[r].scope
    <3>2. ASSUME NEW row, CodeFree(row.code, z), scope' = [scope EXCEPT ![z] = row],
                 z \in Scope
          PROVE  UniqueCodes'
      <4> SUFFICES ASSUME NEW x \in Existing', NEW y \in (Table(x) \cap Existing') \ {x}
                   PROVE  scope'[y].code # scope'[x].code
        BY DEF UniqueCodes, CodeFree, Table
      <4>1. /\ x \in Scope /\ y \in Scope
            /\ \A w \in Scope : scope'[w] = IF w = z THEN row ELSE scope[w]
            /\ \A w \in Existing' \ {z} : w \in Existing
        BY <3>0, <3>2 DEF Existing, Table, ScopesTypeOK
      <4>2. x \in Table(y)
        BY <4>1, ScopeAssumption DEF Table, Scope
      <4>3. CASE x # z /\ y # z
        BY <2>2, <4>1, <4>3 DEF UniqueCodes, CodeFree
      <4>4. CASE x = z
        BY <3>2, <4>1, <4>4 DEF CodeFree
      <4>5. CASE y = z
        BY <3>2, <4>1, <4>2, <4>5 DEF CodeFree
      <4> QED  BY <4>3, <4>4, <4>5
    <3>3. CASE Inserts(r)
      <4> DEFINE row == [code |-> req[r].dto.code, active |-> req[r].dto.active]
      <4>1. CodeFree(row.code, z) /\ scope' = [scope EXCEPT ![z] = row] /\ z \in Scope
        BY <3>0, <3>3 DEF Inserts, Holds
      <4> QED  BY <3>2, <4>1
    <3>4. CASE Saves(r)
      BY <3>0, <3>2, <3>4 DEF Saves, Holds
    <3>5. CASE Deletes(r)
      <4>1. /\ \A x \in Existing' : x \in Existing /\ scope'[x] = scope[x]
            /\ Existing' \subseteq Existing
        BY <3>0, <3>5 DEF Deletes, Existing, ScopesTypeOK
      <4> QED  BY <2>2, <4>1 DEF UniqueCodes, CodeFree, Table
    <3>6. CASE Records(r) \/ Reads(r)
      BY <2>2, <3>6 DEF Records, Reads, UniqueCodes, CodeFree, Existing, Table
    <3> QED  BY <3>1, <3>3, <3>4, <3>5, <3>6
  <2> QED  BY <2>1, <2>2
<1> QED
  BY <1>1, <1>2, ScopesTypeCorrect, PTL DEF ScopeSpec
=============================================================================
