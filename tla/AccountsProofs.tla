--------------------------- MODULE AccountsProofs ---------------------------
(***************************************************************************)
(* What is proved about users and groups, for every number of users,       *)
(* groups, roles and requests, and for every set of bodies.                *)
(***************************************************************************)
EXTENDS Accounts, TLAPS

Creates == {"createUser", "createGroup"}
Removes == {"removeUser", "removeGroup"}
Updates == {"updateUser", "updateGroup", "changePassword"}

(***************************************************************************)
(* Types.  The table holds users under the keys of users and groups under  *)
(* those of groups, and every user's group is there: the foreign key that  *)
(* the label of a user relies on.                                          *)
(***************************************************************************)
Sorted(x, value) ==
    /\ x \in User => value \in UserRow
    /\ x \in Group => value \in GroupRow

RowsOK ==
    /\ \A x \in Entity : row[x] # Null => Sorted(x, row[x])
    /\ \A x \in Entity : decided[x] # Null => Sorted(x, decided[x])
    /\ \A u \in User : row[u] # Null => row[row[u].group] # Null

\* What a request asks, once it has arrived.
Asks(r) ==
    /\ req[r].kind \in Kinds
    /\ req[r].kind \in {"updateUser", "removeUser", "changePassword"} => req[r].target \in User
    /\ req[r].kind \in {"updateGroup", "removeGroup"} => req[r].target \in Group
    /\ req[r].kind = "createUser" => /\ req[r].target \in User \cup {Null}
                                     /\ req[r].body.status # Null /\ req[r].body.group # Null
    /\ req[r].kind = "createGroup" => /\ req[r].target \in Group \cup {Null}
                                      /\ req[r].body.name # Null /\ req[r].body.roles # Null
    /\ req[r].kind \in {"createUser", "updateUser", "changePassword"} => req[r].body \in UserBody
    /\ req[r].kind \in {"createGroup", "updateGroup"} => req[r].body \in GroupBody
    /\ req[r].kind = "changePassword" =>
         req[r].body = [password |-> TRUE, status |-> Null, group |-> Null]

\* Where it can be, and what it has loaded by then.
Holds(r) ==
    /\ pc[r] # "idle" => Asks(r)
    /\ pc[r] = "pipes" => req[r].kind # "changePassword"
    /\ pc[r] \in {"pipes", "insert"} /\ req[r].kind \in Creates => req[r].target = Null
    /\ pc[r] = "insert" => req[r].kind \in Creates
    /\ pc[r] = "load" => req[r].kind \notin Creates
    /\ pc[r] = "save" => /\ req[r].kind \in Updates
                         /\ req[r].kind # "updateGroup" =>
                              loaded[r] # Null /\ loaded[r].row \in UserRow
    /\ pc[r] = "reload" => req[r].kind \in {"updateUser", "updateGroup"} /\ loaded[r] # Null
    /\ pc[r] = "delete" => req[r].kind \in Removes
    /\ r \in audited => pc[r] \in {"delete", "done", "failed"}

IInv == TypeOK /\ RowsOK /\ \A r \in Request : Holds(r)

\* A body of a user is none of a group.
LEMMA BodiesDiffer ==
    ASSUME NEW b \in GroupBody
    PROVE  b \notin UserBody
BY DEF GroupBody, UserBody

\* Users and groups have keys of their own.
LEMMA KeysDiffer == \A x \in Entity : x \in Group <=> x \notin User
BY KeysAssumption DEF Entity

\* Assigned: a row with some of its fields replaced is a row of its kind.
LEMMA AssignedIsSorted ==
    ASSUME NEW r \in Request, NEW x \in Entity, NEW old, Sorted(x, old),
           x \in User => req[r].body \in UserBody,
           x \in Group => req[r].body \in GroupBody
    PROVE  Sorted(x, Assigned(old, r))
<1>1. CASE x \in User
  BY <1>1, KeysDiffer DEF Sorted, Assigned, Chosen, UserRow, UserBody
<1>2. CASE x \in Group
  <2>1. req[r].body \notin UserBody
    BY <1>2, BodiesDiffer
  <2> QED  BY <1>2, <2>1, KeysDiffer DEF Sorted, Assigned, Chosen, GroupRow, GroupBody
<1> QED  BY <1>1, <1>2 DEF Entity

\* View: what a query returns for a row that is there.
LEMMA ViewOK ==
    ASSUME TypeOK, RowsOK, NEW x \in Entity
    PROVE  /\ View(row, x) \in Viewed \cup {Null}
           /\ row[x] # Null => View(row, x).row = row[x]
           /\ row[x] = Null <=> View(row, x) = Null
<1>1. CASE row[x] = Null
  BY <1>1 DEF View
<1>2. CASE row[x] # Null
  <2>1. row[x] \in Row
    BY <1>2 DEF TypeOK
  <2>2. x \in User => row[row[x].group].name \in Name
    <3>1. x \in User => row[x].group \in Group /\ row[row[x].group] # Null
      BY <1>2 DEF RowsOK, Sorted, UserRow
    <3> QED  BY <3>1 DEF RowsOK, Sorted, GroupRow, Entity
  <2> DEFINE label == IF x \in User THEN row[row[x].group].name ELSE Null
  <2>3. View(row, x) = [row |-> row[x], label |-> label]
    BY <1>2 DEF View
  <2>4. [row |-> row[x], label |-> label] \in Viewed
    BY <2>1, <2>2 DEF Viewed
  <2> QED  BY <1>2, <2>3, <2>4, NullAssumption
<1> QED  BY <1>1, <1>2

\* What one request holds is not another's to change.
LEMMA OthersHold ==
    ASSUME NEW r \in Request, \A q \in Request : Holds(q),
           \A q \in Request \ {r} : pc'[q] = pc[q] /\ req'[q] = req[q] /\ loaded'[q] = loaded[q],
           audited' \subseteq audited \cup {r}, Holds(r)'
    PROVE  \A q \in Request : Holds(q)'
<1> SUFFICES ASSUME NEW q \in Request \ {r} PROVE Holds(q)'
  OBVIOUS
<1>1. Asks(q) => Asks(q)'
  BY DEF Asks
<1> QED  BY <1>1 DEF Holds

\* A request that arrives is well formed; one that a guard rejects, too.
LEMMA ArriveInv ==
    ASSUME IInv, NEW r \in Request, NEW kind \in Kinds, NEW u \in User,
           NEW x \in Entity \cup {Null}, NEW body \in Body \cup {Null},
           kind \in {"updateUser", "removeUser", "changePassword"} => x \in User,
           kind \in {"updateGroup", "removeGroup"} => x \in Group,
           kind \in Creates => x = Null,
           kind = "createUser" => body.status # Null /\ body.group # Null,
           kind = "createGroup" => body.name # Null /\ body.roles # Null,
           kind \in {"createUser", "updateUser", "changePassword"} => body \in UserBody,
           kind \in {"createGroup", "updateGroup"} => body \in GroupBody,
           kind = "changePassword" =>
             body = [password |-> TRUE, status |-> Null, group |-> Null],
           Arrive(r, kind, u, x, body)
    PROVE  IInv'
<1> USE DEF local, tables, history
<1>0. TypeOK /\ RowsOK /\ \A q \in Request : Holds(q)
  BY DEF IInv
<1>1. req'[r] = [kind |-> kind, actor |-> u, target |-> x, body |-> body]
  BY <1>0 DEF Arrive, TypeOK
<1>2. TypeOK'
  <2>1. Standing(u, kind) \in {"unknown", "refused", "admitted"}
    BY DEF Standing
  <2>2. InFlight \subseteq Request
    BY DEF InFlight
  <2>3. /\ req' \in [Request -> [kind : Kinds \cup {"none"}, actor : User \cup {Null},
                                 target : Entity \cup {Null}, body : Body \cup {Null}]]
        /\ pc' \in [Request -> {"idle"} \cup Steps \cup Ends]
    BY <1>0 DEF Arrive, TypeOK, Steps, Ends
  <2>4. /\ start' \in [Request -> {"none", "unknown", "refused", "admitted"}]
        /\ met' \in [Request -> SUBSET Request]
    BY <1>0, <2>1, <2>2 DEF Arrive, TypeOK
  <2> QED  BY <1>0, <2>3, <2>4 DEF Arrive, TypeOK
<1>3. RowsOK'
  BY <1>0 DEF Arrive, RowsOK
<1>4. Holds(r)'
  <2>1. Asks(r)'
    BY <1>1 DEF Asks, Creates
  <2>2. /\ pc'[r] \in {"rejected", "load", "pipes"}
        /\ pc'[r] = "load" => kind = "changePassword"
        /\ pc'[r] = "pipes" => kind # "changePassword"
        /\ r \notin audited
    BY <1>0 DEF Arrive, TypeOK, Holds
  <2> QED  BY <1>1, <2>1, <2>2 DEF Holds, Arrive, Creates
<1>5. \A q \in Request : Holds(q)'
  BY <1>0, <1>4, OthersHold DEF Arrive, TypeOK
<1> QED  BY <1>2, <1>3, <1>5 DEF IInv

\* Fail, at any await.
LEMMA FailInv ==
    ASSUME IInv, NEW r \in Request, pc[r] # "idle", Fail(r)
    PROVE  IInv'
<1> USE DEF local, tables, history
<1>0. TypeOK /\ RowsOK /\ \A q \in Request : Holds(q)
  BY DEF IInv
<1>1. TypeOK' /\ RowsOK'
  BY <1>0 DEF Fail, TypeOK, RowsOK, Ends
<1>2. Holds(r)'
  BY <1>0 DEF Fail, TypeOK, Holds, Asks
<1>3. \A q \in Request : Holds(q)'
  BY <1>0, <1>2, OthersHold DEF Fail, TypeOK
<1> QED  BY <1>1, <1>3 DEF IInv

\* What all three ways to save come to: a row of its kind is stored, with a group
\* that is there; unless the row was not what had been loaded, it is the row of
\* before with what the body names in its place.
Stores(r, copy, next) ==
    LET x == req[r].target IN
    /\ pc[r] = "save" /\ next \in {"reload", "done"}
    /\ Sorted(x, copy) /\ (x \in User => row[copy.group] # Null)
    /\ next = "reload" <=> req[r].kind # "changePassword" /\ loaded[r] # Null
    /\ row' = [row EXCEPT ![x] = copy]
    /\ decided' = [decided EXCEPT ![x] = IF @ = Null THEN Null ELSE Assigned(@, r)]
    /\ dirty \subseteq dirty' /\ dirty' \subseteq dirty \cup {x}
    /\ x \notin dirty' => row[x] # Null /\ copy = Assigned(row[x], r)
    /\ altered' = altered \cup {q \in {r} : row[x] # Null /\ Noticeable(View(row, x), View(row', x), x)}
    /\ pc' = [pc EXCEPT ![r] = next]
    /\ UNCHANGED <<signedIn, audited, born, local>>

\* Such a statement keeps the types.
LEMMA StoreInv ==
    ASSUME IInv, NEW r \in Request, NEW copy, NEW next, Stores(r, copy, next)
    PROVE  IInv'
<1> DEFINE x == req[r].target
<1> USE DEF local, tables, history
<1>0. TypeOK /\ RowsOK /\ \A q \in Request : Holds(q)
  BY DEF IInv
<1>1. /\ Asks(r) /\ req[r].kind \in Updates /\ x \in Entity
      /\ x \in User => req[r].body \in UserBody
      /\ x \in Group => req[r].body \in GroupBody
  BY <1>0, KeysAssumption DEF Stores, Holds, Asks, Updates, Entity
<1>2. copy \in Row /\ copy # Null
  BY <1>1, NullAssumption DEF Stores, Sorted, Entity, Row
<1>3. decided[x] # Null => Sorted(x, Assigned(decided[x], r)) /\ Assigned(decided[x], r) \in Row
  BY <1>0, <1>1, AssignedIsSorted DEF RowsOK, Sorted, Entity, Row
<1>4. TypeOK'
  <2>1. row' \in [Entity -> Row \cup {Null}] /\ decided' \in [Entity -> Row \cup {Null}]
    BY <1>0, <1>1, <1>2, <1>3 DEF Stores, TypeOK
  <2>2. dirty' \subseteq Entity /\ altered' \subseteq Request
    BY <1>0, <1>1 DEF Stores, TypeOK
  <2> QED  BY <1>0, <2>1, <2>2 DEF Stores, TypeOK, Steps, Ends
<1>5. RowsOK'
  <2>1. \A y \in Entity : row'[y] = IF y = x THEN copy ELSE row[y]
    BY <1>0 DEF Stores, TypeOK
  <2>2. \A y \in Entity : /\ row'[y] # Null => Sorted(y, row'[y])
                          /\ row[y] # Null => row'[y] # Null
    BY <1>0, <1>2, <2>1 DEF Stores, RowsOK
  <2>3. \A y \in Entity : decided'[y] # Null => Sorted(y, decided'[y])
    BY <1>0, <1>3 DEF RowsOK, Stores, TypeOK
  <2>4. ASSUME NEW u \in User, row'[u] # Null PROVE row'[row'[u].group] # Null
    <3>1. row'[u].group \in Group /\ u \in Entity
      BY <2>2, <2>4 DEF Sorted, UserRow, Entity
    <3>2. row[row'[u].group] # Null
      BY <1>0, <2>1, <2>4, <3>1 DEF Stores, RowsOK
    <3> QED  BY <2>2, <3>1, <3>2 DEF Entity
  <2> QED  BY <2>2, <2>3, <2>4 DEF RowsOK
<1>6. Holds(r)'
  <2>1. Asks(r)'
    BY <1>1 DEF Stores, Asks
  <2> QED  BY <1>0, <1>1, <2>1 DEF Stores, Holds, TypeOK, Updates
<1>7. \A q \in Request : Holds(q)'
  BY <1>0, <1>6, OthersHold DEF Stores, TypeOK
<1> QED  BY <1>4, <1>5, <1>7 DEF IInv

\* NewRow: a body that has been validated makes a row of its kind.
LEMMA NewRowIsRow ==
    ASSUME NEW r \in Request, Asks(r), req[r].kind \in Creates
    PROVE  /\ NewRow(r) \in Row /\ NewRow(r) # Null
           /\ req[r].kind = "createUser" => NewRow(r) \in UserRow
           /\ req[r].kind = "createGroup" => NewRow(r) \in GroupRow
<1>1. CASE req[r].kind = "createUser"
  BY <1>1, NullAssumption DEF Asks, NewRow, UserBody, UserRow, Row
<1>2. CASE req[r].kind = "createGroup"
  <2>1. req[r].body \in GroupBody /\ req[r].body \notin UserBody
    BY <1>2, BodiesDiffer DEF Asks
  <2> QED
    BY <1>2, <2>1, NullAssumption DEF Asks, NewRow, GroupBody, GroupRow, Row
<1> QED  BY <1>1, <1>2 DEF Creates

\* create: the row is of the kind of its key, and its group is there.
LEMMA InsertInv ==
    ASSUME IInv, NEW r \in Request, Insert(r)
    PROVE  IInv'
<1> USE DEF local, tables, history
<1>0. TypeOK /\ RowsOK /\ (\A q \in Request : Holds(q)) /\ Asks(r) /\ req[r].kind \in Creates
  BY DEF IInv, Holds, Insert
<1>1. CASE Fail(r)
  BY <1>1, FailInv DEF Insert
<1>2. CASE ~ Fail(r)
  <2>1. PICK x \in KeysFor(req[r].kind) :
          /\ row' = [row EXCEPT ![x] = NewRow(r)]
          /\ decided' = [decided EXCEPT ![x] = NewRow(r)]
          /\ born' = born \cup {x}
          /\ req' = [req EXCEPT ![r] = [kind |-> @.kind, actor |-> @.actor,
                                        target |-> x, body |-> @.body]]
          /\ pc' = [pc EXCEPT ![r] = "audit"]
          /\ UNCHANGED <<signedIn, audited, loaded, start, met, dirty, altered>>
    BY <1>2 DEF Insert
  <2>2. /\ x \in Entity
        /\ req[r].kind = "createUser" => x \in User
        /\ req[r].kind = "createGroup" => x \in Group
    BY <1>0 DEF KeysFor, Entity, Creates
  <2>3. Sorted(x, NewRow(r)) /\ NewRow(r) \in Row
    BY <1>0, <2>2, NewRowIsRow, KeysDiffer DEF Insert, Sorted, Row, Creates
  <2>4. TypeOK'
    <3>1. req' \in [Request -> [kind : Kinds \cup {"none"}, actor : User \cup {Null},
                                target : Entity \cup {Null}, body : Body \cup {Null}]]
      BY <1>0, <2>1, <2>2 DEF TypeOK
    <3> QED  BY <1>0, <2>1, <2>2, <2>3, <3>1 DEF TypeOK, Steps
  <2>5. RowsOK'
    <3>1. NewRow(r) # Null
      BY <2>3, NullAssumption
    <3>2. \A y \in Entity : /\ row'[y] = IF y = x THEN NewRow(r) ELSE row[y]
                            /\ decided'[y] = IF y = x THEN NewRow(r) ELSE decided[y]
      BY <1>0, <2>1 DEF TypeOK
    <3>3. x \in User => row[NewRow(r).group] # Null /\ NewRow(r).group \in Group
      <4> SUFFICES ASSUME x \in User PROVE row[NewRow(r).group] # Null /\ NewRow(r).group \in Group
        OBVIOUS
      <4>1. req[r].kind = "createUser" /\ req[r].body \in UserBody
        BY <1>0, <2>2, KeysAssumption DEF Asks, Creates
      <4>2. NewRow(r).group = req[r].body.group
        BY <4>1 DEF NewRow
      <4> QED  BY <1>2, <2>3, <4>1, <4>2 DEF Insert, Sorted, UserRow
    <3>4. ASSUME NEW u \in User, row'[u] # Null PROVE row'[row'[u].group] # Null
      <4>1. CASE u = x
        BY <3>1, <3>2, <3>3, <4>1 DEF Entity
      <4>2. CASE u # x
        <5>1. row'[u] = row[u] /\ row[u].group \in Group /\ row[row[u].group] # Null
          BY <1>0, <3>2, <3>4, <4>2 DEF RowsOK, Sorted, UserRow, Entity
        <5> QED  BY <3>1, <3>2, <5>1 DEF Entity
      <4> QED  BY <4>1, <4>2
    <3> QED  BY <1>0, <2>3, <3>2, <3>4 DEF RowsOK
  <2>6. Holds(r)'
    <3>1. req'[r] = [kind |-> req[r].kind, actor |-> req[r].actor, target |-> x,
                     body |-> req[r].body]
      BY <1>0, <2>1 DEF TypeOK
    <3>2. Asks(r)'
      BY <1>0, <2>2, <3>1 DEF Asks, Creates
    <3>3. r \notin audited
      BY <1>0 DEF Holds, Insert
    <3> QED  BY <1>0, <2>1, <3>2, <3>3 DEF Holds, TypeOK
  <2>7. \A q \in Request : Holds(q)'
    BY <1>0, <2>1, <2>6, OthersHold DEF TypeOK
  <2> QED  BY <2>4, <2>5, <2>7 DEF IInv
<1> QED  BY <1>1, <1>2

\* The three ways to save, each of which stores, or fails.
LEMMA EachSaves ==
    ASSUME IInv, NEW r \in Request, SaveUser(r) \/ SavePassword(r) \/ SaveGroup(r), ~ Fail(r)
    PROVE  \E copy, next : Stores(r, copy, next)
<1>0. /\ TypeOK /\ RowsOK /\ Holds(r) /\ Asks(r) /\ req[r].kind \in Updates
      /\ pc[r] = "save"
  BY DEF IInv, Holds, SaveUser, SavePassword, SaveGroup
<1>1. CASE SaveUser(r)
  <2> DEFINE copy == Assigned(loaded[r].row, r)
  <2>1. req[r].target \in User /\ req[r].body \in UserBody /\ loaded[r].row \in UserRow
        /\ loaded[r] # Null /\ req[r].target \in Entity /\ req[r].kind # "changePassword"
    BY <1>0, <1>1 DEF SaveUser, Holds, Asks, Entity
  <2>2. Sorted(req[r].target, copy)
    BY <2>1, KeysDiffer, AssignedIsSorted DEF Sorted
  <2>3. loaded[r].row # Null
    BY <2>1, NullAssumption DEF Row
  <2>4. Stores(r, copy, "reload")
    BY <1>0, <1>1, <2>1, <2>2, <2>3 DEF SaveUser, Store, Stores
  <2> QED  BY <2>4
<1>2. CASE SavePassword(r)
  <2> DEFINE x == req[r].target
             copy == [password |-> r, status |-> loaded[r].row.status, group |-> row[x].group]
  <2>1. x \in User /\ x \in Entity /\ loaded[r].row \in UserRow /\ row[x] \in UserRow
        /\ row[row[x].group] # Null /\ row[x] # Null
    BY <1>0, <1>2 DEF SavePassword, Holds, Asks, RowsOK, Sorted, Entity
  <2>2. Sorted(x, copy)
    BY <2>1, KeysDiffer DEF Sorted, UserRow
  <2>3. loaded[r].row.status = row[x].status => copy = Assigned(row[x], r)
    <3>1. req[r].body = [password |-> TRUE, status |-> Null, group |-> Null]
          /\ req[r].body \in UserBody
      BY <1>0, <1>2 DEF SavePassword, Asks
    <3> QED  BY <3>1 DEF Assigned, Chosen
  <2>4. Stores(r, copy, "done")
    BY <1>0, <1>2, <2>1, <2>2, <2>3 DEF SavePassword, Store, Stores
  <2> QED  BY <2>4
<1>3. CASE SaveGroup(r)
  <2> DEFINE x == req[r].target
             b == req[r].body
             copy == IF row[x] # Null THEN Assigned(row[x], r)
                     ELSE [name |-> b.name, roles |-> Chosen(b.roles, {})]
             next == IF loaded[r] = Null THEN "done" ELSE "reload"
  <2>1. x \in Group /\ x \in Entity /\ x \notin User /\ b \in GroupBody
    BY <1>0, <1>3, KeysAssumption DEF SaveGroup, Asks, Entity
  <2>2. Sorted(x, copy)
    <3>1. CASE row[x] # Null
      BY <1>0, <2>1, <3>1, AssignedIsSorted DEF RowsOK
    <3>2. CASE row[x] = Null
      BY <1>3, <2>1, <3>2 DEF SaveGroup, Sorted, GroupRow, GroupBody, Chosen
    <3> QED  BY <3>1, <3>2
  <2>3. Store(r, x, copy, row[x] = Null, next) /\ req[r].kind = "updateGroup"
    BY <1>3 DEF SaveGroup
  <2>4. Stores(r, copy, next)
    BY <1>0, <2>1, <2>2, <2>3 DEF Store, Stores
  <2> QED  BY <2>4
<1> QED  BY <1>1, <1>2, <1>3

\* Every step keeps the types, the kinds of rows and the groups of users.
LEMMA StepInv == IInv /\ [Next]_vars => IInv'
<1> SUFFICES ASSUME IInv, [Next]_vars PROVE IInv'
  OBVIOUS
<1> USE DEF local, tables, history
<1>0. TypeOK /\ RowsOK /\ \A r \in Request : Holds(r)
  BY DEF IInv
<1>1. ASSUME NEW r \in Request, NEW u \in User, NEW body \in Bodies, Create(r, u, body)
      PROVE  IInv'
  <2>1. body \in Body
    BY BodiesAssumption
  <2>2. CASE body \in UserBody
    <3>1. Arrive(r, "createUser", u, Null, body) /\ body.status # Null /\ body.group # Null
      BY <1>1, <2>2 DEF Create
    <3> QED  BY <2>1, <2>2, <3>1, ArriveInv DEF Kinds, UserKinds, Creates
  <2>3. CASE body \notin UserBody
    <3>1. Arrive(r, "createGroup", u, Null, body) /\ body.name # Null /\ body.roles # Null
      BY <1>1, <2>3 DEF Create
    <3>2. body \in GroupBody
      BY <2>1, <2>3 DEF Body
    <3> QED  BY <2>1, <3>1, <3>2, ArriveInv DEF Kinds, GroupKinds, Creates
  <2> QED  BY <2>2, <2>3
<1>2. ASSUME NEW r \in Request, NEW u \in User, NEW x \in born, NEW body \in Bodies,
             Update(r, u, x, body)
      PROVE  IInv'
  <2>1. body \in Body /\ x \in Entity
    BY <1>0, BodiesAssumption DEF TypeOK
  <2>2. CASE x \in User
    BY <1>2, <2>1, <2>2, ArriveInv DEF Update, Kinds, UserKinds, Creates
  <2>3. CASE x \notin User
    BY <1>2, <2>1, <2>3, ArriveInv DEF Update, Kinds, GroupKinds, Creates, Entity, Body
  <2> QED  BY <2>2, <2>3
<1>3. ASSUME NEW r \in Request, NEW u \in User, NEW x \in born, Remove(r, u, x)
      PROVE  IInv'
  <2>1. x \in Entity
    BY <1>0 DEF TypeOK
  <2>2. CASE x \in User
    BY <1>3, <2>1, <2>2, ArriveInv DEF Remove, Kinds, UserKinds, Creates
  <2>3. CASE x \notin User
    BY <1>3, <2>1, <2>3, ArriveInv DEF Remove, Kinds, GroupKinds, Creates, Entity
  <2> QED  BY <2>2, <2>3
<1>4. ASSUME NEW r \in Request, NEW u \in User, ChangePassword(r, u) PROVE IInv'
  <2> DEFINE body == [password |-> TRUE, status |-> Null, group |-> Null]
  <2>1. body \in UserBody /\ body \in Body /\ u \in Entity
    BY DEF UserBody, Body, Entity
  <2>2. Arrive(r, "changePassword", u, u, body)
    BY <1>4 DEF ChangePassword
  <2> QED  BY <2>1, <2>2, ArriveInv DEF Kinds, Creates
<1>5. ASSUME NEW r \in Request, Pipes(r) PROVE IInv'
  <2>1. TypeOK' /\ RowsOK'
    BY <1>0, <1>5 DEF Pipes, TypeOK, RowsOK, Steps, Ends
  <2>2. Holds(r)'
    <3>1. req[r].target = Null <=> req[r].kind \in Creates
      BY <1>0, <1>5, NullAssumption
         DEF Pipes, Holds, Asks, Kinds, UserKinds, GroupKinds, Creates, Entity
    <3> QED  BY <1>0, <1>5, <3>1 DEF Pipes, TypeOK, Holds, Asks
  <2>3. \A q \in Request : Holds(q)'
    BY <1>0, <1>5, <2>2, OthersHold DEF Pipes, TypeOK
  <2> QED  BY <2>1, <2>3 DEF IInv
<1>6. ASSUME NEW r \in Request, Load(r) PROVE IInv'
  <2>1. CASE Fail(r)
    BY <1>6, <2>1, FailInv DEF Load
  <2>2. CASE ~ Fail(r)
    <3>0. Asks(r) /\ req[r].kind \in Kinds \ Creates /\ req[r].target \in Entity
      BY <1>0, <1>6 DEF Load, Holds, Asks, Kinds, UserKinds, GroupKinds, Creates, Entity
    <3>1. /\ View(row, req[r].target) \in Viewed \cup {Null}
          /\ row[req[r].target] # Null => View(row, req[r].target).row = row[req[r].target]
          /\ row[req[r].target] = Null <=> View(row, req[r].target) = Null
      BY <1>0, <3>0, ViewOK
    <3>2. TypeOK' /\ RowsOK'
      BY <1>0, <1>6, <2>2, <3>1 DEF Load, TypeOK, RowsOK, Steps
    <3>3. Holds(r)'
      <4>1. Asks(r)'
        BY <2>2, <1>6, <3>0 DEF Load, Asks
      <4>2. pc'[r] = "save" => req[r].kind \in Updates
        BY <1>0, <1>6, <2>2, <3>0
           DEF Load, TypeOK, Updates, Kinds, UserKinds, GroupKinds, Creates
      <4>3. pc'[r] = "save" /\ req[r].kind # "updateGroup" =>
              loaded'[r] # Null /\ loaded'[r].row \in UserRow
        BY <1>0, <1>6, <2>2, <3>0, <3>1, <4>2, KeysDiffer
           DEF Load, TypeOK, Updates, Asks, RowsOK, Sorted
      <4>4. pc'[r] \in {"save", "delete", "audit"} /\ req' = req /\ audited' = audited
            /\ (pc'[r] = "delete" => req[r].kind \in Removes)
        BY <1>0, <1>6, <2>2 DEF Load, TypeOK, Removes
      <4> QED  BY <1>0, <1>6, <4>1, <4>2, <4>3, <4>4 DEF Holds, Load
    <3>4. \A q \in Request : Holds(q)'
      BY <1>0, <1>6, <2>2, <3>3, OthersHold DEF Load, TypeOK
    <3> QED  BY <3>2, <3>4 DEF IInv
  <2> QED  BY <2>1, <2>2
<1>7. ASSUME NEW r \in Request, Reload(r) PROVE IInv'
  <2>1. PICK next \in {"audit", "done"} : pc' = [pc EXCEPT ![r] = next]
    BY <1>7 DEF Reload, AfterReload
  <2>2. TypeOK' /\ RowsOK'
    BY <1>0, <1>7, <2>1 DEF Reload, TypeOK, RowsOK, Steps, Ends
  <2>3. Holds(r)'
    BY <1>0, <1>7, <2>1 DEF Reload, TypeOK, Holds, Asks
  <2>4. \A q \in Request : Holds(q)'
    BY <1>0, <1>7, <2>1, <2>3, OthersHold DEF Reload, TypeOK
  <2> QED  BY <2>2, <2>4 DEF IInv
<1>8. ASSUME NEW r \in Request, Audit(r) PROVE IInv'
  <2>1. TypeOK' /\ RowsOK'
    BY <1>0, <1>8 DEF Audit, TypeOK, RowsOK, Steps, Ends
  <2>2. Holds(r)'
    BY <1>0, <1>8 DEF Audit, TypeOK, Holds, Asks, Removes
  <2>3. \A q \in Request : Holds(q)'
    BY <1>0, <1>8, <2>2, OthersHold DEF Audit, TypeOK
  <2> QED  BY <2>1, <2>3 DEF IInv
<1>9. ASSUME NEW r \in Request, Delete(r) PROVE IInv'
  <2>1. CASE Fail(r)
    BY <1>9, <2>1, FailInv DEF Delete
  <2>2. CASE ~ Fail(r)
    <3> DEFINE x == req[r].target
    <3>1. TypeOK'
      BY <1>0, <1>9, <2>2 DEF Delete, TypeOK, Ends
    <3>2. RowsOK'
      <4>1. \A y \in Entity : /\ row'[y] = IF y = x THEN Null ELSE row[y]
                              /\ decided'[y] = IF y = x THEN Null ELSE decided[y]
        BY <1>0, <1>9, <2>2 DEF Delete, TypeOK
      <4>2. ASSUME NEW u \in User, row'[u] # Null PROVE row'[row'[u].group] # Null
        <5>1. row'[u] = row[u] /\ row[u].group \in Entity /\ row[row[u].group] # Null
          BY <1>0, <4>1, <4>2 DEF RowsOK, Sorted, UserRow, Entity
        <5>2. row[u].group # x
          BY <1>9, <2>2, <4>1, <4>2 DEF Delete, Members, Existing, Entity
        <5> QED  BY <4>1, <5>1, <5>2
      <4> QED  BY <1>0, <4>1, <4>2 DEF RowsOK
    <3>3. Holds(r)'
      BY <1>0, <1>9, <2>2 DEF Delete, TypeOK, Holds, Asks
    <3>4. \A q \in Request : Holds(q)'
      BY <1>0, <1>9, <2>2, <3>3, OthersHold DEF Delete, TypeOK
    <3> QED  BY <3>1, <3>2, <3>4 DEF IInv
  <2> QED  BY <2>1, <2>2
<1>10. ASSUME NEW u \in User, SignIn(u) PROVE IInv'
  BY <1>0, <1>10 DEF SignIn, IInv, TypeOK, RowsOK, Holds, Asks
<1>11. CASE UNCHANGED vars
  BY <1>0, <1>11 DEF vars, IInv, TypeOK, RowsOK, Holds, Asks
<1>12. ASSUME NEW r \in Request, Abort(r) PROVE IInv'
  BY <1>12, FailInv DEF Abort, Steps
<1>13. ASSUME NEW r \in Request, SaveUser(r) \/ SavePassword(r) \/ SaveGroup(r)
       PROVE  IInv'
  <2>1. CASE Fail(r)
    BY <1>13, <2>1, FailInv DEF SaveUser, SavePassword, SaveGroup
  <2>2. CASE ~ Fail(r)
    BY <1>13, <2>2, EachSaves, StoreInv
  <2> QED  BY <2>1, <2>2
<1> QED
  BY <1>1, <1>2, <1>3, <1>4, <1>5, InsertInv, <1>6, <1>7, <1>8, <1>9, <1>10,
     <1>11, <1>12, <1>13 DEF Next, Step

\* TypeOK: the table, and every request's program counter and local variables,
\* stay in their types; and a user's group is there as long as the user is.
THEOREM TypeCorrect == Spec => []IInv /\ []TypeOK
<1>1. Init => IInv
  <2> SUFFICES ASSUME Init PROVE IInv
    OBVIOUS
  <2>1. PICK groups \in [Group -> GroupRow \cup {Null}] :
          \E users \in [User -> {u \in UserRow : u.password = Null /\ groups[u.group] # Null}
                                 \cup {Null}] :
            row = [x \in Entity |-> IF x \in User THEN users[x] ELSE groups[x]]
    BY DEF Init
  <2>2. PICK users \in [User -> {u \in UserRow : u.password = Null /\ groups[u.group] # Null}
                                 \cup {Null}] :
          row = [x \in Entity |-> IF x \in User THEN users[x] ELSE groups[x]]
    BY <2>1
  <2>3. /\ \A u \in User : row[u] \in UserRow \cup {Null}
        /\ \A g \in Group : row[g] \in GroupRow \cup {Null} /\ row[g] = groups[g]
    BY <2>2, KeysDiffer DEF Entity
  <2>4. row \in [Entity -> Row \cup {Null}]
    BY <2>2, <2>3 DEF Row, Entity
  <2>5. RowsOK
    <3>1. \A x \in Entity : row[x] # Null => Sorted(x, row[x])
      BY <2>3, KeysDiffer DEF Sorted, Entity
    <3>2. ASSUME NEW u \in User, row[u] # Null PROVE row[row[u].group] # Null
      <4>1. row[u] = users[u] /\ users[u] \in UserRow /\ groups[users[u].group] # Null
        BY <2>2, <3>2 DEF Entity
      <4>2. users[u].group \in Group
        BY <4>1 DEF UserRow
      <4> QED  BY <2>3, <4>1, <4>2
    <3> QED  BY <3>1, <3>2 DEF Init, RowsOK
  <2>6. TypeOK
    BY <2>4 DEF Init, TypeOK, Existing
  <2> QED  BY <2>5, <2>6 DEF Init, IInv, Holds
<1>2. IInv => TypeOK
  BY DEF IInv
<1> QED
  BY <1>1, <1>2, StepInv, PTL DEF Spec

(***************************************************************************)
(* What a step may do, apart from the types.                               *)
(***************************************************************************)
stored == <<row, decided, dirty, born, audited, altered>>

Arrives(r) ==
    /\ pc[r] = "idle" /\ pc'[r] \in {"rejected", "load", "pipes"}
    /\ req'[r].kind \in Creates => req'[r].target = Null
    /\ req'[r].kind \notin Creates => req'[r].target \in born \cup signedIn
    /\ met' = [q \in Request |-> IF q = r THEN InFlight
                                ELSE met[q] \cup {a \in {r} : q \in InFlight}]
    /\ UNCHANGED <<stored, signedIn, loaded>>

Inserts(r) ==
    /\ pc[r] = "insert" /\ pc'[r] = "audit"
    /\ req'[r].kind = req[r].kind
    /\ req'[r].target \in KeysFor(req[r].kind) /\ req'[r].target \in Entity \ born
    /\ row' = [row EXCEPT ![req'[r].target] = NewRow(r)]
    /\ decided' = [decided EXCEPT ![req'[r].target] = NewRow(r)]
    /\ born' = born \cup {req'[r].target}
    /\ UNCHANGED <<signedIn, dirty, audited, altered, loaded, met>>

Loads(r) ==
    /\ pc[r] = "load" /\ pc'[r] \in {"save", "audit", "delete"}
    /\ pc'[r] = "delete" => row[req[r].target] = Null
    /\ loaded' = [loaded EXCEPT ![r] = View(row, req[r].target)]
    /\ UNCHANGED <<stored, signedIn, req, met>>

Records(r) ==
    /\ pc[r] = "audit" /\ pc'[r] = IF req[r].kind \in Removes THEN "delete" ELSE "done"
    /\ audited' = audited \cup {r}
    /\ UNCHANGED <<row, decided, dirty, born, altered, signedIn, req, loaded, met>>

Deletes(r) ==
    /\ pc[r] = "delete" /\ pc'[r] = "done"
    /\ req[r].target \notin signedIn
    /\ row' = [row EXCEPT ![req[r].target] = Null]
    /\ decided' = [decided EXCEPT ![req[r].target] = Null]
    /\ UNCHANGED <<dirty, born, audited, altered, signedIn, req, loaded, met>>

Passes(r) ==
    /\ \/ pc[r] = "pipes" /\ pc'[r] \in {"rejected", "insert", "load"}
       \/ pc[r] = "reload" /\ pc'[r] \in AfterReload(r)
       \/ pc[r] # "idle" /\ pc'[r] = "failed"
    /\ UNCHANGED <<stored, signedIn, req, loaded, met>>

Does(r) ==
    \/ Arrives(r) \/ Inserts(r) \/ Loads(r) \/ (\E copy, next : Stores(r, copy, next))
    \/ Records(r) \/ Deletes(r) \/ Passes(r)

\* A step is one of one request, or a login, which stores a token of a user that
\* is there.
LEMMA EachStep ==
    ASSUME IInv, Next
    PROVE  \/ \E r \in Request :
                /\ \A q \in Request \ {r} : /\ pc'[q] = pc[q] /\ req'[q] = req[q]
                                            /\ loaded'[q] = loaded[q]
                /\ Does(r)
           \/ /\ UNCHANGED <<stored, pc, req, loaded, met>>
              /\ signedIn' \subseteq signedIn \cup Existing
<1> USE DEF IInv, TypeOK, stored, local, tables, history, Fail
<1>1. CASE \E u \in User : SignIn(u)
  BY <1>1 DEF SignIn, Existing, Entity
<1>2. CASE \E r \in Request, u \in User :
             \/ \E body \in Bodies : Create(r, u, body)
             \/ \E x \in born, body \in Bodies : Update(r, u, x, body)
             \/ \E x \in born : Remove(r, u, x)
             \/ ChangePassword(r, u)
  <2>1. PICK r \in Request, u \in User :
             \/ \E body \in Bodies : Create(r, u, body)
             \/ \E x \in born, body \in Bodies : Update(r, u, x, body)
             \/ \E x \in born : Remove(r, u, x)
             \/ ChangePassword(r, u)
    BY <1>2
  <2>2. ASSUME NEW kind, NEW x, NEW body, Arrive(r, kind, u, x, body),
               kind \in Creates => x = Null,
               kind \notin Creates => x \in born \cup {u}
        PROVE  Does(r) /\ \A q \in Request \ {r} : /\ pc'[q] = pc[q] /\ req'[q] = req[q]
                                                   /\ loaded'[q] = loaded[q]
    BY <2>2 DEF Arrive, Arrives, Does
  <2>3. CASE \E body \in Bodies : Create(r, u, body)
    BY <2>2, <2>3 DEF Create, Creates
  <2>4. CASE \/ \E x \in born, body \in Bodies : Update(r, u, x, body)
             \/ \E x \in born : Remove(r, u, x)
    BY <2>2, <2>4 DEF Update, Remove, Creates
  <2>5. CASE ChangePassword(r, u)
    BY <2>2, <2>5 DEF ChangePassword, Creates
  <2> QED  BY <2>1, <2>3, <2>4, <2>5
<1>3. ASSUME NEW r \in Request, Insert(r)
      PROVE  Does(r) /\ \A q \in Request \ {r} : /\ pc'[q] = pc[q] /\ req'[q] = req[q]
                                                 /\ loaded'[q] = loaded[q]
  BY <1>3 DEF Insert, KeysFor, Entity, Does, Inserts, Passes
<1>4. ASSUME NEW r \in Request, Load(r)
      PROVE  Does(r) /\ \A q \in Request \ {r} : /\ pc'[q] = pc[q] /\ req'[q] = req[q]
                                                 /\ loaded'[q] = loaded[q]
  BY <1>4 DEF Load, Does, Loads, Passes
<1>5. ASSUME NEW r \in Request, SaveUser(r) \/ SavePassword(r) \/ SaveGroup(r)
      PROVE  Does(r) /\ \A q \in Request \ {r} : /\ pc'[q] = pc[q] /\ req'[q] = req[q]
                                                 /\ loaded'[q] = loaded[q]
  <2>1. CASE Fail(r)
    BY <1>5, <2>1 DEF SaveUser, SavePassword, SaveGroup, Does, Passes
  <2>2. CASE ~ Fail(r)
    <3>1. PICK copy, next : Stores(r, copy, next)
      BY <1>5, <2>2, EachSaves
    <3> QED  BY <3>1 DEF Stores, Does
  <2> QED  BY <2>1, <2>2
<1>6. ASSUME NEW r \in Request, Audit(r) \/ Delete(r) \/ Pipes(r) \/ Reload(r) \/ Abort(r)
      PROVE  Does(r) /\ \A q \in Request \ {r} : /\ pc'[q] = pc[q] /\ req'[q] = req[q]
                                                 /\ loaded'[q] = loaded[q]
  <2>1. CASE Audit(r)
    BY <2>1 DEF Audit, Does, Records, Removes
  <2>2. CASE Delete(r)
    BY <2>2 DEF Delete, Does, Deletes, Passes
  <2>3. CASE Pipes(r) \/ Reload(r)
    BY <2>3 DEF Pipes, Reload, Does, Passes
  <2>4. CASE Abort(r)
    BY <2>4 DEF Abort, Steps, Does, Passes
  <2> QED  BY <1>6, <2>1, <2>2, <2>3, <2>4
<1> QED
  BY <1>1, <1>2, <1>3, <1>4, <1>5, <1>6 DEF Next, Step

(***************************************************************************)
(* A row is as it was decided, and so is who is let in.                    *)
(***************************************************************************)
\* update, changePassword, remove: only a save over a row that was written since
\* it was loaded can undo a deactivation, a move or a new password.
THEOREM AsDecided == Spec => []OnlyStaleSavesUndo
<1>1. Init => OnlyStaleSavesUndo
  BY DEF Init, OnlyStaleSavesUndo
<1>2. IInv /\ OnlyStaleSavesUndo /\ [Next]_vars => OnlyStaleSavesUndo'
  <2> SUFFICES ASSUME IInv, OnlyStaleSavesUndo, Next PROVE OnlyStaleSavesUndo'
    BY DEF OnlyStaleSavesUndo, vars
  <2> USE DEF OnlyStaleSavesUndo, stored
  <2>0. TypeOK
    BY DEF IInv
  <2>1. CASE UNCHANGED stored
    BY <2>1
  <2>2. ASSUME NEW r \in Request, Inserts(r) \/ Deletes(r) PROVE OnlyStaleSavesUndo'
    BY <2>0, <2>2 DEF Inserts, Deletes, TypeOK
  <2>3. ASSUME NEW r \in Request, NEW copy, NEW next, Stores(r, copy, next)
        PROVE  OnlyStaleSavesUndo'
    <3> SUFFICES ASSUME NEW x \in Entity \ dirty' PROVE row'[x] = decided'[x]
      OBVIOUS
    <3>1. x \notin dirty /\ row[x] = decided[x]
      BY <2>3 DEF Stores
    <3> QED  BY <2>0, <2>3, <3>1 DEF Stores, TypeOK
  <2> QED
    BY <2>1, <2>2, <2>3, EachStep DEF Does, Arrives, Loads, Records, Passes
<1> QED
  BY <1>1, <1>2, TypeCorrect, PTL DEF Spec

\* MayAct on the table agrees with what was decided, as far as no stale save has
\* touched the two rows it looks at.
LEMMA GuardsAgree ==
    ASSUME IInv, OnlyStaleSavesUndo, NEW u \in User, NEW kind, MayAct(row, u, kind)
    PROVE  Standing(u, kind) # "refused"
<1>1. u \in Entity /\ row[u].group \in Entity
  BY DEF MayAct, IInv, RowsOK, Sorted, UserRow, Entity
<1>2. CASE {u, row[u].group} \cap dirty # {}
  BY <1>2 DEF Standing
<1>3. CASE {u, row[u].group} \cap dirty = {}
  <2>1. decided[u] = row[u] /\ decided[row[u].group] = row[row[u].group]
    BY <1>1, <1>3 DEF OnlyStaleSavesUndo
  <2> QED  BY <1>3, <2>1 DEF Standing, MayAct
<1> QED  BY <1>2, <1>3

\* TokenGuard and RolesGuard: whoever gets past them was active, and in a group
\* with the role, as administrators had last decided.
THEOREM GuardsFollowDecisions == Spec => []ServedAsDecided
<1>1. Init => ServedAsDecided
  BY DEF Init, ServedAsDecided
<1>2. IInv /\ OnlyStaleSavesUndo /\ ServedAsDecided /\ [Next]_vars => ServedAsDecided'
  <2> SUFFICES ASSUME IInv, OnlyStaleSavesUndo, ServedAsDecided, [Next]_vars
               PROVE  ServedAsDecided'
    OBVIOUS
  <2>0. pc \in [Request -> {"idle"} \cup Steps \cup Ends]
        /\ start \in [Request -> {"none", "unknown", "refused", "admitted"}]
    BY DEF IInv, TypeOK
  <2>1. ASSUME NEW r \in Request, NEW u \in User, NEW kind, NEW x, NEW body,
               Arrive(r, kind, u, x, body)
        PROVE  ServedAsDecided'
    <3>1. pc'[r] # "rejected" => start'[r] # "refused"
      BY <2>0, <2>1, GuardsAgree DEF Arrive
    <3> QED  BY <2>0, <2>1, <3>1 DEF Arrive, ServedAsDecided
  <2>2. ASSUME NEW r \in Request, Step(r) \/ Abort(r) PROVE ServedAsDecided'
    <3>1. pc[r] \in Steps /\ start' = start
          /\ \A q \in Request \ {r} : pc'[q] = pc[q]
      BY <2>0, <2>2 DEF Step, Abort, Pipes, Insert, Load, SaveUser, SavePassword, SaveGroup,
                        Store, Reload, Audit, Delete, Fail, Steps, local
    <3> QED  BY <3>1 DEF Steps, ServedAsDecided
  <2>3. CASE UNCHANGED vars \/ \E u \in User : SignIn(u)
    BY <2>3 DEF vars, SignIn, local, ServedAsDecided
  <2> QED
    BY <2>1, <2>2, <2>3 DEF Next, Create, Update, Remove, ChangePassword
<1> QED
  BY <1>1, <1>2, TypeCorrect, AsDecided, PTL DEF Spec

(***************************************************************************)
(* What is gone has a record.                                              *)
(***************************************************************************)
\* The rows whose removal is on record.
Recorded == {req[r].target : r \in {q \in audited : req[q].kind \in Removes}}

HoldsKeys(r) ==
    /\ pc[r] # "idle" /\ req[r].kind \notin Creates => req[r].target \in born
    /\ pc[r] = "delete" => req[r].target \in Recorded

KeysInv ==
    /\ signedIn \subseteq Existing /\ Existing \subseteq born
    /\ born \ Existing \subseteq Recorded
    /\ \A r \in Request : HoldsKeys(r)

\* A record stays: once it is made, nothing changes the request it is of.
LEMMA RecordsStay ==
    ASSUME IInv, NEW r \in Request, Does(r),
           \A q \in Request \ {r} : req'[q] = req[q]
    PROVE  Recorded \subseteq Recorded'
<1>1. \A q \in audited : q \in Request /\ pc[q] \in {"delete", "done", "failed"}
  BY DEF IInv, TypeOK, Holds
<1>2. audited \subseteq audited'
  BY DEF Does, Arrives, Inserts, Loads, Stores, Records, Deletes, Passes, stored
<1>3. r \in audited => req'[r] = req[r]
  BY <1>1 DEF Does, Arrives, Inserts, Loads, Stores, Records, Deletes, Passes, local
<1>4. \A q \in audited : req'[q] = req[q]
  BY <1>1, <1>3
<1> QED  BY <1>2, <1>4 DEF Recorded

\* Every step keeps them.  Foreign keys matter: whoever is signed in is there.
LEMMA StepKeys == IInv /\ KeysInv /\ [Next]_vars => KeysInv'
<1>1. ASSUME KeysInv, UNCHANGED vars PROVE KeysInv'
  BY <1>1 DEF vars, KeysInv, HoldsKeys, Existing, Recorded
<1>2. ASSUME IInv, KeysInv, UNCHANGED <<stored, pc, req, loaded, met>>,
             signedIn' \subseteq signedIn \cup Existing
      PROVE  KeysInv'
  BY <1>2 DEF stored, KeysInv, HoldsKeys, Existing, Recorded
<1>3. ASSUME IInv, KeysInv, NEW r \in Request, Does(r),
             \A q \in Request \ {r} : pc'[q] = pc[q] /\ req'[q] = req[q]
      PROVE  KeysInv'
  <2>0. TypeOK /\ Holds(r)
    BY <1>3 DEF IInv
  <2>1. Recorded \subseteq Recorded'
    BY <1>3, RecordsStay
  <2>2. born \subseteq born'
    BY <1>3 DEF Does, Arrives, Inserts, Loads, Stores, Records, Deletes, Passes, stored
  <2>3. /\ signedIn' \subseteq Existing' /\ Existing' \subseteq born'
        /\ born' \ Existing' \subseteq Recorded'
    <3>1. CASE Inserts(r)
      <4>1. NewRow(r) # Null
        BY <2>0, <3>1, NewRowIsRow DEF Inserts, Holds
      <4>2. Existing' = Existing \cup {req'[r].target}
        BY <2>0, <3>1, <4>1 DEF Inserts, Existing, TypeOK
      <4> QED  BY <1>3, <2>1, <3>1, <4>2 DEF Inserts, KeysInv
    <3>2. ASSUME NEW copy, NEW next, Stores(r, copy, next)
             PROVE  /\ signedIn' \subseteq Existing' /\ Existing' \subseteq born'
                    /\ born' \ Existing' \subseteq Recorded'
      <4>1. Asks(r) /\ req[r].kind \in Updates /\ req[r].target \in Entity
        BY <2>0, <3>2 DEF Stores, Holds, Asks, Updates, Entity
      <4>2. copy # Null /\ req[r].target \in born
        BY <1>3, <3>2, <4>1, NullAssumption
           DEF Stores, Sorted, Entity, Row, KeysInv, HoldsKeys, Updates, Creates
      <4>3. Existing' = Existing \cup {req[r].target}
        BY <2>0, <3>2, <4>1, <4>2 DEF Stores, Existing, TypeOK
      <4> QED  BY <1>3, <2>1, <3>2, <4>2, <4>3 DEF Stores, KeysInv
    <3>3. CASE Deletes(r)
      <4>1. req[r].target \in Recorded
        BY <1>3, <3>3 DEF Deletes, KeysInv, HoldsKeys
      <4>2. Existing' = Existing \ {req[r].target}
        BY <2>0, <3>3 DEF Deletes, Existing, TypeOK
      <4> QED  BY <1>3, <2>1, <3>3, <4>1, <4>2 DEF Deletes, KeysInv
    <3>4. CASE Arrives(r) \/ Loads(r) \/ Records(r) \/ Passes(r)
      BY <1>3, <2>1, <3>4 DEF Arrives, Loads, Records, Passes, stored, KeysInv, Existing
    <3> QED  BY <1>3, <3>1, <3>2, <3>3, <3>4 DEF Does
  <2>4. \A q \in Request \ {r} : HoldsKeys(q)'
    BY <1>3, <2>1, <2>2 DEF KeysInv, HoldsKeys
  <2>5. HoldsKeys(r)'
    <3>1. CASE Arrives(r)
      BY <1>3, <2>2, <3>1 DEF Arrives, KeysInv, HoldsKeys, stored
    <3>2. CASE Inserts(r)
      BY <2>0, <3>2 DEF Inserts, Holds, HoldsKeys
    <3>3. CASE Loads(r)
      <4>1. req[r].target \in born /\ req[r].target \in Entity
        BY <1>3, <2>0, <3>3 DEF Loads, Holds, KeysInv, HoldsKeys, TypeOK
      <4>2. pc'[r] = "delete" => req[r].target \in Recorded
        BY <1>3, <3>3, <4>1 DEF Loads, KeysInv, Existing
      <4> QED  BY <2>1, <2>2, <3>3, <4>1, <4>2 DEF Loads, HoldsKeys
    <3>4. CASE Records(r)
      <4>1. pc'[r] = "delete" => req[r].target \in Recorded'
        BY <3>4 DEF Records, Recorded
      <4> QED  BY <1>3, <2>2, <3>4, <4>1 DEF Records, KeysInv, HoldsKeys
    <3>5. CASE Deletes(r) \/ Passes(r) \/ \E copy, next : Stores(r, copy, next)
      BY <1>3, <2>0, <2>2, <3>5
         DEF Deletes, Passes, AfterReload, Stores, KeysInv, HoldsKeys, TypeOK, local
    <3> QED  BY <1>3, <3>1, <3>2, <3>3, <3>4, <3>5 DEF Does
  <2> QED  BY <2>3, <2>4, <2>5 DEF KeysInv
<1> QED  BY <1>1, <1>2, <1>3, EachStep

\* remove and logDeleteIf: whatever was removed, once or twice, over whichever
\* update that inserts it again, has a record of a removal.
THEOREM GoneIsRecorded == Spec => []RemovalsAreRecorded
<1>1. Init => KeysInv
  BY DEF Init, KeysInv, HoldsKeys, Existing
<1>2. IInv /\ KeysInv => RemovalsAreRecorded
  BY DEF KeysInv, Recorded, Removes, RemovalsAreRecorded
<1> QED
  BY <1>1, <1>2, StepKeys, TypeCorrect, PTL DEF Spec

(***************************************************************************)
(* A change made alone is recorded.                                        *)
(*                                                                         *)
(* Whoever could write the row of a request, or the group that its label   *)
(* names, while it is handled has met it.  So the row that it loaded is    *)
(* the row that it saves over, and the row that it reads back is the one   *)
(* that it saved.                                                          *)
(***************************************************************************)
Lone(r) ==
    \A q \in met[r] : req[q].target # req[r].target /\ req[q].kind \notin GroupKinds

\* What the query for the record would return now.
ViewNow(r) == View(row, req[r].target)

\* Requests that overlap have met.
MetInv ==
    /\ \A r, q \in InFlight : q # r => q \in met[r]
    /\ \A r \in Request : \A q \in met[r] : pc[q] # "idle"

LoneInv(r) ==
    /\ r \in altered => /\ req[r].kind \in Updates
                        /\ pc[r] \in {"reload", "audit", "done", "failed"}
    /\ req[r].kind \in {"updateUser", "updateGroup"} =>
         /\ pc[r] = "save" /\ Lone(r) => loaded[r] = ViewNow(r)
         /\ pc[r] = "reload" /\ Lone(r) =>
              /\ row[req[r].target] # Null
              /\ r \in altered => Noticeable(loaded[r], ViewNow(r), req[r].target)
         /\ pc[r] = "done" /\ r \in altered => r \in audited \/ ~ Lone(r)

\* met holds whatever is in flight together.
LEMMA StepMet ==
    ASSUME IInv, MetInv, NEW r \in Request, Does(r),
           \A q \in Request \ {r} : pc'[q] = pc[q]
    PROVE  MetInv'
<1>0. TypeOK
  BY DEF IInv
<1>1. CASE Arrives(r)
  <2>1. \A q \in Request : met'[q] = IF q = r THEN InFlight
                                     ELSE met[q] \cup {a \in {r} : q \in InFlight}
    BY <1>1 DEF Arrives
  <2>2. InFlight' \subseteq InFlight \cup {r} /\ InFlight \subseteq Request /\ r \notin InFlight
    BY <1>1 DEF InFlight, Arrives, Steps
  <2>3. \A p, q \in InFlight' : q # p => q \in met'[p]
    BY <2>1, <2>2 DEF MetInv, InFlight
  <2>4. \A p \in Request : \A q \in met'[p] : pc'[q] # "idle"
    <3> SUFFICES ASSUME NEW p \in Request, NEW q \in met'[p] PROVE pc'[q] # "idle"
      OBVIOUS
    <3>1. q \in met[p] \/ q = r \/ q \in InFlight
      BY <2>1
    <3>2. q \in Request
      BY <1>0, <2>2, <3>1 DEF TypeOK
    <3>3. q = r \/ pc[q] # "idle"
      BY <3>1 DEF MetInv, InFlight, Steps
    <3> QED  BY <1>1, <3>2, <3>3 DEF Arrives
  <2> QED  BY <2>3, <2>4 DEF MetInv
<1>2. CASE ~ Arrives(r)
  <2>1. met' = met /\ pc[r] \in Steps \cup Ends /\ (pc'[r] \in Steps => pc[r] \in Steps)
        /\ pc'[r] # "idle"
    BY <1>0, <1>2 DEF Does, Inserts, Loads, Stores, Records, Deletes, Passes, AfterReload,
                      Steps, Ends, TypeOK, local
  <2>2. InFlight' \subseteq InFlight
    BY <2>1 DEF InFlight
  <2> QED  BY <1>0, <2>1, <2>2 DEF MetInv, TypeOK
<1> QED  BY <1>1, <1>2

\* Company stays: no step makes a request lone that was not.
LEMMA NotLoneAgain ==
    ASSUME IInv, MetInv, NEW r \in Request, Does(r),
           \A q \in Request \ {r} : pc'[q] = pc[q] /\ req'[q] = req[q],
           NEW o \in Request, pc[o] # "idle", req[o].kind \notin Creates, Lone(o)'
    PROVE  Lone(o)
<1>0. TypeOK /\ Holds(r) /\ Asks(o)
  BY DEF IInv, Holds
<1>1. req'[o].target = req[o].target /\ req[o].target # Null
  <2>1. req[o].target \in Entity
    BY <1>0 DEF Asks, Kinds, UserKinds, GroupKinds, Creates, Entity
  <2>2. o = r => req'[o] = req[o]
    BY <1>0 DEF Does, Arrives, Inserts, Loads, Stores, Records, Deletes, Passes, Holds, local
  <2> QED  BY <2>1, <2>2, NullAssumption
<1>2. met[o] \subseteq met'[o] /\ met[o] \subseteq Request
  BY <1>0 DEF Does, Arrives, Inserts, Loads, Stores, Records, Deletes, Passes, TypeOK, local
<1>3. ASSUME NEW q \in met[o] PROVE req[q].target # req[o].target /\ req[q].kind \notin GroupKinds
  <2>1. req'[q].target # req[o].target /\ req'[q].kind \notin GroupKinds
    BY <1>1, <1>2, <1>3 DEF Lone
  <2>2. CASE req'[q] = req[q]
    BY <2>1, <2>2
  <2>3. CASE req'[q] # req[q]
    <3>1. q = r /\ pc[r] # "idle"
      BY <1>2, <1>3, <2>3 DEF MetInv
    <3>2. Inserts(r)
      BY <2>3, <3>1 DEF Does, Arrives, Loads, Stores, Records, Deletes, Passes, local
    <3> QED  BY <1>0, <1>1, <2>1, <3>1, <3>2 DEF Inserts, Holds
  <2> QED  BY <2>2, <2>3
<1> QED  BY <1>3 DEF Lone

\* A lone request's row and its label stay what they are.
LEMMA Undisturbed ==
    ASSUME IInv, KeysInv, MetInv, NEW r \in Request, Does(r),
           \A q \in Request \ {r} : pc'[q] = pc[q] /\ req'[q] = req[q],
           NEW o \in InFlight \ {r}, req[o].kind \notin Creates, Lone(o)
    PROVE  row'[req[o].target] = row[req[o].target] /\ ViewNow(o)' = ViewNow(o)
<1> DEFINE x == req[o].target
<1>0. TypeOK /\ RowsOK /\ Holds(r) /\ Asks(o) /\ HoldsKeys(o) /\ o \in Request
      /\ pc[o] # "idle" /\ x \in Entity /\ x \in born /\ req'[o] = req[o]
  BY DEF IInv, KeysInv, Holds, HoldsKeys, InFlight, Steps, TypeOK
<1>1. CASE row' = row
  BY <1>0, <1>1 DEF ViewNow, View
<1>2. CASE row' # row
  <2>1. /\ pc[r] \in {"insert", "save", "delete"}
        /\ Asks(r)
        /\ \/ Inserts(r)
           \/ Deletes(r)
           \/ \E copy, next : Stores(r, copy, next)
    BY <1>0, <1>2 DEF Does, Arrives, Inserts, Loads, Stores, Records, Deletes, Passes, Holds,
                      stored
  <2>2. req[r].target # x /\ req[r].kind \notin GroupKinds
    <3>1. r \in InFlight
      BY <2>1 DEF InFlight, Steps
    <3>2. r \in met[o]
      BY <3>1 DEF MetInv
    <3> QED  BY <3>2 DEF Lone
  <2>3. PICK y, value : y \in User /\ y # x /\ row' = [row EXCEPT ![y] = value]
    <3>1. CASE Inserts(r)
      <4>1. req'[r].target \in User
        BY <1>0, <2>2, <3>1 DEF Inserts, Holds, KeysFor, Creates, GroupKinds
      <4> QED  BY <1>0, <3>1, <4>1 DEF Inserts
    <3>2. CASE Deletes(r)
      BY <1>0, <2>1, <2>2, <3>2 DEF Deletes, Holds, Asks, Removes, GroupKinds
    <3>3. ASSUME NEW copy, NEW next, Stores(r, copy, next)
          PROVE  \E y, value : y \in User /\ y # x /\ row' = [row EXCEPT ![y] = value]
      BY <1>0, <2>1, <2>2, <3>3 DEF Stores, Holds, Asks, Updates, GroupKinds
    <3> QED  BY <2>1, <3>1, <3>2, <3>3
  <2>4. /\ row'[x] = row[x]
        /\ \A g \in Group : row'[g] = row[g]
    BY <1>0, <2>3, KeysAssumption DEF TypeOK, Entity
  <2>5. View(row', x) = View(row, x)
    BY <1>0, <2>4 DEF View, RowsOK, Sorted, UserRow
  <2> QED  BY <1>0, <2>4, <2>5 DEF ViewNow, View
<1> QED  BY <1>1, <1>2

\* Every step keeps LoneInv.
LEMMA StepLone ==
    ASSUME IInv, KeysInv, MetInv, \A o \in Request : LoneInv(o), NEW r \in Request, Does(r),
           \A q \in Request \ {r} : /\ pc'[q] = pc[q] /\ req'[q] = req[q]
                                    /\ loaded'[q] = loaded[q]
    PROVE  \A o \in Request : LoneInv(o)'
<1>0. TypeOK /\ RowsOK /\ Holds(r)
  BY DEF IInv
<1>1. ASSUME NEW o \in Request \ {r} PROVE LoneInv(o)'
  <2>1. /\ pc'[o] = pc[o] /\ req'[o] = req[o] /\ loaded'[o] = loaded[o]
        /\ (o \in altered' <=> o \in altered) /\ (o \in audited' <=> o \in audited)
    BY DEF Does, Arrives, Inserts, Loads, Stores, Records, Deletes, Passes, stored
  <2>2. CASE req[o].kind \in {"updateUser", "updateGroup"} /\ pc[o] # "idle"
    <3>1. Lone(o)' => Lone(o)
      BY <2>2, NotLoneAgain DEF Creates
    <3>2. pc[o] \in {"save", "reload"} /\ Lone(o) =>
            row'[req[o].target] = row[req[o].target] /\ ViewNow(o)' = ViewNow(o)
      BY <2>2, Undisturbed DEF Creates, InFlight, Steps
    <3>3. LoneInv(o)
      OBVIOUS
    <3>4. pc[o] = "save" /\ Lone(o)' => loaded'[o] = ViewNow(o)'
      BY <2>1, <2>2, <3>1, <3>2, <3>3 DEF LoneInv
    <3>5. pc[o] = "reload" /\ Lone(o)' =>
            /\ row'[req[o].target] # Null
            /\ o \in altered' => Noticeable(loaded'[o], ViewNow(o)', req[o].target)
      BY <2>1, <2>2, <3>1, <3>2, <3>3 DEF LoneInv
    <3>6. Noticeable(loaded[o], ViewNow(o), req[o].target)'
            <=> Noticeable(loaded'[o], ViewNow(o)', req[o].target)
      BY <2>1 DEF Noticeable
    <3> QED  BY <2>1, <2>2, <3>1, <3>3, <3>4, <3>5, <3>6 DEF LoneInv
  <2>3. CASE ~ (req[o].kind \in {"updateUser", "updateGroup"} /\ pc[o] # "idle")
    BY <2>1, <2>3 DEF LoneInv
  <2> QED  BY <2>2, <2>3
<1>2. LoneInv(r)'
  <2> DEFINE x == req[r].target
  <2>0. LoneInv(r)
    OBVIOUS
  <2>1. ASSUME NEW copy, NEW next, Stores(r, copy, next) PROVE LoneInv(r)'
    <3>1. /\ pc[r] = "save" /\ pc'[r] = next /\ next \in {"reload", "done"}
          /\ req' = req /\ loaded' = loaded /\ met' = met /\ audited' = audited
          /\ r \notin altered /\ req[r].kind \in Updates /\ Asks(r) /\ x \in Entity
      BY <1>0, <2>0, <2>1 DEF Stores, LoneInv, Holds, TypeOK, local, Asks, Updates, Entity
    <3>2. copy # Null /\ row'[x] = copy
      BY <1>0, <2>1, <3>1, NullAssumption DEF Stores, Sorted, Entity, Row, TypeOK
    <3>3. Lone(r)' <=> Lone(r)
      BY <3>1 DEF Lone
    <3>4. ViewNow(r)' = View(row', x)
      BY <3>1 DEF ViewNow, View
    <3>5. r \in altered' => row[x] # Null /\ Noticeable(ViewNow(r), View(row', x), x)
      BY <2>1, <3>1 DEF Stores, ViewNow
    <3>6. row[x] # Null => ViewNow(r) # Null
      BY <1>0, <3>1, ViewOK DEF ViewNow
    <3>7. CASE req[r].kind = "changePassword"
      BY <2>1, <3>1, <3>7 DEF Stores, LoneInv, Updates
    <3>8. CASE req[r].kind # "changePassword"
      <4>1. Lone(r) => loaded[r] = ViewNow(r)
        BY <2>0, <3>1, <3>8 DEF LoneInv, Updates
      <4>2. next = "reload" <=> loaded[r] # Null
        BY <2>1, <3>8 DEF Stores
      <4>3. pc'[r] = "done" /\ r \in altered' => ~ Lone(r)'
        BY <3>1, <3>3, <3>5, <3>6, <4>1, <4>2
      <4>4. r \in altered' /\ Lone(r)' => Noticeable(loaded[r], View(row', x), x)
        BY <3>3, <3>5, <4>1
      <4>5. Noticeable(loaded[r], ViewNow(r), x)' <=> Noticeable(loaded[r], View(row', x), x)
        BY <3>1, <3>4 DEF Noticeable
      <4> QED  BY <3>1, <3>2, <4>3, <4>4, <4>5 DEF LoneInv
    <3> QED  BY <3>7, <3>8
  <2>2. CASE Loads(r)
    <3>1. pc'[r] \in {"save", "audit", "delete"} /\ req' = req /\ r \notin altered'
      BY <2>0, <2>2 DEF Loads, LoneInv, stored
    <3>2. loaded'[r] = ViewNow(r)'
      BY <1>0, <2>2 DEF Loads, ViewNow, View, TypeOK, stored
    <3> QED  BY <3>1, <3>2 DEF LoneInv
  <2>3. CASE Passes(r)
    <3>1. req' = req /\ altered' = altered /\ audited' = audited /\ met' = met
      BY <2>3 DEF Passes, stored
    <3>2. pc'[r] \in {"rejected", "insert", "load", "failed", "audit", "done"}
          /\ (pc'[r] # "failed" => pc[r] \in {"pipes", "reload"})
          /\ (pc[r] = "pipes" => pc'[r] # "done" /\ r \notin altered)
      BY <2>0, <2>3 DEF Passes, AfterReload, LoneInv
    <3>3. ASSUME pc[r] = "reload", pc'[r] \in AfterReload(r), Lone(r), r \in altered
          PROVE  pc'[r] = "audit"
      <4>1. row[x] # Null /\ Noticeable(loaded[r], View(row, x), x)
        BY <1>0, <2>0, <3>3 DEF LoneInv, ViewNow, Holds
      <4> QED  BY <3>3, <4>1 DEF AfterReload
    <3>4. Lone(r)' <=> Lone(r)
      BY <3>1 DEF Lone
    <3>5. pc'[r] = "done" /\ r \in altered => ~ Lone(r)
      BY <2>3, <3>2, <3>3 DEF Passes
    <3>6. r \in altered /\ pc'[r] # "failed" => pc'[r] \in {"audit", "done"}
      BY <2>3, <3>2 DEF Passes, AfterReload
    <3> QED  BY <2>0, <3>1, <3>2, <3>4, <3>5, <3>6 DEF LoneInv
  <2>4. CASE Arrives(r) \/ Inserts(r)
    BY <2>0, <2>4 DEF Arrives, Inserts, LoneInv, stored
  <2>5. CASE Records(r) \/ Deletes(r)
    BY <1>0, <2>0, <2>5 DEF Records, Deletes, LoneInv, Holds, Removes, Updates
  <2> QED  BY <2>1, <2>2, <2>3, <2>4, <2>5 DEF Does
<1> QED  BY <1>1, <1>2

\* UsersService.update, GroupsService.update and logUpdateIf: a change that an
\* auditor would notice is recorded, unless a request about the same row, or
\* about groups, was handled meanwhile.
THEOREM LoneIsRecorded == Spec => []LoneChangesAreRecorded
<1> DEFINE AllLone == MetInv /\ \A r \in Request : LoneInv(r)
<1>1. Init => AllLone
  BY DEF Init, MetInv, LoneInv, InFlight, Steps
<1>2. IInv /\ KeysInv /\ AllLone /\ [Next]_vars => AllLone'
  <2>1. ASSUME AllLone, UNCHANGED <<row, pc, req, loaded, met, audited, altered>> PROVE AllLone'
    BY <2>1 DEF MetInv, LoneInv, InFlight, Lone, ViewNow, View, Noticeable
  <2>2. ASSUME IInv, KeysInv, AllLone, Next PROVE AllLone'
    <3>1. CASE \E r \in Request :
                 /\ \A q \in Request \ {r} : /\ pc'[q] = pc[q] /\ req'[q] = req[q]
                                             /\ loaded'[q] = loaded[q]
                 /\ Does(r)
      BY <2>2, <3>1, StepMet, StepLone
    <3>2. CASE UNCHANGED <<stored, pc, req, loaded, met>>
      BY <2>1, <2>2, <3>2 DEF stored
    <3> QED  BY <2>2, <3>1, <3>2, EachStep
  <2> QED  BY <2>1, <2>2 DEF vars
<1>3. IInv /\ AllLone => LoneChangesAreRecorded
  BY DEF LoneInv, Lone, Updates, LoneChangesAreRecorded, IInv, TypeOK
<1>4. Init => KeysInv
  BY DEF Init, KeysInv, HoldsKeys, Existing
<1> QED
  BY <1>1, <1>2, <1>3, <1>4, StepKeys, TypeCorrect, PTL DEF Spec
=============================================================================
