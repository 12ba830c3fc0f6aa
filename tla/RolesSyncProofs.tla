-------------------------- MODULE RolesSyncProofs ---------------------------
(***************************************************************************)
(* What is proved about the sync of modules, roles and the admin group,    *)
(* for every catalogue and every number of rows.                           *)
(***************************************************************************)
EXTENDS RolesSync, TLAPS

(***************************************************************************)
(* Types, and what a sync has in hand at each point.                       *)
(***************************************************************************)
Place(s) ==
    /\ pc[s] = "addModule" => name[s] \in ModuleName
    /\ pc[s] \in {"roles", "saveRole"} => module[s] \in modules
    /\ pc[s] = "saveRole" => /\ name[s] \in RoleName
                             /\ ModuleOf[name[s]] = module[s].name
                             /\ found[s] \in RoleRows(name[s]) \cup {Null}
    /\ pc[s] \in {"list", "saveGroup"} => found[s] \in Group \cup {Null}
    /\ pc[s] \in {"user", "saveUser"} => found[s] \in Group /\ SeedAdmin
    /\ pc[s] = "saveUser" => name[s] \in SeededUser \cup {Null}

IInv == TypeOK /\ \A s \in Server : Place(s)

\* No row is taken for none.
LEMMA RowsAreThere ==
    ASSUME TypeOK
    PROVE  /\ \A row \in modules : row # Null /\ row \in ModuleRow
           /\ \A g \in Group : groups[g] \notin {Null, Gone} <=> groups[g] \in SUBSET AllRoleRows
           /\ admins \subseteq Group /\ Null \notin admins /\ Null \notin Group
<1>1. \A row \in modules : row # Null /\ row \in ModuleRow
  BY NullAssumption DEF TypeOK
<1>2. AllRoleRows \subseteq RoleRow
  BY DEF AllRoleRows
<1>3. ASSUME NEW g \in Group
      PROVE  groups[g] \notin {Null, Gone} <=> groups[g] \in SUBSET AllRoleRows
  <2>1. groups[g] \in (SUBSET AllRoleRows) \cup {Null, Gone}
    BY DEF TypeOK
  <2>2. groups[g] \in SUBSET AllRoleRows => groups[g] \in SUBSET RoleRow
    BY <1>2
  <2>3. groups[g] \in SUBSET RoleRow => groups[g] \notin {Null, Gone}
    BY NullAssumption
  <2> QED  BY <2>1, <2>2, <2>3
<1>4. admins \subseteq Group /\ Null \notin admins /\ Null \notin Group
  BY NullAssumption DEF TypeOK, Existing
<1> QED  BY <1>1, <1>3, <1>4

\* Rows of modules and roles only come.
Grows == modules \subseteq modules' /\ AllRoleRows \subseteq AllRoleRows'

\* What one sync has in hand is not another's to change.
LEMMA OthersPlace ==
    ASSUME Grows, NEW S, \A t \in S : Place(t),
           \A t \in S : pc'[t] = pc[t] /\ name'[t] = name[t] /\ found'[t] = found[t]
                        /\ module'[t] = module[t]
    PROVE  \A t \in S : Place(t)'
<1> SUFFICES ASSUME NEW t \in S PROVE Place(t)'
  OBVIOUS
<1>1. RoleRows(name[t]) \subseteq RoleRows(name[t])'
  BY DEF Grows, RoleRows, AllRoleRows
<1> QED  BY <1>1 DEF Place, Grows

\* Reset leaves nothing in hand.
LEMMA ResetInv ==
    ASSUME TypeOK, NEW s \in Server, NEW step \in {"down", "modules", "synced", "unsynced"},
           Reset(s, step), Grows
    PROVE  /\ pc' \in [Server -> Syncs \cup Serving \cup {"down"}]
           /\ name' \in [Server -> ModuleName \cup RoleName \cup SeededUser \cup {Null}]
           /\ found' \in [Server -> AllRoleRows' \cup Group \cup {Null}]
           /\ module' \in [Server -> modules' \cup {Null}]
           /\ held' \in [Server -> SUBSET AllRoleRows']
           /\ listed' \in [Server -> SUBSET AllRoleRows']
           /\ Place(s)'
<1>1. /\ pc' \in [Server -> Syncs \cup Serving \cup {"down"}]
      /\ name' \in [Server -> ModuleName \cup RoleName \cup SeededUser \cup {Null}]
      /\ found' \in [Server -> AllRoleRows' \cup Group \cup {Null}]
      /\ module' \in [Server -> modules' \cup {Null}]
      /\ held' \in [Server -> SUBSET AllRoleRows']
      /\ listed' \in [Server -> SUBSET AllRoleRows']
  BY DEF Reset, TypeOK, Grows, Syncs, Serving
<1>2. pc'[s] = step
  BY DEF Reset, TypeOK
<1> QED  BY <1>1, <1>2 DEF Place

\* A server starts, gives up its sync, or crashes.
LEMMA RestartInv ==
    ASSUME IInv, NEW s \in Server, Start(s) \/ Abort(s) \/ Crash(s)
    PROVE  TypeOK' /\ Place(s)'
<1>0. TypeOK /\ UNCHANGED tables /\ Grows
  BY DEF IInv, Start, Abort, Crash, tables, Grows, AllRoleRows
<1>1. PICK step \in {"down", "modules", "synced", "unsynced"} : Reset(s, step)
  BY DEF Start, Abort, Crash
<1>2. todo' \in [Server -> SUBSET (ModuleName \cup RoleName)] /\ edited' \in [Server -> BOOLEAN]
  BY <1>0 DEF Start, Abort, Crash, TypeOK
<1>3. AllRoleRows' = AllRoleRows /\ Existing' = Existing
  BY <1>0 DEF tables, AllRoleRows, Existing
<1> QED  BY <1>0, <1>1, <1>2, <1>3, ResetInv DEF TypeOK, tables

\* The modules and their roles.
LEMMA FindModuleInv ==
    ASSUME IInv, NEW s \in Server, FindModule(s)
    PROVE  TypeOK' /\ Place(s)'
<1>0. TypeOK /\ AllRoleRows' = AllRoleRows /\ Existing' = Existing
  BY DEF IInv, FindModule, tables, AllRoleRows, Existing
<1>1. PICK m \in todo[s] \cap ModuleName, row \in ModuleRow \cup {Null} :
        /\ row \in FindOne(ModuleRows(m))
        /\ todo' = [todo EXCEPT ![s] = @ \ {m}]
        /\ name' = [name EXCEPT ![s] = IF row = Null THEN m ELSE Null]
        /\ module' = [module EXCEPT ![s] = row]
        /\ pc' = [pc EXCEPT ![s] = IF row = Null THEN "addModule" ELSE "roles"]
  BY DEF FindModule
<1>2. row \in modules \cup {Null}
  BY <1>1 DEF FindOne, ModuleRows
<1>3. TypeOK'
  BY <1>0, <1>1, <1>2 DEF FindModule, TypeOK, tables, Syncs
<1>4. Place(s)'
  BY <1>0, <1>1, <1>2 DEF FindModule, TypeOK, tables, Place
<1> QED  BY <1>3, <1>4

\* AddModule inserts a row, and the server that did goes on with it.
LEMMA AddModuleInv ==
    ASSUME IInv, NEW s \in Server, AddModule(s)
    PROVE  TypeOK' /\ Place(s)' /\ Grows
<1>0. TypeOK /\ AllRoleRows' = AllRoleRows /\ Existing' = Existing
  BY DEF IInv, AddModule, AllRoleRows, Existing
<1>1. PICK row \in ModuleRow : /\ modules' = modules \cup {row}
                               /\ module' = [module EXCEPT ![s] = row]
  BY DEF AddModule
<1>2. TypeOK'
  BY <1>0, <1>1 DEF AddModule, TypeOK, Syncs
<1>3. Place(s)'
  BY <1>0, <1>1 DEF AddModule, TypeOK, Place
<1> QED  BY <1>0, <1>1, <1>2, <1>3 DEF Grows

\* FindRole leaves the server with a row of the role's name, or none.
LEMMA FindRoleInv ==
    ASSUME IInv, NEW s \in Server, FindRole(s)
    PROVE  TypeOK' /\ Place(s)'
<1>0. /\ TypeOK /\ AllRoleRows' = AllRoleRows /\ Existing' = Existing
      /\ module[s] \in modules
  BY DEF IInv, FindRole, Place, tables, AllRoleRows, Existing
<1>1. PICK r \in todo[s] \cap RoleName, row \in RoleRow \cup {Null} :
        /\ ModuleOf[r] = module[s].name
        /\ row \in FindOne(RoleRows(r))
        /\ todo' = [todo EXCEPT ![s] = @ \ {r}]
        /\ name' = [name EXCEPT ![s] = r]
        /\ found' = [found EXCEPT ![s] = row]
  BY DEF FindRole, RoleRowsSought
<1>2. row \in RoleRows(r) \cup {Null} /\ RoleRows(r) \subseteq AllRoleRows
      /\ RoleRows(r)' = RoleRows(r)
  BY <1>1 DEF FindOne, RoleRows, AllRoleRows, FindRole, tables
<1>3. TypeOK'
  BY <1>0, <1>1, <1>2 DEF FindRole, TypeOK, tables, Syncs
<1>4. Place(s)'
  BY <1>0, <1>1, <1>2 DEF FindRole, TypeOK, tables, Place
<1> QED  BY <1>3, <1>4

\* SaveRole inserts or moves a row; the rows of other roles stay.
LEMMA SaveRoleInv ==
    ASSUME IInv, NEW s \in Server, SaveRole(s)
    PROVE  TypeOK' /\ Place(s)' /\ Grows
<1>0. /\ TypeOK /\ Existing' = Existing /\ module[s] \in modules /\ name[s] \in RoleName
      /\ module[s] # Null /\ found[s] \in RoleRows(name[s]) \cup {Null}
  BY RowsAreThere DEF IInv, SaveRole, Place, Existing
<1>1. PICK row \in RoleRow : roles' = [roles EXCEPT ![row] = module[s]]
  BY <1>0 DEF SaveRole, RoleRows
<1>2. AllRoleRows' = AllRoleRows \cup {row}
  BY <1>0, <1>1 DEF AllRoleRows, TypeOK
<1>3. pc' = [pc EXCEPT ![s] = NextTurn(s, todo[s])]
      /\ NextTurn(s, todo[s]) \in {"roles", "modules", "group"}
  BY DEF SaveRole, NextTurn
<1>4. TypeOK'
  BY <1>0, <1>1, <1>2, <1>3 DEF SaveRole, TypeOK, Syncs
<1>5. Place(s)'
  BY <1>0, <1>3 DEF SaveRole, TypeOK, Place
<1> QED  BY <1>2, <1>4, <1>5 DEF Grows, SaveRole

\* The group and the user.
LEMMA FindGroupInv ==
    ASSUME IInv, NEW s \in Server, FindGroup(s) \/ ListRoles(s) \/ FindUser(s)
    PROVE  TypeOK' /\ Place(s)'
<1>0. /\ TypeOK /\ Place(s) /\ AllRoleRows' = AllRoleRows /\ Existing' = Existing
      /\ UNCHANGED tables
  BY DEF IInv, FindGroup, ListRoles, FindUser, tables, AllRoleRows, Existing
<1>1. CASE FindGroup(s)
  <2>1. PICK g \in FindOne(admins) :
          /\ found' = [found EXCEPT ![s] = g]
          /\ held' = [held EXCEPT ![s] = IF g = Null THEN {} ELSE groups[g]]
    BY <1>1 DEF FindGroup
  <2>2. /\ g \in Group \cup {Null}
        /\ g # Null => groups[g] \subseteq AllRoleRows
    BY <1>0, RowsAreThere DEF FindOne, TypeOK, Existing
  <2>3. TypeOK'
    BY <1>0, <1>1, <2>1, <2>2 DEF FindGroup, TypeOK, tables, Syncs
  <2>4. Place(s)'
    BY <1>0, <1>1, <2>1, <2>2 DEF FindGroup, TypeOK, Place
  <2> QED  BY <2>3, <2>4
<1>2. CASE ListRoles(s)
  BY <1>0, <1>2 DEF ListRoles, TypeOK, tables, loops, Syncs, Place
<1>3. CASE FindUser(s)
  <2>1. admin \in SeededUser \cup {Null}
    BY <1>0 DEF TypeOK, Existing, SeededUser
  <2> QED  BY <1>0, <1>3, <2>1 DEF FindUser, TypeOK, tables, Syncs, Place
<1> QED  BY <1>1, <1>2, <1>3

\* Either way of SaveGroup: a group gets these roles, or keeps them, and it goes on.
SavedGroup(s, g, rows) ==
    /\ pc[s] = "saveGroup" /\ g \in Group
    /\ found[s] = Null => g \in NewGroups
    /\ found[s] # Null => g = found[s]
    /\ \/ rows = held[s] \cup listed[s]
       \/ found[s] = Null /\ rows = listed[s]
    /\ \/ groups' = [groups EXCEPT ![g] = rows] /\ admins' = admins \cup {g}
       \/ UNCHANGED <<groups, admins>> /\ found[s] # Null /\ listed[s] \subseteq held[s]
    /\ WithGroup(s, g)
    /\ UNCHANGED <<modules, roles, admin, todo, edited>>

\* Whichever case of SaveGroup it is, a group is saved with some roles.
LEMMA EachSaves ==
    ASSUME TypeOK, NEW s \in Server, Place(s), SaveGroup(s)
    PROVE  \E g, rows : SavedGroup(s, g, rows)
<1>1. CASE found[s] = Null
  <2>1. PICK g \in NewGroups : /\ groups' = [groups EXCEPT ![g] = listed[s]]
                               /\ admins' = admins \cup {g}
                               /\ WithGroup(s, g)
    BY <1>1 DEF SaveGroup
  <2>2. SavedGroup(s, g, listed[s])
    BY <1>1, <2>1 DEF SaveGroup, SavedGroup, NewGroups
  <2> QED  BY <2>2
<1>2. CASE found[s] # Null
  <2>1. /\ IF listed[s] \subseteq held[s] THEN UNCHANGED <<groups, admins>>
           ELSE /\ groups' = [groups EXCEPT ![found[s]] = held[s] \cup listed[s]]
                /\ admins' = admins \cup {found[s]}
        /\ WithGroup(s, found[s]) /\ pc[s] = "saveGroup" /\ found[s] \in Group
        /\ UNCHANGED <<modules, roles, admin, todo, edited>>
    BY <1>2 DEF SaveGroup, Place, WithMissing
  <2>2. SavedGroup(s, found[s], held[s] \cup listed[s])
    BY <1>2, <2>1 DEF SavedGroup
  <2> QED  BY <2>2
<1> QED  BY <1>1, <1>2

\* SaveGroup leaves the server with the group it saved.
LEMMA SaveGroupInv ==
    ASSUME IInv, NEW s \in Server, SaveGroup(s)
    PROVE  TypeOK' /\ Place(s)'
<1>0. TypeOK /\ Place(s) /\ AllRoleRows' = AllRoleRows
  BY DEF IInv, SaveGroup, AllRoleRows
<1>1. PICK g, rows : SavedGroup(s, g, rows)
  BY <1>0, EachSaves
<1>2. rows \in SUBSET AllRoleRows /\ rows \notin {Null, Gone}
  <2>1. rows \in SUBSET AllRoleRows
    BY <1>0, <1>1 DEF SavedGroup, TypeOK
  <2>2. AllRoleRows \subseteq RoleRow
    BY DEF AllRoleRows
  <2> QED  BY <2>1, <2>2, NullAssumption
<1>3. /\ groups' \in [Group -> (SUBSET AllRoleRows) \cup {Null, Gone}]
      /\ admins' \subseteq Existing'
      /\ admin' \in [user : User, group : Existing'] \cup {Null}
  <2>1. groups' \in [Group -> (SUBSET AllRoleRows) \cup {Null, Gone}]
    BY <1>0, <1>1, <1>2 DEF SavedGroup, TypeOK
  <2>2. /\ Existing \subseteq Existing'
        /\ groups' = [groups EXCEPT ![g] = rows] => g \in Existing'
    BY <1>0, <1>1, <1>2 DEF SavedGroup, TypeOK, Existing
  <2>3. admins' \subseteq Existing'
    BY <1>0, <1>1, <2>2 DEF SavedGroup, TypeOK
  <2>4. admin' \in [user : User, group : Existing'] \cup {Null}
    BY <1>0, <1>1, <2>2 DEF SavedGroup, TypeOK
  <2> QED  BY <2>1, <2>3, <2>4
<1>4. TypeOK'
  BY <1>0, <1>1, <1>3 DEF SavedGroup, WithGroup, TypeOK, Syncs, Serving
<1>5. Place(s)'
  BY <1>0, <1>1 DEF SavedGroup, WithGroup, TypeOK, Place
<1> QED  BY <1>4, <1>5

\* SaveUser leaves the default user in the group, and the sync at its end.
LEMMA SaveUserInv ==
    ASSUME IInv, NEW s \in Server, SaveUser(s)
    PROVE  TypeOK' /\ Place(s)'
<1>0. /\ TypeOK /\ Place(s) /\ AllRoleRows' = AllRoleRows /\ Existing' = Existing /\ Grows
      /\ UNCHANGED <<modules, roles, groups, admins, todo, edited>>
  BY DEF IInv, SaveUser, AllRoleRows, Existing, Grows
<1>1. PICK step \in {"synced", "unsynced"} :
        /\ Reset(s, step)
        /\ admin' = admin \/ admin' \in [user : User, group : Existing]
  <2>1. pc[s] = "saveUser" /\ name[s] \in SeededUser \cup {Null}
    BY <1>0 DEF SaveUser, Place
  <2>2. ASSUME NEW u \in IF name[s] = Null THEN User ELSE {name[s].user}, found[s] \in Existing
        PROVE  [user |-> u, group |-> found[s]] \in [user : User, group : Existing]
    BY <2>1, <2>2 DEF SeededUser
  <2> QED  BY <2>2 DEF SaveUser
<1> QED  BY <1>0, <1>1, ResetInv DEF TypeOK

\* A sync writes into its own part of the state only.
LEMMA OwnPartOnly ==
    ASSUME TypeOK, NEW s \in Server, Start(s) \/ SyncStep(s) \/ Abort(s) \/ Crash(s)
    PROVE  \A t \in Server \ {s} :
             /\ pc'[t] = pc[t] /\ name'[t] = name[t] /\ found'[t] = found[t]
             /\ module'[t] = module[t] /\ held'[t] = held[t] /\ listed'[t] = listed[t]
             /\ todo'[t] = todo[t] /\ edited'[t] = edited[t]
<1> USE DEF TypeOK, Reset, loops
<1>1. CASE Start(s) \/ Abort(s) \/ Crash(s)
  BY <1>1 DEF Start, Abort, Crash
<1>2. CASE FindModule(s) \/ AddModule(s) \/ FindRole(s) \/ SaveRole(s)
  BY <1>2 DEF FindModule, AddModule, FindRole, SaveRole
<1>3. CASE FindGroup(s) \/ ListRoles(s) \/ FindUser(s) \/ SaveUser(s)
  BY <1>3 DEF FindGroup, ListRoles, FindUser, SaveUser
<1>4. CASE SaveGroup(s)
  BY <1>4 DEF SaveGroup, WithGroup
<1> QED  BY <1>1, <1>2, <1>3, <1>4 DEF SyncStep

\* What administrators leave alone.
LEMMA EditsOnly ==
    ASSUME Edits
    PROVE  Edit /\ UNCHANGED <<modules, roles, pc, todo, name, module, found, held, listed>>
<1>1. Edit
  BY DEF Edits, CreateGroup, UpdateGroup, RemoveGroup, AddAdmin, MoveAdmin, DropAdmin
<1> QED  BY <1>1 DEF Edit, loops

\* Rows come, and stay.
LEMMA StepGrows ==
    ASSUME IInv, [Next]_vars
    PROVE  Grows
<1>1. CASE UNCHANGED <<modules, roles>>
  BY <1>1 DEF Grows, AllRoleRows
<1>2. ASSUME NEW s \in Server, AddModule(s) \/ SaveRole(s) PROVE Grows
  BY <1>2, AddModuleInv, SaveRoleInv
<1> QED
  BY <1>1, <1>2, EditsOnly DEF Next, SyncStep, Start, Abort, Crash, FindModule, FindRole, FindGroup, ListRoles,
     SaveGroup, FindUser, SaveUser, tables, vars

\* What administrators do to groups and the default user keeps the types.
LEMMA EditsInv ==
    ASSUME IInv, Edits
    PROVE  TypeOK'
<1>0. TypeOK /\ Edit /\ AllRoleRows' = AllRoleRows
  BY EditsOnly DEF IInv, AllRoleRows
<1>1. edited' \in [Server -> BOOLEAN]
  BY <1>0 DEF Edit
<1> DEFINE GroupsOK == /\ groups' \in [Group -> (SUBSET AllRoleRows) \cup {Null, Gone}]
                       /\ admins' \subseteq Existing'
                       /\ admin' \in [user : User, group : Existing'] \cup {Null}
<1>2. ASSUME NEW g \in Group, NEW named \in BOOLEAN, NEW rows \in SUBSET AllRoleRows,
             GroupSaved(g, named, rows)
      PROVE  GroupsOK
  <2>1. rows \notin {Null, Gone}
    BY NullAssumption DEF AllRoleRows
  <2>2. groups' \in [Group -> (SUBSET AllRoleRows) \cup {Null, Gone}]
    BY <1>0, <1>2 DEF GroupSaved, TypeOK
  <2>3. Existing' = Existing \cup {g}
    BY <1>0, <1>2, <2>1 DEF GroupSaved, TypeOK, Existing
  <2>4. admins' \subseteq Existing'
    BY <1>0, <1>2, <2>3 DEF GroupSaved, TypeOK
  <2>5. admin' \in [user : User, group : Existing'] \cup {Null}
    BY <1>0, <1>2, <2>3 DEF GroupSaved, TypeOK
  <2> QED  BY <2>2, <2>4, <2>5
<1>3. ASSUME NEW g \in Group, RemoveGroup(g) PROVE GroupsOK
  <2>1. groups' \in [Group -> (SUBSET AllRoleRows) \cup {Null, Gone}]
    BY <1>0, <1>3 DEF RemoveGroup, TypeOK
  <2>2. Existing' = Existing \ {g}
    BY <1>0, <1>3 DEF RemoveGroup, TypeOK, Existing
  <2>3. admins' \subseteq Existing'
    BY <1>0, <1>3, <2>2 DEF RemoveGroup, TypeOK
  <2>4. admin' \in [user : User, group : Existing'] \cup {Null}
    BY <1>0, <1>3, <2>2 DEF RemoveGroup, TypeOK
  <2> QED  BY <2>1, <2>3, <2>4
<1>4. ASSUME UNCHANGED <<groups, admins>>, admin' \in [user : User, group : Existing] \cup {Null}
      PROVE  GroupsOK
  BY <1>0, <1>4 DEF TypeOK, Existing
<1>5. ASSUME NEW g \in Existing, NEW u \in User, AddAdmin(u, g) PROVE GroupsOK
  BY <1>4, <1>5 DEF AddAdmin
<1>6. ASSUME NEW g \in Existing, MoveAdmin(g) PROVE GroupsOK
  BY <1>0, <1>4, <1>6 DEF MoveAdmin, TypeOK
<1>7. ASSUME DropAdmin PROVE GroupsOK
  BY <1>4, <1>7 DEF DropAdmin
<1>8. GroupsOK
  BY <1>2, <1>3, <1>5, <1>6, <1>7 DEF Edits, CreateGroup, UpdateGroup
<1> QED  BY <1>0, <1>1, <1>8, EditsOnly DEF TypeOK

\* Every step keeps the types and what is in hand.
LEMMA StepInv == IInv /\ [Next]_vars => IInv'
<1> SUFFICES ASSUME IInv, [Next]_vars PROVE IInv'
  OBVIOUS
<1>0. TypeOK /\ (\A s \in Server : Place(s)) /\ Grows
  BY StepGrows DEF IInv
<1>1. ASSUME NEW s \in Server, Start(s) \/ SyncStep(s) \/ Abort(s) \/ Crash(s) PROVE IInv'
  <2>1. TypeOK' /\ Place(s)'
    BY <1>1, RestartInv, FindModuleInv, AddModuleInv, FindRoleInv, SaveRoleInv, FindGroupInv,
       SaveGroupInv, SaveUserInv DEF SyncStep
  <2>2. \A t \in Server \ {s} : Place(t)'
    BY <1>0, <1>1, OwnPartOnly, OthersPlace
  <2> QED  BY <2>1, <2>2 DEF IInv
<1>2. CASE Edits
  <2>1. UNCHANGED <<pc, name, found, module>>
    BY <1>2, EditsOnly
  <2>2. \A t \in Server : Place(t)'
    BY <1>0, <2>1, OthersPlace
  <2> QED  BY <1>2, <2>2, EditsInv DEF IInv
<1>3. CASE UNCHANGED vars
  <2>1. TypeOK'
    BY <1>0, <1>3 DEF vars, TypeOK, AllRoleRows, Existing
  <2>2. \A t \in Server : Place(t)'
    BY <1>0, <1>3, OthersPlace DEF vars
  <2> QED  BY <2>1, <2>2 DEF IInv
<1> QED  BY <1>1, <1>2, <1>3 DEF Next

\* Any database an earlier release may have left has the types.
LEMMA InitInv == Init => IInv
<1> SUFFICES ASSUME Init PROVE IInv
  OBVIOUS
<1>1. PICK first \in Copy, M \in SUBSET ModuleName :
        \E was \in [RoleName -> M \cup {Null}] :
          /\ modules = {[name |-> m, copy |-> first] : m \in M}
          /\ roles = [row \in RoleRow |-> IF row.copy = first /\ was[row.role] # Null
                                          THEN [name |-> was[row.role], copy |-> first] ELSE Null]
  BY DEF Init
<1>2. PICK was \in [RoleName -> M \cup {Null}] :
        /\ modules = {[name |-> m, copy |-> first] : m \in M}
        /\ roles = [row \in RoleRow |-> IF row.copy = first /\ was[row.role] # Null
                                        THEN [name |-> was[row.role], copy |-> first] ELSE Null]
  BY <1>1
<1>3. modules \subseteq ModuleRow /\ roles \in [RoleRow -> modules \cup {Null}]
  BY <1>2 DEF ModuleRow, RoleRow
<1>4. /\ groups \in [Group -> (SUBSET AllRoleRows) \cup {Null, Gone}]
      /\ admins \subseteq Existing
      /\ admin \in [user : User, group : Existing] \cup {Null}
  <2>1. PICK some \in SUBSET Group :
          \E rows \in [some -> SUBSET AllRoleRows] :
            groups = [g \in Group |-> IF g \in some THEN rows[g] ELSE Null]
    BY DEF Init
  <2>2. groups \in [Group -> (SUBSET AllRoleRows) \cup {Null, Gone}]
    BY <2>1
  <2> QED  BY <2>2 DEF Init
<1>5. TypeOK
  BY <1>3, <1>4 DEF Init, TypeOK, Syncs
<1>6. \A s \in Server : Place(s)
  BY DEF Init, Place
<1> QED  BY <1>5, <1>6 DEF IInv

\* sync, and the administrators' writes beside it: groups hold roles that exist,
\* roles are in modules that exist, the seeded user is in a group that exists, and
\* each handler holds rows of the tables.
THEOREM TypeCorrect == Spec => []IInv /\ []TypeOK
<1>1. IInv => TypeOK
  BY DEF IInv
<1> QED  BY <1>1, InitInv, StepInv, PTL DEF Spec

(***************************************************************************)
(* The catalogue, whoever else writes.  Only the release before can have   *)
(* left a role in another module, and then its row is the only one, which  *)
(* every lookup finds.                                                     *)
(***************************************************************************)
Right(row) == roles[row].name = ModuleOf[row.role]

WrongIsAlone ==
    /\ \A row \in AllRoleRows : ~ Right(row) => RoleRows(row.role) = {row}
    /\ \A s \in Server : pc[s] = "saveRole" =>
         \A row \in RoleRows(name[s]) : Right(row) \/ found[s] = row

DoneModule(m) == ModuleRows(m) # {}
DoneRole(r) == RoleRows(r) # {} /\ \A row \in RoleRows(r) : Right(row)

\* The loops skip nothing: what is off the list is done, or in hand, and a role on
\* the list still has its module's turn to come.
Loops(s) ==
    /\ \A m \in ModuleName \ todo[s] : DoneModule(m) \/ (pc[s] = "addModule" /\ name[s] = m)
    /\ \A r \in RoleName \ todo[s] : DoneRole(r) \/ (pc[s] = "saveRole" /\ name[s] = r)
    /\ \A r \in todo[s] \cap RoleName :
         \/ ModuleOf[r] \in todo[s]
         \/ pc[s] = "addModule" /\ ModuleOf[r] = name[s]
         \/ pc[s] \in {"roles", "saveRole"} /\ ModuleOf[r] = module[s].name
    /\ pc[s] \in {"group", "list", "saveGroup", "user", "saveUser", "synced"} => todo[s] = {}

CatalogueInv ==
    /\ WrongIsAlone
    /\ \A s \in Server : pc[s] \in Syncs \cup {"synced"} => Loops(s)

\* SaveRole: the row it writes, and that it is in its module then.
LEMMA SavedRole ==
    ASSUME IInv, NEW s \in Server, SaveRole(s)
    PROVE  \E row \in RoleRow :
             /\ row.role = name[s]
             /\ found[s] # Null => row = found[s] /\ row \in AllRoleRows
             /\ found[s] = Null => row \notin AllRoleRows
             /\ \A r : RoleRows(r)' = RoleRows(r) \cup {row2 \in {row} : r = name[s]}
             /\ \A row2 \in RoleRow \ {row} : roles'[row2] = roles[row2]
             /\ Right(row)'
             /\ AllRoleRows' = AllRoleRows \cup {row}
<1>0. /\ TypeOK /\ module[s] \in modules /\ name[s] \in RoleName /\ module[s] # Null
      /\ ModuleOf[name[s]] = module[s].name /\ found[s] \in RoleRows(name[s]) \cup {Null}
  BY RowsAreThere DEF IInv, SaveRole, Place
<1>1. PICK row \in IF found[s] # Null THEN {found[s]}
                   ELSE {new \in RoleRow : new.role = name[s] /\ roles[new] = Null} :
        roles' = [roles EXCEPT ![row] = module[s]]
  BY DEF SaveRole
<1>2. /\ row \in RoleRow /\ row.role = name[s]
      /\ found[s] # Null => row = found[s] /\ roles[row] # Null
      /\ found[s] = Null => roles[row] = Null
  BY <1>0, <1>1 DEF RoleRows
<1>3. roles'[row] = module[s] /\ \A row2 \in RoleRow \ {row} : roles'[row2] = roles[row2]
  BY <1>0, <1>1, <1>2 DEF TypeOK
<1>4. AllRoleRows' = AllRoleRows \cup {row}
  BY <1>0, <1>2, <1>3 DEF AllRoleRows
<1>5. ASSUME NEW r PROVE RoleRows(r)' = RoleRows(r) \cup {row2 \in {row} : r = name[s]}
  BY <1>0, <1>2, <1>3 DEF RoleRows
<1> QED  BY <1>0, <1>2, <1>3, <1>4, <1>5 DEF Right, AllRoleRows

\* No step puts a role into a wrong module, or beside a row that is in one.
LEMMA StepWrong == IInv /\ WrongIsAlone /\ [Next]_vars => WrongIsAlone'
<1> SUFFICES ASSUME IInv, WrongIsAlone, [Next]_vars PROVE WrongIsAlone'
  OBVIOUS
<1>0. TypeOK /\ IInv'
  BY StepInv DEF IInv
<1>1. ASSUME NEW s \in Server, SaveRole(s) PROVE WrongIsAlone'
  <2>1. PICK row \in RoleRow :
          /\ row.role = name[s]
          /\ found[s] # Null => row = found[s] /\ row \in AllRoleRows
          /\ found[s] = Null => row \notin AllRoleRows
          /\ \A r : RoleRows(r)' = RoleRows(r) \cup {row2 \in {row} : r = name[s]}
          /\ \A row2 \in RoleRow \ {row} : roles'[row2] = roles[row2]
          /\ Right(row)'
          /\ AllRoleRows' = AllRoleRows \cup {row}
    BY <1>1, SavedRole
  <2>2. /\ pc[s] = "saveRole" /\ pc'[s] # "saveRole"
        /\ \A t \in Server \ {s} : pc'[t] = pc[t] /\ name'[t] = name[t] /\ found'[t] = found[t]
    BY <1>0, <1>1 DEF SaveRole, NextTurn, TypeOK
  <2>3. ASSUME NEW row2 \in AllRoleRows', ~ Right(row2)' PROVE RoleRows(row2.role)' = {row2}
    <3>1. row2 # row /\ row2 \in AllRoleRows /\ ~ Right(row2)
      BY <2>1, <2>3 DEF Right, AllRoleRows
    <3>2. RoleRows(row2.role) = {row2}
      BY <3>1 DEF WrongIsAlone
    <3>3. row2.role # name[s]
      <4> SUFFICES ASSUME row2.role = name[s] PROVE FALSE
        OBVIOUS
      <4>1. found[s] = row2
        BY <2>2, <3>1, <3>2 DEF WrongIsAlone
      <4>2. row2 \in RoleRow /\ row2 # Null
        BY <3>1, NullAssumption DEF AllRoleRows
      <4> QED  BY <2>1, <3>1, <4>1, <4>2
    <3> QED  BY <2>1, <3>2, <3>3
  <2>4. ASSUME NEW t \in Server, pc'[t] = "saveRole", NEW row2 \in RoleRows(name[t])'
        PROVE  Right(row2)' \/ found'[t] = row2
    <3>1. t # s /\ row2 \in RoleRows(name[t]) \cup {row} /\ pc[t] = "saveRole"
      <4>1. t # s /\ pc[t] = "saveRole" /\ name'[t] = name[t]
        BY <2>2, <2>4
      <4>2. RoleRows(name[t])' = {q \in RoleRow : q.role = name'[t] /\ roles'[q] # Null}
        BY DEF RoleRows
      <4>3. row2 \in RoleRow /\ row2.role = name[t] /\ roles'[row2] # Null
        BY <2>4, <4>1, <4>2
      <4> QED  BY <2>1, <4>1, <4>3 DEF RoleRows
    <3>2. CASE row2 = row
      BY <2>1, <3>2
    <3>3. CASE row2 # row
      <4>1. row2 \in RoleRow /\ row2 \in RoleRows(name[t])
        BY <3>1, <3>3 DEF RoleRows
      <4>2. Right(row2) \/ found[t] = row2
        BY <3>1, <4>1 DEF WrongIsAlone
      <4> QED  BY <2>1, <2>2, <3>1, <3>3, <4>1, <4>2 DEF Right
    <3> QED  BY <3>2, <3>3
  <2> QED  BY <2>3, <2>4 DEF WrongIsAlone
<1>2. ASSUME UNCHANGED roles,
             \A t \in Server : pc'[t] = "saveRole" =>
               \/ pc[t] = "saveRole" /\ name'[t] = name[t] /\ found'[t] = found[t]
               \/ found'[t] \in FindOne(RoleRows(name'[t]))
      PROVE  WrongIsAlone'
  <2>1. \A r : RoleRows(r)' = RoleRows(r)
    BY <1>2 DEF RoleRows
  <2>2. AllRoleRows' = AllRoleRows /\ \A row : Right(row)' <=> Right(row)
    BY <1>2 DEF AllRoleRows, Right
  <2>3. ASSUME NEW t \in Server, pc'[t] = "saveRole", NEW row \in RoleRows(name'[t])
        PROVE  Right(row) \/ found'[t] = row
    <3>1. CASE pc[t] = "saveRole" /\ name'[t] = name[t] /\ found'[t] = found[t]
      BY <2>3, <3>1 DEF WrongIsAlone
    <3>2. CASE found'[t] \in FindOne(RoleRows(name'[t]))
      <4>1. row \in AllRoleRows /\ row.role = name'[t]
        BY <2>3 DEF RoleRows, AllRoleRows
      <4>2. ~ Right(row) => RoleRows(name'[t]) = {row}
        BY <4>1 DEF WrongIsAlone
      <4> QED  BY <3>2, <4>2 DEF FindOne
    <3> QED  BY <1>2, <2>3, <3>1, <3>2
  <2>4. \A row \in AllRoleRows : ~ Right(row) => RoleRows(row.role) = {row}
    BY DEF WrongIsAlone
  <2> QED  BY <2>1, <2>2, <2>3, <2>4 DEF WrongIsAlone
<1>3. ASSUME NEW s \in Server, FindRole(s) PROVE WrongIsAlone'
  <2>1. PICK r \in todo[s] \cap RoleName, row \in RoleRow \cup {Null} :
          /\ row \in FindOne(RoleRows(r))
          /\ name' = [name EXCEPT ![s] = r]
          /\ found' = [found EXCEPT ![s] = row]
    BY <1>3 DEF FindRole, RoleRowsSought
  <2>2. /\ found'[s] \in FindOne(RoleRows(name'[s]))
        /\ \A t \in Server \ {s} : pc'[t] = pc[t] /\ name'[t] = name[t] /\ found'[t] = found[t]
        /\ UNCHANGED roles
    BY <1>0, <1>3, <2>1 DEF FindRole, TypeOK, tables
  <2> QED  BY <1>2, <2>2
<1>4. ASSUME NEW s \in Server,
             \/ Start(s) \/ Abort(s) \/ Crash(s) \/ FindModule(s) \/ AddModule(s)
             \/ FindGroup(s) \/ ListRoles(s) \/ SaveGroup(s) \/ FindUser(s) \/ SaveUser(s)
      PROVE  WrongIsAlone'
  <2>1. pc'[s] # "saveRole" /\ UNCHANGED roles
    BY <1>0, <1>4 DEF Start, Abort, Crash, Reset, FindModule, AddModule, FindGroup, ListRoles,
                      SaveGroup, WithGroup, FindUser, SaveUser, TypeOK, tables
  <2>2. \A t \in Server \ {s} : pc'[t] = pc[t] /\ name'[t] = name[t] /\ found'[t] = found[t]
    BY <1>0, <1>4, OwnPartOnly DEF SyncStep
  <2> QED  BY <1>2, <2>1, <2>2
<1>5. CASE Edits \/ UNCHANGED vars
  <2>1. UNCHANGED <<roles, pc, name, found>>
    BY <1>5, EditsOnly DEF vars
  <2> QED  BY <1>2, <2>1
<1> QED  BY <1>1, <1>3, <1>4, <1>5 DEF Next, SyncStep

\* What is done stays done.
LEMMA DoneStays ==
    ASSUME IInv, WrongIsAlone, [Next]_vars
    PROVE  /\ \A m : DoneModule(m) => DoneModule(m)'
           /\ \A r : DoneRole(r) => DoneRole(r)'
<1>1. ASSUME NEW m, DoneModule(m) PROVE DoneModule(m)'
  BY <1>1, StepGrows DEF DoneModule, ModuleRows, Grows
<1>2. ASSUME NEW r, DoneRole(r) PROVE DoneRole(r)'
  <2>1. ASSUME NEW s \in Server, SaveRole(s) PROVE DoneRole(r)'
    <3>1. PICK row \in RoleRow :
            /\ \A q : RoleRows(q)' = RoleRows(q) \cup {row2 \in {row} : q = name[s]}
            /\ \A row2 \in RoleRow \ {row} : roles'[row2] = roles[row2]
            /\ Right(row)'
      BY <2>1, SavedRole
    <3>2. RoleRows(r) \subseteq RoleRow
      BY DEF RoleRows
    <3> QED  BY <1>2, <3>1, <3>2 DEF DoneRole, Right
  <2>2. CASE UNCHANGED roles
    BY <1>2, <2>2 DEF DoneRole, RoleRows, Right
  <2> QED
    BY <2>1, <2>2, EditsOnly DEF Next, SyncStep, Start, Abort, Crash, FindModule, AddModule,
       FindRole, FindGroup, ListRoles, SaveGroup, FindUser, SaveUser, tables, vars
<1> QED  BY <1>1, <1>2

\* The two nested loops, at their own steps.
LEMMA OwnLoops ==
    ASSUME IInv, WrongIsAlone, [Next]_vars, NEW s \in Server, SyncStep(s), Loops(s)
    PROVE  Loops(s)'
<1>0. /\ TypeOK /\ Place(s) /\ pc[s] \in Syncs
      /\ \A m : DoneModule(m) => DoneModule(m)'
      /\ \A r : DoneRole(r) => DoneRole(r)'
  BY DoneStays DEF IInv, SyncStep, FindModule, AddModule, FindRole, SaveRole, FindGroup, ListRoles,
     SaveGroup, FindUser, SaveUser, Syncs
<1>1. CASE FindModule(s)
  <2>1. PICK m \in todo[s] \cap ModuleName, row \in ModuleRow \cup {Null} :
          /\ row \in FindOne(ModuleRows(m))
          /\ todo' = [todo EXCEPT ![s] = @ \ {m}]
          /\ name' = [name EXCEPT ![s] = IF row = Null THEN m ELSE Null]
          /\ module' = [module EXCEPT ![s] = row]
          /\ pc' = [pc EXCEPT ![s] = IF row = Null THEN "addModule" ELSE "roles"]
    BY <1>1 DEF FindModule
  <2>2. /\ todo'[s] = todo[s] \ {m} /\ module'[s] = row /\ pc[s] = "modules" /\ m \in ModuleName
        /\ row = Null => pc'[s] = "addModule" /\ name'[s] = m
        /\ row # Null => pc'[s] = "roles" /\ row \in ModuleRows(m)
        /\ m \notin RoleName
    BY <1>0, <1>1, <2>1, CatalogueAssumption DEF FindModule, TypeOK, FindOne
  <2>3. row # Null => row.name = m /\ DoneModule(m)
    BY <2>2 DEF ModuleRows, DoneModule
  <2>4. \A k \in ModuleName \ todo'[s] : DoneModule(k)' \/ (pc'[s] = "addModule" /\ name'[s] = k)
    BY <1>0, <2>2, <2>3 DEF Loops
  <2>5. \A r \in RoleName \ todo'[s] : DoneRole(r)'
    BY <1>0, <2>2 DEF Loops
  <2>6. ASSUME NEW r \in todo'[s] \cap RoleName
        PROVE  \/ ModuleOf[r] \in todo'[s]
               \/ pc'[s] = "addModule" /\ ModuleOf[r] = name'[s]
               \/ pc'[s] = "roles" /\ ModuleOf[r] = module'[s].name
    BY <2>2, <2>3, <2>6 DEF Loops
  <2> QED  BY <2>2, <2>4, <2>5, <2>6 DEF Loops
<1>2. CASE AddModule(s)
  <2>1. PICK row \in {new \in ModuleRow : new.name = name[s]} :
          /\ modules' = modules \cup {row}
          /\ module' = [module EXCEPT ![s] = row]
    BY <1>2 DEF AddModule
  <2>2. /\ pc[s] = "addModule" /\ pc'[s] = "roles" /\ todo'[s] = todo[s]
        /\ module'[s].name = name[s]
        /\ \A m : m = name[s] => DoneModule(m)'
    BY <1>0, <1>2, <2>1 DEF AddModule, TypeOK, DoneModule, ModuleRows
  <2> QED  BY <1>0, <2>2 DEF Loops
<1>3. CASE FindRole(s)
  <2>1. PICK r \in todo[s] \cap RoleName :
          /\ ModuleOf[r] = module[s].name
          /\ todo' = [todo EXCEPT ![s] = @ \ {r}]
          /\ name' = [name EXCEPT ![s] = r]
    BY <1>3 DEF FindRole
  <2>2. /\ pc[s] = "roles" /\ pc'[s] = "saveRole" /\ todo'[s] = todo[s] \ {r} /\ name'[s] = r
        /\ module' = module /\ r \in RoleName /\ r \notin ModuleName
    BY <1>0, <1>3, <2>1, CatalogueAssumption DEF FindRole, TypeOK
  <2>3. \A q \in RoleName : ModuleOf[q] \in ModuleName
    BY CatalogueAssumption
  <2> QED  BY <1>0, <2>2, <2>3 DEF Loops
<1>4. CASE SaveRole(s)
  <2>1. /\ pc[s] = "saveRole" /\ pc'[s] = NextTurn(s, todo[s]) /\ todo'[s] = todo[s]
        /\ module'[s] = module[s]
    BY <1>0, <1>4 DEF SaveRole, TypeOK
  <2>2. ASSUME NEW r, r = name[s] PROVE DoneRole(r)'
    <3>1. PICK row \in RoleRow :
            /\ found[s] # Null => row = found[s]
            /\ \A q : RoleRows(q)' = RoleRows(q) \cup {row2 \in {row} : q = name[s]}
            /\ \A row2 \in RoleRow \ {row} : roles'[row2] = roles[row2]
            /\ Right(row)'
      BY <1>4, SavedRole
    <3>2. ASSUME NEW row2 \in RoleRows(r), row2 # row PROVE Right(row2)'
      <4>1. row2 \in RoleRow /\ row2 # Null
        BY <3>2, NullAssumption DEF RoleRows
      <4>2. Right(row2) \/ found[s] = row2
        BY <2>1, <2>2, <3>2 DEF WrongIsAlone
      <4> QED  BY <3>1, <3>2, <4>1, <4>2 DEF Right
    <3>3. RoleRows(r)' = RoleRows(r) \cup {row}
      BY <2>2, <3>1
    <3> QED  BY <3>1, <3>2, <3>3 DEF DoneRole
  <2>3. \A r \in RoleName \ todo[s] : DoneRole(r)'
    BY <1>0, <2>1, <2>2 DEF Loops
  <2>4. \A m \in ModuleName \ todo[s] : DoneModule(m)'
    BY <1>0, <2>1 DEF Loops
  <2>5. ASSUME NEW r \in todo[s] \cap RoleName
        PROVE  ModuleOf[r] \in todo[s] \/ (pc'[s] = "roles" /\ ModuleOf[r] = module[s].name)
    BY <2>1, <2>5 DEF Loops, NextTurn
  <2>6. pc'[s] \in {"roles", "modules", "group"} /\ (pc'[s] = "group" => todo[s] = {})
    <3>1. ASSUME pc'[s] = "group" PROVE todo[s] = {}
      <4>1. todo[s] \cap ModuleName = {}
        BY <2>1, <3>1 DEF NextTurn
      <4>2. todo[s] \cap RoleName = {}
        BY <2>5, <3>1, <4>1, CatalogueAssumption
      <4> QED  BY <1>0, <4>1, <4>2 DEF TypeOK
    <3> QED  BY <2>1, <3>1 DEF NextTurn
  <2> QED  BY <2>1, <2>3, <2>4, <2>5, <2>6 DEF Loops
<1>5. CASE FindGroup(s) \/ ListRoles(s) \/ SaveGroup(s) \/ FindUser(s) \/ SaveUser(s)
  <2>1. pc[s] \in {"group", "list", "saveGroup", "user", "saveUser"} /\ todo' = todo
    BY <1>5 DEF FindGroup, ListRoles, SaveGroup, FindUser, SaveUser, loops
  <2>2. todo[s] = {}
    BY <2>1 DEF Loops
  <2>3. (\A m \in ModuleName : DoneModule(m)') /\ \A r \in RoleName : DoneRole(r)'
    BY <1>0, <2>1, <2>2 DEF Loops
  <2> QED  BY <2>1, <2>2, <2>3 DEF Loops
<1> QED  BY <1>1, <1>2, <1>3, <1>4, <1>5 DEF SyncStep

\* Every step keeps the loops of every sync that is going on or ended well.
LEMMA StepCatalogue == IInv /\ CatalogueInv /\ [Next]_vars => CatalogueInv'
<1> SUFFICES ASSUME IInv, CatalogueInv, [Next]_vars PROVE CatalogueInv'
  OBVIOUS
<1>0. /\ TypeOK /\ WrongIsAlone
      /\ \A m : DoneModule(m) => DoneModule(m)'
      /\ \A r : DoneRole(r) => DoneRole(r)'
  BY DoneStays DEF IInv, CatalogueInv
<1>1. ASSUME NEW t \in Server, pc[t] \in Syncs \cup {"synced"},
             pc'[t] = pc[t] /\ name'[t] = name[t] /\ module'[t] = module[t] /\ todo'[t] = todo[t]
      PROVE  Loops(t)'
  BY <1>0, <1>1 DEF CatalogueInv, Loops
<1>2. ASSUME NEW s \in Server, Start(s) \/ SyncStep(s) \/ Abort(s) \/ Crash(s),
             NEW t \in Server, pc'[t] \in Syncs \cup {"synced"}
      PROVE  Loops(t)'
  <2>1. CASE t # s
    BY <1>0, <1>1, <1>2, <2>1, OwnPartOnly
  <2>2. CASE t = s /\ SyncStep(s)
    <3>1. pc[s] \in Syncs
      BY <2>2 DEF SyncStep, FindModule, AddModule, FindRole, SaveRole, FindGroup, ListRoles,
         SaveGroup, FindUser, SaveUser, Syncs
    <3> QED  BY <1>0, <2>2, <3>1, OwnLoops DEF CatalogueInv
  <2>3. CASE t = s /\ Start(s)
    <3>1. pc'[s] = "modules" /\ todo'[s] = ModuleName \cup RoleName
      BY <1>0, <2>3 DEF Start, Reset, TypeOK
    <3> QED  BY <2>3, <3>1, CatalogueAssumption DEF Loops
  <2>4. CASE t = s /\ (Abort(s) \/ Crash(s))
    BY <1>0, <1>2, <2>4 DEF Abort, Crash, Reset, TypeOK, Syncs
  <2> QED  BY <1>2, <2>1, <2>2, <2>3, <2>4
<1>3. ASSUME UNCHANGED <<pc, name, module, todo>>, NEW t \in Server, pc'[t] \in Syncs \cup {"synced"}
      PROVE  Loops(t)'
  BY <1>1, <1>3
<1>4. Edits => UNCHANGED <<pc, name, module, todo>>
  BY EditsOnly
<1>5. \A t \in Server : pc'[t] \in Syncs \cup {"synced"} => Loops(t)'
  BY <1>2, <1>3, <1>4 DEF Next, vars
<1> QED  BY <1>0, <1>5, StepWrong DEF CatalogueInv

\* An earlier release left one row per role, and no sync is under way.
LEMMA InitCatalogue == Init => CatalogueInv
<1> SUFFICES ASSUME Init PROVE CatalogueInv
  OBVIOUS
<1>1. PICK first \in Copy, M \in SUBSET ModuleName :
        \E was \in [RoleName -> M \cup {Null}] :
          roles = [row \in RoleRow |-> IF row.copy = first /\ was[row.role] # Null
                                       THEN [name |-> was[row.role], copy |-> first] ELSE Null]
  BY DEF Init
<1>2. \A row \in AllRoleRows : row.copy = first
  BY <1>1 DEF AllRoleRows
<1>3. \A row \in AllRoleRows : RoleRows(row.role) = {row}
  BY <1>2 DEF AllRoleRows, RoleRows, RoleRow
<1> QED  BY <1>3 DEF Init, CatalogueInv, WrongIsAlone, Syncs

\* So it is in every reachable state.
LEMMA AlwaysCatalogue == Spec => []CatalogueInv
BY InitCatalogue, StepCatalogue, TypeCorrect, PTL DEF Spec

(***************************************************************************)
(* The admin group: full from the save of a sync on, until an administrator*)
(* changes it.                                                             *)
(***************************************************************************)
Names(rows) == {row.role : row \in rows}
Full(g) == g \in admins /\ Grants(g) = RoleName
AdminIsFull == admin # Null /\ Full(admin.group)

Unspoilt(s) ==
    /\ pc[s] \in {"list", "saveGroup"} /\ found[s] # Null =>
         found[s] \in admins /\ (Names(held[s]) = RoleName => Full(found[s]))
    /\ pc[s] \in {"user", "saveUser"} => Full(found[s])
    /\ pc[s] = "saveUser" => admin = name[s] \/ AdminIsFull
    /\ pc[s] = "synced" => (\E g \in Group : Full(g)) /\ (SeedAdmin => AdminIsFull)

\* Servers that start together, or administrators, but not both.
Undivided == WithEdits => \A s, t \in Server : s = t

GroupInv ==
    /\ \A s \in Server : pc[s] = "saveGroup" => Names(listed[s]) = RoleName
    /\ ~ WithEdits => \A s \in Server : ~ edited[s]
    /\ \A s \in Server : ~ edited[s] => Unspoilt(s)

\* Grants, as the names of the rows.
LEMMA GrantsNames == \A g : Grants(g) = Names(groups[g])
BY DEF Grants, Names

\* What a sync steps leaves of groups: full ones are full, none goes.
LEMMA FullStays ==
    ASSUME IInv, GroupInv, NEW s \in Server, Start(s) \/ SyncStep(s) \/ Abort(s) \/ Crash(s)
    PROVE  /\ admins \subseteq admins'
           /\ \A g : Full(g) => Full(g)'
<1>1. CASE UNCHANGED <<groups, admins>>
  BY <1>1 DEF Full, Grants
<1>2. CASE SaveGroup(s) /\ ~ UNCHANGED <<groups, admins>>
  <2>0. TypeOK /\ Place(s)
    BY DEF IInv
  <2>1. PICK g, rows : SavedGroup(s, g, rows)
    BY <1>2, <2>0, EachSaves
  <2>2. /\ g \in Group /\ groups' = [groups EXCEPT ![g] = rows] /\ admins' = admins \cup {g}
        /\ listed[s] \subseteq rows /\ rows \subseteq AllRoleRows
    BY <1>2, <2>0, <2>1 DEF SavedGroup, TypeOK
  <2>3. Names(rows) = RoleName
    <3>1. Names(listed[s]) = RoleName
      BY <2>1 DEF SavedGroup, GroupInv
    <3>2. RoleName \subseteq Names(rows)
      BY <2>2, <3>1 DEF Names
    <3>3. Names(rows) \subseteq RoleName
      BY <2>2 DEF Names, AllRoleRows, RoleRow
    <3> QED  BY <3>2, <3>3
  <2>4. admins \subseteq Group
    BY <2>0, RowsAreThere
  <2>5. \A h \in Group : groups'[h] = IF h = g THEN rows ELSE groups[h]
    BY <2>0, <2>2 DEF TypeOK
  <2>6. admins \subseteq admins'
    BY <2>2
  <2>7. ASSUME NEW h, Full(h) PROVE Full(h)'
    <3>1. h \in Group /\ h \in admins' /\ Names(groups[h]) = RoleName
      BY <2>4, <2>6, <2>7, GrantsNames DEF Full
    <3>2. Names(groups'[h]) = RoleName
      BY <2>3, <2>5, <3>1
    <3> QED  BY <3>1, <3>2 DEF Full, Grants, Names
  <2> QED  BY <2>6, <2>7
<1> QED
  BY <1>1, <1>2 DEF SyncStep, Start, Abort, Crash, FindModule, AddModule, FindRole, SaveRole,
     FindGroup, ListRoles, FindUser, SaveUser, tables

\* SaveGroup leaves a full group, the one the sync goes on with.
LEMMA SavedIsFull ==
    ASSUME IInv, GroupInv, NEW s \in Server, SaveGroup(s), ~ edited[s]
    PROVE  /\ \E g \in Group : Full(g)'
           /\ pc'[s] = IF SeedAdmin THEN "user" ELSE "synced"
           /\ \A g : pc'[s] = "user" /\ g = found'[s] => Full(g)'
<1>0. TypeOK /\ Place(s) /\ Unspoilt(s)
  BY DEF IInv, GroupInv
<1>1. PICK g, rows : SavedGroup(s, g, rows)
  BY <1>0, EachSaves
<1>2. /\ pc[s] = "saveGroup" /\ g \in Group /\ listed[s] \subseteq rows /\ rows \subseteq AllRoleRows
      /\ pc'[s] = (IF SeedAdmin THEN "user" ELSE "synced") /\ (pc'[s] = "user" => found'[s] = g)
  BY <1>0, <1>1 DEF SavedGroup, WithGroup, TypeOK
<1>3. /\ Names(listed[s]) = RoleName
      /\ \A set \in SUBSET AllRoleRows : listed[s] \subseteq set => Names(set) = RoleName
  <2>1. Names(listed[s]) = RoleName
    BY <1>2 DEF GroupInv
  <2>2. \A set \in SUBSET AllRoleRows : Names(set) \subseteq RoleName
    BY DEF Names, AllRoleRows, RoleRow
  <2>3. \A set : listed[s] \subseteq set => Names(listed[s]) \subseteq Names(set)
    BY DEF Names
  <2> QED  BY <2>1, <2>2, <2>3
<1>4. Full(g)'
  <2>1. CASE groups' = [groups EXCEPT ![g] = rows] /\ admins' = admins \cup {g}
    <3>1. groups'[g] = rows /\ g \in admins'
      BY <1>0, <1>2, <2>1 DEF TypeOK
    <3>2. Names(rows) = RoleName
      BY <1>2, <1>3
    <3> QED  BY <1>2, <3>1, <3>2 DEF Full, Grants, Names
  <2>2. CASE UNCHANGED <<groups, admins>> /\ found[s] # Null /\ listed[s] \subseteq held[s]
    <3>1. Names(held[s]) = RoleName
      BY <1>0, <1>3, <2>2 DEF TypeOK
    <3>2. g = found[s] /\ Full(found[s])
      BY <1>0, <1>1, <1>2, <2>2, <3>1 DEF SavedGroup, Unspoilt
    <3> QED  BY <2>2, <3>2 DEF Full, Grants
  <2> QED  BY <1>1, <2>1, <2>2 DEF SavedGroup
<1> QED  BY <1>2, <1>4

\* Every row that ListRoles returns, once the loops are through.
LEMMA AllListed ==
    ASSUME NEW s \in Server, Loops(s), todo[s] = {}, pc[s] \notin {"addModule", "saveRole"}
    PROVE  Names(AllRoleRows) = RoleName
<1>1. \A r \in RoleName : RoleRows(r) # {}
  BY DEF Loops, DoneRole
<1> QED  BY <1>1 DEF Names, AllRoleRows, RoleRows, RoleRow

\* A sync that no administrator disturbs keeps what it has.
LEMMA OwnUnspoilt ==
    ASSUME IInv, GroupInv, NEW s \in Server, SyncStep(s), ~ edited[s]
    PROVE  Unspoilt(s)'
<1>0. TypeOK /\ Place(s) /\ Unspoilt(s) /\ \A g : Full(g) => Full(g)'
  BY FullStays DEF IInv, GroupInv
<1>1. CASE FindModule(s) \/ AddModule(s) \/ FindRole(s) \/ SaveRole(s)
  <2>1. pc'[s] \in {"modules", "addModule", "roles", "saveRole", "group"}
    BY <1>0, <1>1 DEF FindModule, AddModule, FindRole, SaveRole, NextTurn, TypeOK
  <2> QED  BY <2>1 DEF Unspoilt
<1>2. CASE FindGroup(s)
  <2>1. PICK g \in FindOne(admins) :
          /\ found' = [found EXCEPT ![s] = g]
          /\ held' = [held EXCEPT ![s] = IF g = Null THEN {} ELSE groups[g]]
    BY <1>2 DEF FindGroup
  <2>2. /\ pc'[s] = "list" /\ found'[s] = g /\ UNCHANGED <<groups, admins>>
        /\ g # Null => g \in admins /\ held'[s] = groups[g]
    BY <1>0, <1>2, <2>1 DEF FindGroup, FindOne, TypeOK, tables
  <2> QED  BY <2>2 DEF Unspoilt, Full, Grants, Names
<1>3. CASE ListRoles(s)
  <2>1. /\ pc[s] = "list" /\ pc'[s] = "saveGroup"
        /\ UNCHANGED <<groups, admins, found, held>>
    BY <1>0, <1>3 DEF ListRoles, TypeOK, tables
  <2> QED  BY <1>0, <2>1 DEF Unspoilt, Full, Grants, Names
<1>4. CASE SaveGroup(s)
  <2>1. /\ \E g \in Group : Full(g)'
        /\ pc'[s] = IF SeedAdmin THEN "user" ELSE "synced"
        /\ \A g : pc'[s] = "user" /\ g = found'[s] => Full(g)'
    BY <1>4, SavedIsFull
  <2> QED  BY <2>1 DEF Unspoilt, Full, Grants
<1>5. CASE FindUser(s)
  <2>1. /\ pc[s] = "user" /\ pc'[s] = "saveUser" /\ name'[s] = admin
        /\ UNCHANGED <<groups, admins, found, admin>>
    BY <1>0, <1>5 DEF FindUser, TypeOK, tables
  <2> QED  BY <1>0, <2>1 DEF Unspoilt, Full, Grants
<1>6. CASE SaveUser(s)
  <2>1. /\ pc[s] = "saveUser" /\ UNCHANGED <<groups, admins>>
        /\ Full(found[s]) /\ found[s] \in Group
    BY <1>0, <1>6 DEF SaveUser, Unspoilt, Place
  <2>2. CASE pc'[s] = "synced"
    <3>1. admin' # Null /\ Full(admin'.group)
      <4>1. CASE name[s] # Null /\ name[s].group = found[s]
        <5>1. admin' = admin
          BY <1>6, <4>1 DEF SaveUser
        <5> QED  BY <1>0, <2>1, <4>1, <5>1 DEF Unspoilt, AdminIsFull
      <4>2. CASE name[s] = Null \/ name[s].group # found[s]
        <5>1. PICK u \in IF name[s] = Null THEN User ELSE {name[s].user} :
                admin' = [user |-> u, group |-> found[s]]
          BY <1>0, <1>6, <2>2, <4>2 DEF SaveUser, Reset, TypeOK
        <5>2. u \in User
          BY <1>0, <2>1 DEF Place, SeededUser
        <5>3. admin' # Null
          BY <2>1, <5>1, <5>2, NullAssumption DEF SeededUser
        <5> QED  BY <2>1, <5>1, <5>3
      <4> QED  BY <4>1, <4>2
    <3>2. AdminIsFull' /\ \E g \in Group : Full(g)'
      BY <2>1, <3>1 DEF AdminIsFull, Full, Grants
    <3> QED  BY <2>2, <3>2 DEF Unspoilt
  <2>3. CASE pc'[s] # "synced"
    <3>1. pc'[s] = "unsynced"
      BY <1>0, <1>6, <2>3 DEF SaveUser, Reset, TypeOK
    <3> QED  BY <3>1 DEF Unspoilt
  <2> QED  BY <2>2, <2>3
<1> QED  BY <1>1, <1>2, <1>3, <1>4, <1>5, <1>6 DEF SyncStep

\* Every step keeps GroupInv.  A user that another server moves goes to a full group,
\* unless administrators act while servers start together.
LEMMA StepGroups ==
    ASSUME Undivided, IInv, CatalogueInv, GroupInv, [Next]_vars
    PROVE  GroupInv'
<1>0. TypeOK /\ (\A s \in Server : Place(s)) /\ (~ WithEdits => \A s \in Server : ~ edited[s])
  BY DEF IInv, GroupInv
<1>1. ASSUME NEW s \in Server, Start(s) \/ SyncStep(s) \/ Abort(s) \/ Crash(s) PROVE GroupInv'
  <2>0. /\ admins \subseteq admins'
        /\ \A g : Full(g) => Full(g)'
        /\ \A t \in Server \ {s} :
             /\ pc'[t] = pc[t] /\ name'[t] = name[t] /\ found'[t] = found[t]
             /\ held'[t] = held[t] /\ listed'[t] = listed[t] /\ edited'[t] = edited[t]
    BY <1>0, <1>1, FullStays, OwnPartOnly
  <2>1. pc'[s] = "saveGroup" => Names(listed'[s]) = RoleName
    <3> SUFFICES ASSUME pc'[s] = "saveGroup" PROVE Names(listed'[s]) = RoleName
      OBVIOUS
    <3>1. ListRoles(s)
      BY <1>0, <1>1 DEF SyncStep, Start, Abort, Crash, Reset, FindModule, AddModule, FindRole,
         SaveRole, NextTurn, FindGroup, SaveGroup, WithGroup, FindUser, SaveUser, TypeOK
    <3>2. Loops(s) /\ pc[s] = "list"
      BY <3>1 DEF CatalogueInv, ListRoles, Syncs
    <3>3. Names(AllRoleRows) = RoleName
      BY <3>2, AllListed DEF Loops
    <3> QED  BY <1>0, <3>1, <3>3 DEF ListRoles, TypeOK
  <2>2. edited'[s] \in {edited[s], FALSE} /\ (SyncStep(s) => edited'[s] = edited[s])
    BY <1>0, <1>1 DEF SyncStep, Start, Abort, Crash, FindModule, AddModule, FindRole,
       SaveRole, FindGroup, ListRoles, SaveGroup, FindUser, SaveUser, TypeOK
  <2>3. ~ edited'[s] => Unspoilt(s)'
    <3>1. CASE SyncStep(s)
      BY <2>2, <3>1, OwnUnspoilt
    <3>2. CASE Start(s) \/ Abort(s) \/ Crash(s)
      <4>1. pc'[s] \in {"modules", "unsynced", "down"}
        BY <1>0, <3>2 DEF Start, Abort, Crash, Reset, TypeOK
      <4> QED  BY <4>1 DEF Unspoilt
    <3> QED  BY <1>1, <3>1, <3>2
  <2>4. ASSUME NEW t \in Server \ {s}, ~ edited'[t] PROVE Unspoilt(t)'
    <3>1. Unspoilt(t) /\ ~ edited[s]
      BY <1>0, <2>0, <2>4 DEF GroupInv, Undivided
    <3>2. admin' = admin \/ (admin' # Null /\ Full(admin'.group))
      <4>1. CASE SaveUser(s)
        <5>1. /\ Full(found[s]) /\ found[s] \in Group
              /\ name[s] \in SeededUser \cup {Null}
          BY <1>0, <3>1, <4>1 DEF GroupInv, Unspoilt, SaveUser, Place
        <5>2. ASSUME NEW u \in IF name[s] = Null THEN User ELSE {name[s].user}
              PROVE  [user |-> u, group |-> found[s]] # Null
          BY <5>1, NullAssumption DEF SeededUser
        <5> QED  BY <4>1, <5>1, <5>2 DEF SaveUser
      <4>2. CASE ~ SaveUser(s)
        BY <1>1, <4>2 DEF SyncStep, Start, Abort, Crash, FindModule, AddModule, FindRole,
           SaveRole, FindGroup, ListRoles, SaveGroup, FindUser, tables
      <4> QED  BY <4>1, <4>2
    <3>3. AdminIsFull \/ admin' # admin => AdminIsFull'
      <4>1. ASSUME NEW g, admin' # Null, g = admin'.group, Full(g) PROVE AdminIsFull'
        <5>1. Full(g)'
          BY <2>0, <4>1
        <5> QED  BY <4>1, <5>1 DEF AdminIsFull, Full, Grants
      <4> QED  BY <3>2, <4>1 DEF AdminIsFull
    <3>4. ASSUME NEW g, g = found[t], Full(g) PROVE Full(found[t])'
      <4>1. Full(g)' /\ found'[t] = g
        BY <2>0, <3>4
      <4> QED  BY <4>1 DEF Full, Grants
    <3> QED  BY <2>0, <3>1, <3>2, <3>3, <3>4 DEF Unspoilt, Names
  <2> QED  BY <1>0, <2>0, <2>1, <2>2, <2>3, <2>4 DEF GroupInv, Names
<1>2. CASE Edits
  <2>1. /\ WithEdits /\ UNCHANGED <<pc, listed>>
        /\ \A s \in Server : edited'[s] = (pc[s] # "down")
    BY <1>2, EditsOnly DEF Edit
  <2>2. ASSUME NEW s \in Server, ~ edited'[s] PROVE Unspoilt(s)'
    <3>1. pc'[s] = "down"
      BY <2>1, <2>2
    <3> QED  BY <3>1 DEF Unspoilt
  <2> QED  BY <2>1, <2>2 DEF GroupInv, Names
<1>3. CASE UNCHANGED vars
  BY <1>3 DEF vars, GroupInv, Unspoilt, AdminIsFull, Full, Grants, Names
<1> QED  BY <1>1, <1>2, <1>3 DEF Next

\* At the start no sync is under way, and nothing was edited behind one.
LEMMA InitGroups == Init => GroupInv
BY DEF Init, GroupInv, Unspoilt

\* sync, README's "admin group receives all roles": for every catalogue, whatever
\* the release before left, wherever servers crash or give up, and however many of
\* them start together: one whose sync ended well leaves all modules, all roles in
\* their modules, and the seeded user in a group that has them all, until an
\* administrator acts.  With administrators acting while several servers start,
\* it does not hold: see README.
THEOREM SyncedHasAll ==
    ASSUME Undivided
    PROVE  Spec => []SyncedIsComplete
<1>1. IInv /\ CatalogueInv /\ GroupInv => SyncedIsComplete
  <2> SUFFICES ASSUME IInv, CatalogueInv, GroupInv, NEW s \in Server, pc[s] = "synced", ~ edited[s]
               PROVE  Complete
    BY DEF SyncedIsComplete
  <2>1. Loops(s) /\ todo[s] = {} /\ Unspoilt(s)
    BY DEF CatalogueInv, Loops, GroupInv
  <2>2. \A m \in ModuleName : ModuleRows(m) # {}
    BY <2>1 DEF Loops, DoneModule
  <2>3. \A r \in RoleName : DoneRole(r)
    BY <2>1 DEF Loops
  <2>4. \A row \in AllRoleRows : row.role \in RoleName /\ row \in RoleRows(row.role)
    BY DEF AllRoleRows, RoleRows, RoleRow
  <2>5. (\E g \in Group : Full(g)) /\ (SeedAdmin => AdminIsFull)
    BY <2>1 DEF Unspoilt
  <2> QED  BY <2>2, <2>3, <2>4, <2>5 DEF Complete, DoneRole, Right, Full, AdminIsFull
<1>2. IInv /\ CatalogueInv /\ GroupInv /\ [Next]_vars => GroupInv'
  BY StepGroups
<1> QED  BY <1>1, <1>2, InitGroups, TypeCorrect, AlwaysCatalogue, PTL DEF Spec

(***************************************************************************)
(* A single server: nothing is there twice, and what a lookup did not find *)
(* is not there when it is inserted.                                       *)
(***************************************************************************)
OneServer == \A s, t \in Server : s = t

Single ==
    /\ \A a, b \in modules : a.name = b.name => a = b
    /\ \A a, b \in AllRoleRows : a.role = b.role => a = b

InHand(s) ==
    /\ pc[s] = "addModule" => ModuleRows(name[s]) = {}
    /\ pc[s] = "saveRole" /\ found[s] = Null => RoleRows(name[s]) = {}
    /\ pc[s] \in {"list", "saveGroup"} =>
         IF found[s] = Null THEN admins = {}
         ELSE found[s] \in admins /\ held[s] = groups[found[s]]
    /\ pc[s] = "saveGroup" => listed[s] = AllRoleRows
    /\ pc[s] \in {"user", "saveUser"} => found[s] \in admins
    /\ pc[s] = "saveUser" => name[s] = admin

SoloInv == Single /\ \A s \in Server : InHand(s)

\* The only server, at its own steps.
LEMMA OwnSolo ==
    ASSUME OneServer, IInv, SoloInv, NEW s \in Server, SyncStep(s)
    PROVE  Single' /\ InHand(s)'
<1>0. TypeOK /\ Place(s) /\ Single /\ InHand(s) /\ Null \notin admins
  BY RowsAreThere DEF IInv, SoloInv
<1>1. ASSUME UNCHANGED tables PROVE Single'
  BY <1>0, <1>1 DEF tables, Single, AllRoleRows
<1>2. CASE FindModule(s)
  <2>1. PICK m \in todo[s] \cap ModuleName, row \in ModuleRow \cup {Null} :
          /\ row \in FindOne(ModuleRows(m))
          /\ name' = [name EXCEPT ![s] = IF row = Null THEN m ELSE Null]
          /\ pc' = [pc EXCEPT ![s] = IF row = Null THEN "addModule" ELSE "roles"]
    BY <1>2 DEF FindModule
  <2>2. row = Null => ModuleRows(m) = {}
    BY <1>0, <2>1, RowsAreThere DEF FindOne, ModuleRows
  <2>3. /\ pc'[s] \in {"addModule", "roles"} /\ (pc'[s] = "addModule" => row = Null /\ name'[s] = m)
        /\ UNCHANGED tables
    BY <1>0, <1>2, <2>1 DEF FindModule, TypeOK
  <2>4. InHand(s)'
    BY <2>2, <2>3 DEF InHand, ModuleRows, tables
  <2> QED  BY <1>1, <2>3, <2>4
<1>3. CASE AddModule(s)
  <2>1. PICK row \in ModuleRow : row.name = name[s] /\ modules' = modules \cup {row}
    BY <1>3 DEF AddModule
  <2>2. ModuleRows(name[s]) = {} /\ pc'[s] = "roles" /\ UNCHANGED <<roles, groups>>
    BY <1>0, <1>3 DEF AddModule, InHand, TypeOK
  <2>3. Single'
    BY <1>0, <2>1, <2>2 DEF Single, ModuleRows, AllRoleRows
  <2> QED  BY <2>2, <2>3 DEF InHand
<1>4. CASE FindRole(s)
  <2>1. PICK r \in todo[s] \cap RoleName, row \in RoleRow \cup {Null} :
          /\ row \in FindOne(RoleRows(r))
          /\ name' = [name EXCEPT ![s] = r]
          /\ found' = [found EXCEPT ![s] = row]
    BY <1>4 DEF FindRole, RoleRowsSought
  <2>2. row = Null => RoleRows(r) = {}
    BY <2>1, NullAssumption DEF FindOne, RoleRows
  <2>3. /\ pc'[s] = "saveRole" /\ name'[s] = r /\ found'[s] = row
        /\ UNCHANGED tables
    BY <1>0, <1>4, <2>1 DEF FindRole, TypeOK
  <2>4. InHand(s)'
    BY <2>2, <2>3 DEF InHand, RoleRows, tables
  <2> QED  BY <1>1, <2>3, <2>4
<1>5. CASE SaveRole(s)
  <2>1. PICK row \in RoleRow :
          /\ row.role = name[s]
          /\ found[s] # Null => row = found[s] /\ row \in AllRoleRows
          /\ AllRoleRows' = AllRoleRows \cup {row}
    BY <1>5, SavedRole
  <2>2. pc[s] = "saveRole" /\ pc'[s] \in {"roles", "modules", "group"}
        /\ UNCHANGED <<modules, groups>>
    BY <1>0, <1>5 DEF SaveRole, NextTurn, TypeOK
  <2>3. \A a, b \in AllRoleRows' : a.role = b.role => a = b
    <3>1. CASE found[s] # Null
      BY <1>0, <2>1, <3>1 DEF Single
    <3>2. CASE found[s] = Null
      <4>1. RoleRows(name[s]) = {}
        BY <1>0, <2>2, <3>2 DEF InHand
      <4>2. \A a \in AllRoleRows : a.role # name[s]
        BY <4>1 DEF RoleRows, AllRoleRows
      <4> QED  BY <1>0, <2>1, <4>2 DEF Single
    <3> QED  BY <3>1, <3>2
  <2>4. Single'
    BY <1>0, <2>2, <2>3 DEF Single
  <2> QED  BY <2>2, <2>4 DEF InHand
<1>6. CASE FindGroup(s)
  <2>1. PICK g \in FindOne(admins) :
          /\ found' = [found EXCEPT ![s] = g]
          /\ held' = [held EXCEPT ![s] = IF g = Null THEN {} ELSE groups[g]]
    BY <1>6 DEF FindGroup
  <2>2. /\ g = Null => admins = {}
        /\ g # Null => g \in admins
    BY <1>0, <2>1 DEF FindOne
  <2>3. /\ pc'[s] = "list" /\ found'[s] = g /\ UNCHANGED tables
        /\ g # Null => held'[s] = groups[g]
    BY <1>0, <1>6, <2>1 DEF FindGroup, TypeOK
  <2>4. InHand(s)'
    BY <2>2, <2>3 DEF InHand, tables
  <2> QED  BY <1>1, <2>3, <2>4
<1>7. CASE ListRoles(s)
  <2>1. /\ pc[s] = "list" /\ pc'[s] = "saveGroup" /\ listed'[s] = AllRoleRows
        /\ UNCHANGED <<found, held>> /\ UNCHANGED tables
    BY <1>0, <1>7 DEF ListRoles, TypeOK
  <2>2. InHand(s)'
    BY <1>0, <2>1 DEF InHand, AllRoleRows, tables
  <2> QED  BY <1>1, <2>1, <2>2
<1>8. CASE SaveGroup(s)
  <2>1. PICK g, rows : SavedGroup(s, g, rows)
    BY <1>0, <1>8, EachSaves
  <2>2. /\ pc[s] = "saveGroup" /\ pc'[s] \in {"user", "synced"}
        /\ pc'[s] = "user" => found'[s] = g
        /\ UNCHANGED <<modules, roles>>
    BY <1>0, <2>1 DEF SavedGroup, WithGroup, TypeOK
  <2>3. g \in admins'
    BY <1>0, <2>1, <2>2 DEF InHand, SavedGroup
  <2>4. Single'
    BY <1>0, <2>2 DEF Single, AllRoleRows
  <2>5. InHand(s)'
    BY <2>2, <2>3 DEF InHand
  <2> QED  BY <2>4, <2>5
<1>9. CASE FindUser(s)
  <2>1. /\ pc[s] = "user" /\ pc'[s] = "saveUser" /\ found' = found /\ UNCHANGED tables
        /\ name'[s] = admin
    BY <1>0, <1>9 DEF FindUser, TypeOK
  <2>2. InHand(s)'
    BY <1>0, <2>1 DEF InHand, tables
  <2> QED  BY <1>1, <2>1, <2>2
<1>10. CASE SaveUser(s)
  <2>1. pc'[s] \in {"synced", "unsynced"} /\ UNCHANGED <<modules, roles, groups>>
    BY <1>0, <1>10 DEF SaveUser, Reset, TypeOK
  <2> QED  BY <1>0, <2>1 DEF Single, InHand, AllRoleRows
<1> QED
  BY <1>2, <1>3, <1>4, <1>5, <1>6, <1>7, <1>8, <1>9, <1>10 DEF SyncStep

\* Every step keeps SoloInv: the server syncs, or administrators act through it,
\* never both.
LEMMA StepSolo ==
    ASSUME OneServer, IInv, SoloInv, [Next]_vars
    PROVE  SoloInv'
<1>0. TypeOK /\ Single /\ \A s \in Server : InHand(s)
  BY DEF IInv, SoloInv
<1>1. ASSUME NEW s \in Server, SyncStep(s) PROVE SoloInv'
  BY <1>1, OwnSolo DEF SoloInv, OneServer
<1>2. ASSUME NEW s \in Server, Start(s) \/ Abort(s) \/ Crash(s) PROVE SoloInv'
  <2>1. Single'
    BY <1>0, <1>2 DEF Start, Abort, Crash, tables, Single, AllRoleRows
  <2>2. pc'[s] \in {"modules", "unsynced", "down"}
    BY <1>0, <1>2 DEF Start, Abort, Crash, Reset, TypeOK
  <2>3. InHand(s)'
    BY <2>2 DEF InHand
  <2> QED  BY <2>1, <2>3 DEF SoloInv, OneServer
<1>3. CASE Edits
  <2>1. /\ UNCHANGED <<modules, roles, pc>>
        /\ \A s \in Server : pc[s] \in Serving
    BY <1>3, EditsOnly DEF Edit, OneServer
  <2>2. Single'
    BY <1>0, <2>1 DEF Single, AllRoleRows
  <2>3. \A s \in Server : InHand(s)'
    BY <2>1 DEF InHand, Serving
  <2> QED  BY <2>2, <2>3 DEF SoloInv
<1>4. CASE UNCHANGED vars
  BY <1>4 DEF vars, SoloInv, Single, InHand, ModuleRows, RoleRows, AllRoleRows
<1> QED  BY <1>1, <1>2, <1>3, <1>4 DEF Next

\* An earlier release left no duplicates.
LEMMA InitSolo == Init => SoloInv
<1> SUFFICES ASSUME Init PROVE SoloInv
  OBVIOUS
<1>1. PICK first \in Copy, M \in SUBSET ModuleName :
        \E was \in [RoleName -> M \cup {Null}] :
          /\ modules = {[name |-> m, copy |-> first] : m \in M}
          /\ roles = [row \in RoleRow |-> IF row.copy = first /\ was[row.role] # Null
                                          THEN [name |-> was[row.role], copy |-> first] ELSE Null]
  BY DEF Init
<1>2. \A a, b \in modules : a.name = b.name => a = b
  BY <1>1
<1>3. \A a, b \in AllRoleRows : a.role = b.role => a = b
  BY <1>1 DEF AllRoleRows, RoleRow
<1>4. \A s \in Server : InHand(s)
  BY DEF Init, InHand
<1> QED  BY <1>2, <1>3, <1>4 DEF SoloInv, Single

\* So it is in every reachable state of a single server.
LEMMA AlwaysSolo ==
    ASSUME OneServer
    PROVE  Spec => []SoloInv
<1>1. IInv /\ SoloInv /\ [Next]_vars => SoloInv'
  BY StepSolo
<1> QED  BY <1>1, InitSolo, TypeCorrect, PTL DEF Spec

\* What one server inserts was not there.
LEMMA NewIsMissing ==
    ASSUME OneServer, IInv, SoloInv, NEW s \in Server, SyncStep(s)
    PROVE  /\ \A row \in modules' \ modules : ModuleRows(row.name) = {}
           /\ \A row \in AllRoleRows' \ AllRoleRows : RoleRows(row.role) = {}
           /\ admins' # admins => admins = {}
<1>0. TypeOK /\ Place(s) /\ Single /\ InHand(s)
  BY DEF IInv, SoloInv
<1>1. CASE AddModule(s)
  <2>1. ModuleRows(name[s]) = {} /\ UNCHANGED <<roles, admins>>
    BY <1>0, <1>1 DEF AddModule, InHand
  <2>2. PICK row \in ModuleRow : row.name = name[s] /\ modules' = modules \cup {row}
    BY <1>1 DEF AddModule
  <2> QED  BY <2>1, <2>2 DEF AllRoleRows
<1>2. CASE SaveRole(s)
  <2>1. PICK row \in RoleRow :
          /\ row.role = name[s]
          /\ found[s] # Null => row = found[s] /\ row \in AllRoleRows
          /\ AllRoleRows' = AllRoleRows \cup {row}
    BY <1>2, SavedRole
  <2>2. /\ found[s] = Null => RoleRows(name[s]) = {}
        /\ UNCHANGED <<modules, admins>>
    BY <1>0, <1>2 DEF SaveRole, InHand
  <2> QED  BY <2>1, <2>2
<1>3. CASE SaveGroup(s)
  <2>1. /\ found[s] = Null => admins = {}
        /\ found[s] # Null => admins' = admins \/ admins' = admins \cup {found[s]}
        /\ found[s] # Null => found[s] \in admins
        /\ UNCHANGED <<modules, roles>>
    BY <1>0, <1>3 DEF SaveGroup, InHand
  <2> QED  BY <2>1 DEF AllRoleRows
<1>4. ASSUME UNCHANGED <<modules, roles, admins>>
      PROVE  /\ modules' = modules /\ AllRoleRows' = AllRoleRows
             /\ admins' = admins
  BY <1>4 DEF AllRoleRows
<1> QED
  BY <1>1, <1>2, <1>3, <1>4 DEF SyncStep, FindModule, FindRole, FindGroup, ListRoles, FindUser,
     SaveUser, tables

\* sync, which looks a module, a role, the group up by name and inserts what it does
\* not find, without a unique key: one server, however often it crashes and starts
\* again, whatever catalogue it finds and whatever groups administrators made, named
\* and emptied before, inserts nothing that is there.
THEOREM NothingTwice ==
    ASSUME OneServer
    PROVE  Spec => NoDuplicates
<1>1. IInv /\ SoloInv =>
        \A s \in Server : SyncStep(s) =>
          /\ \A row \in modules' \ modules : ModuleRows(row.name) = {}
          /\ \A row \in AllRoleRows' \ AllRoleRows : RoleRows(row.role) = {}
          /\ admins' # admins => admins = {}
  BY NewIsMissing
<1> QED  BY <1>1, TypeCorrect, AlwaysSolo, PTL DEF NoDuplicates

\* On a settled catalogue a sync writes nothing.
LEMMA SettledIsKept ==
    ASSUME OneServer, IInv, SoloInv, Settled, NEW s \in Server, SyncStep(s)
    PROVE  UNCHANGED tables
<1>0. TypeOK /\ Place(s) /\ Single /\ InHand(s) /\ Complete
  BY DEF IInv, SoloInv, Settled
<1>1. CASE AddModule(s)
  BY <1>0, <1>1 DEF AddModule, Place, InHand, Complete
<1>2. CASE SaveRole(s)
  <2>1. /\ pc[s] = "saveRole" /\ name[s] \in RoleName /\ found[s] # Null
        /\ found[s] \in RoleRows(name[s]) /\ module[s] \in modules
        /\ ModuleOf[name[s]] = module[s].name
    BY <1>0, <1>2 DEF SaveRole, Place, InHand, Complete
  <2>2. /\ found[s] \in AllRoleRows /\ found[s].role = name[s]
        /\ roles[found[s]] \in modules
    BY <1>0, <2>1 DEF RoleRows, AllRoleRows, TypeOK
  <2>3. roles[found[s]].name = module[s].name
    BY <1>0, <2>1, <2>2 DEF Complete
  <2>4. roles[found[s]] = module[s]
    BY <1>0, <2>1, <2>2, <2>3 DEF Single
  <2>5. roles' = [roles EXCEPT ![found[s]] = module[s]]
    BY <1>2, <2>1 DEF SaveRole
  <2>6. roles' = roles
    BY <1>0, <2>2, <2>4, <2>5 DEF TypeOK
  <2> QED  BY <1>2, <2>6 DEF SaveRole, tables
<1>3. CASE SaveGroup(s)
  <2>1. /\ pc[s] = "saveGroup" /\ found[s] \in admins /\ held[s] = groups[found[s]]
        /\ found[s] # Null
    BY <1>0, <1>3 DEF SaveGroup, InHand, Complete
  <2>2. Grants(found[s]) = RoleName
    BY <2>1 DEF Settled
  <2>3. listed[s] \subseteq held[s]
    <3>1. held[s] \subseteq AllRoleRows /\ listed[s] \subseteq AllRoleRows
      BY <1>0 DEF TypeOK
    <3>2. ASSUME NEW row \in listed[s] PROVE row \in held[s]
      <4>1. row.role \in RoleName
        BY <3>1, <3>2 DEF AllRoleRows, RoleRow
      <4>2. PICK row2 \in groups[found[s]] : row2.role = row.role
        BY <2>2, <4>1 DEF Grants
      <4> QED  BY <1>0, <2>1, <3>1, <3>2, <4>2 DEF Single
    <3> QED  BY <3>2
  <2> QED  BY <1>3, <2>1, <2>3 DEF SaveGroup, tables
<1>4. CASE SaveUser(s)
  <2>1. /\ pc[s] = "saveUser" /\ SeedAdmin /\ name[s] = admin
        /\ found[s] \in admins
    BY <1>0, <1>4 DEF SaveUser, Place, InHand
  <2>2. admin # Null /\ admin.group = found[s]
    BY <1>0, <2>1 DEF Complete, Settled
  <2> QED  BY <1>4, <2>1, <2>2 DEF SaveUser, tables
<1>5. CASE FindModule(s) \/ FindRole(s) \/ FindGroup(s) \/ ListRoles(s) \/ FindUser(s)
  BY <1>5 DEF FindModule, FindRole, FindGroup, ListRoles, FindUser
<1> QED  BY <1>1, <1>2, <1>3, <1>4, <1>5 DEF SyncStep

\* sync, its test "is idempotent on re-run", for one server: where the catalogue is
\* complete, and every group named "admin" is full and the default user's, no step
\* writes.
THEOREM RerunWritesNothing ==
    ASSUME OneServer
    PROVE  Spec => IdempotentOnRerun
<1>1. IInv /\ SoloInv => ((\E s \in Server : SyncStep(s)) /\ Settled => UNCHANGED tables)
  BY SettledIsKept
<1> QED  BY <1>1, TypeCorrect, AlwaysSolo, PTL DEF IdempotentOnRerun
=============================================================================
