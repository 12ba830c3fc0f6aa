----------------------------- MODULE RolesSync -----------------------------
(***************************************************************************)
(* RolesSyncService.sync, which every server runs when it starts, over the *)
(* tables module, role, groups_roles, group and user: it brings what an    *)
(* earlier release left up to the catalogue of this one.                   *)
(*                                                                         *)
(* One action is one database round trip.  Nothing runs in a transaction   *)
(* and neither module.name nor role.role nor group.name is unique, so a    *)
(* row is a name and a copy number.  A server may crash at any point and   *)
(* be started again, and several may start at once; a sync that fails is   *)
(* logged and the server serves all the same (onModuleInit).               *)
(*                                                                         *)
(* Modules and roles are never deleted.  Of a group its roles are kept and *)
(* whether its name is "admin", of the users the one with the seeded       *)
(* e-mail, which is unique; the catalogue's order is left open.            *)
(*                                                                         *)
(* A server answers no request before its sync has ended (onModuleInit is  *)
(* awaited), so administrators act beside a sync through another server.   *)
(***************************************************************************)
EXTENDS Naturals, FiniteSets

CONSTANTS
    Server,
    ModuleName,     \* the modules of the catalogue, and its roles
    RoleName,
    ModuleOf,       \* [RoleName -> ModuleName], ModulesRolesMap upside down
    SeedAdmin,      \* FALSE when SEED_ADMIN is "false"
    Copy,           \* bound: primary keys of modules and roles, per name;
                    \* with none left nothing is inserted any more
    Group,          \* bound: primary keys of groups, likewise
    User,           \* bound: users that may come to have the seeded e-mail
    Null, Gone,     \* no row yet, row deleted
    MaxSyncing,     \* bound: servers syncing at the same time
    WithEdits       \* bound: FALSE when administrators are left out

ModuleRow == [name : ModuleName, copy : Copy]
RoleRow == [role : RoleName, copy : Copy]
SeededUser == [user : User, group : Group]

ASSUME CatalogueAssumption ==     \* every module has a role; one set, todo, holds both
    /\ ModuleOf \in [RoleName -> ModuleName]
    /\ \A m \in ModuleName : \E r \in RoleName : ModuleOf[r] = m
    /\ ModuleName \cap RoleName = {}
ASSUME NullAssumption ==
    /\ {Null, Gone} \cap (ModuleRow \cup RoleRow \cup Group \cup SeededUser) = {}
    /\ \A rows \in SUBSET RoleRow : rows \notin {Null, Gone}

VARIABLES
    modules,    \* rows of module
    roles,      \* [RoleRow -> its module's row, or Null: no such role row]
    groups,     \* [Group -> its roles, Null or Gone]
    admins,     \* the groups that are named "admin"
    admin,      \* the user with the seeded e-mail and its group, or Null
    pc,         \* [Server -> where sync is]
    todo,       \* [Server -> modules and roles the two loops have left]
    name,       \* [Server -> the module or role being looked at, the user found]
    found,      \* [Server -> the row a lookup returned, or Null]
    module,     \* [Server -> row of the module whose roles are synced]
    held,       \* [Server -> roles of the admin group, as loaded]
    listed,     \* [Server -> role rows the catalogue's names were found in]
    edited      \* history: [Server -> administrators have acted since it started]

vars == <<modules, roles, groups, admins, admin, pc, todo, name, found, module, held, listed,
          edited>>
tables == <<modules, roles, groups, admins, admin>>
loops == <<todo, name, module>>

Syncs == {"modules", "addModule", "roles", "saveRole", "group", "list", "saveGroup",
          "user", "saveUser"}
Serving == {"synced", "unsynced"}

Syncing == {s \in Server : pc[s] \in Syncs}

ModuleRows(m) == {row \in modules : row.name = m}
RoleRows(r) == {row \in RoleRow : row.role = r /\ roles[row] # Null}
AllRoleRows == {row \in RoleRow : roles[row] # Null}
Existing == {g \in Group : groups[g] \notin {Null, Gone}}
NewGroups == {g \in Group : groups[g] = Null}

\* findOne: one of the rows, in no particular order, or none.
FindOne(rows) == IF rows = {} THEN {Null} ELSE rows

\* What an earlier release and its administrators left: any part of the
\* catalogue, without duplicates, its roles in whatever module they were then,
\* and any groups.
Init ==
    /\ \E first \in Copy, M \in SUBSET ModuleName :
       \E was \in [RoleName -> M \cup {Null}] :
         LET at(m) == [name |-> m, copy |-> first] IN
         /\ modules = {at(m) : m \in M}
         /\ roles = [row \in RoleRow |-> IF row.copy = first /\ was[row.role] # Null
                                         THEN at(was[row.role]) ELSE Null]
         /\ \E some \in SUBSET Group :
            \E rows \in [some -> SUBSET AllRoleRows] :
              groups = [g \in Group |-> IF g \in some THEN rows[g] ELSE Null]
         /\ admins \in SUBSET Existing
         /\ admin \in [user : User, group : Existing] \cup {Null}
    /\ pc = [s \in Server |-> "down"]
    /\ todo = [s \in Server |-> {}]
    /\ name = [s \in Server |-> Null]
    /\ found = [s \in Server |-> Null]
    /\ module = [s \in Server |-> Null]
    /\ held = [s \in Server |-> {}]
    /\ listed = [s \in Server |-> {}]
    /\ edited = [s \in Server |-> FALSE]

(***************************************************************************)
(* A server starts, crashes, or gives up its sync.                         *)
(***************************************************************************)
Reset(s, step) ==
    /\ pc' = [pc EXCEPT ![s] = step]
    /\ name' = [name EXCEPT ![s] = Null]
    /\ found' = [found EXCEPT ![s] = Null]
    /\ module' = [module EXCEPT ![s] = Null]
    /\ held' = [held EXCEPT ![s] = {}]
    /\ listed' = [listed EXCEPT ![s] = {}]

Start(s) ==
    /\ pc[s] = "down"
    /\ Cardinality(Syncing) < MaxSyncing
    /\ Reset(s, "modules")
    /\ todo' = [todo EXCEPT ![s] = ModuleName \cup RoleName]
    /\ edited' = [edited EXCEPT ![s] = FALSE]
    /\ UNCHANGED tables

\* What sync throws, onModuleInit catches.
Abort(s) ==
    /\ s \in Syncing
    /\ Reset(s, "unsynced")
    /\ todo' = [todo EXCEPT ![s] = {}]
    /\ UNCHANGED <<tables, edited>>

Crash(s) ==
    /\ pc[s] # "down"
    /\ Reset(s, "down")
    /\ todo' = [todo EXCEPT ![s] = {}]
    /\ edited' = [edited EXCEPT ![s] = FALSE]
    /\ UNCHANGED tables

(***************************************************************************)
(* Modules and, within each, its roles.                                    *)
(***************************************************************************)
FindModule(s) ==
    /\ pc[s] = "modules"
    /\ \E m \in todo[s] \cap ModuleName, row \in ModuleRow \cup {Null} :
         /\ row \in FindOne(ModuleRows(m))
         /\ todo' = [todo EXCEPT ![s] = @ \ {m}]
         /\ name' = [name EXCEPT ![s] = IF row = Null THEN m ELSE Null]
         /\ module' = [module EXCEPT ![s] = row]
         /\ pc' = [pc EXCEPT ![s] = IF row = Null THEN "addModule" ELSE "roles"]
    /\ UNCHANGED <<tables, found, held, listed, edited>>

\* Faulty variant: the module is created and never saved.
AddModuleUnsaved(s) ==
    /\ pc[s] = "addModule"
    /\ \E row \in {new \in ModuleRow : new.name = name[s]} \ modules :
         module' = [module EXCEPT ![s] = row]
    /\ name' = [name EXCEPT ![s] = Null]
    /\ pc' = [pc EXCEPT ![s] = "roles"]
    /\ UNCHANGED <<tables, todo, found, held, listed, edited>>

AddModule(s) ==
    /\ pc[s] = "addModule"
    /\ \E row \in {new \in ModuleRow : new.name = name[s]} \ modules :
         /\ modules' = modules \cup {row}
         /\ module' = [module EXCEPT ![s] = row]
    /\ name' = [name EXCEPT ![s] = Null]
    /\ pc' = [pc EXCEPT ![s] = "roles"]
    /\ UNCHANGED <<roles, groups, admins, admin, todo, found, held, listed, edited>>

\* The two nested loops: the next role of this module, the next module, or on.
NextTurn(s, left) ==
    IF \E r \in left \cap RoleName : ModuleOf[r] = module[s].name THEN "roles"
    ELSE IF left \cap ModuleName # {} THEN "modules" ELSE "group"

\* Faulty variant: the role is looked up within its module.
RoleRowsOfModule(s, r) == {row \in RoleRows(r) : roles[row] = module[s]}

\* The lookup of a role is by its name alone.
RoleRowsSought(s, r) == RoleRows(r)

\* One turn of the inner loop.
FindRole(s) ==
    /\ pc[s] = "roles"
    /\ \E r \in todo[s] \cap RoleName, row \in RoleRow \cup {Null} :
         /\ ModuleOf[r] = module[s].name
         /\ row \in FindOne(RoleRowsSought(s, r))
         /\ todo' = [todo EXCEPT ![s] = @ \ {r}]
         /\ name' = [name EXCEPT ![s] = r]
         /\ found' = [found EXCEPT ![s] = row]
    /\ pc' = [pc EXCEPT ![s] = "saveRole"]
    /\ UNCHANGED <<tables, module, held, listed, edited>>

\* Faulty variant: the role is inserted whether it was found or not.
SaveRoleAlwaysNew(s) ==
    /\ pc[s] = "saveRole"
    /\ \E row \in {new \in RoleRow : new.role = name[s] /\ roles[new] = Null} :
         roles' = [roles EXCEPT ![row] = module[s]]
    /\ pc' = [pc EXCEPT ![s] = NextTurn(s, todo[s])]
    /\ name' = [name EXCEPT ![s] = Null]
    /\ found' = [found EXCEPT ![s] = Null]
    /\ UNCHANGED <<modules, groups, admins, admin, todo, module, held, listed, edited>>

\* findOne does not load the role's module, so a role that was found is saved
\* with this one whatever it had; save writes what differs.
SaveRole(s) ==
    /\ pc[s] = "saveRole"
    /\ \E row \in IF found[s] # Null THEN {found[s]}
                  ELSE {new \in RoleRow : new.role = name[s] /\ roles[new] = Null} :
         roles' = [roles EXCEPT ![row] = module[s]]
    /\ pc' = [pc EXCEPT ![s] = NextTurn(s, todo[s])]
    /\ name' = [name EXCEPT ![s] = Null]
    /\ found' = [found EXCEPT ![s] = Null]
    /\ UNCHANGED <<modules, groups, admins, admin, todo, module, held, listed, edited>>

(***************************************************************************)
(* The admin group.                                                        *)
(***************************************************************************)
FindGroup(s) ==
    /\ pc[s] = "group"
    /\ \E g \in FindOne(admins) :
         /\ found' = [found EXCEPT ![s] = g]
         /\ held' = [held EXCEPT ![s] = IF g = Null THEN {} ELSE groups[g]]
    /\ module' = [module EXCEPT ![s] = Null]
    /\ pc' = [pc EXCEPT ![s] = "list"]
    /\ UNCHANGED <<tables, todo, name, listed, edited>>

ListRoles(s) ==
    /\ pc[s] = "list"
    /\ listed' = [listed EXCEPT ![s] = AllRoleRows]
    /\ pc' = [pc EXCEPT ![s] = "saveGroup"]
    /\ UNCHANGED <<tables, loops, found, held, edited>>

\* On to the user with this group, unless seeding is disabled.
WithGroup(s, g) ==
    /\ pc' = [pc EXCEPT ![s] = IF SeedAdmin THEN "user" ELSE "synced"]
    /\ found' = [found EXCEPT ![s] = IF SeedAdmin THEN g ELSE Null]
    /\ held' = [held EXCEPT ![s] = {}]
    /\ listed' = [listed EXCEPT ![s] = {}]
    /\ UNCHANGED <<name, module>>

\* Faulty variant: the list is assigned the missing roles alone.
OnlyMissing(s) == listed[s] \ held[s]

WithMissing(s) == held[s] \cup listed[s]

\* Without a missing role nothing is saved.  save writes back the name that was
\* loaded, and inserts a group that was deleted since again under its key.
SaveGroup(s) ==
    /\ pc[s] = "saveGroup"
    /\ \/ /\ found[s] = Null
          /\ \E g \in NewGroups :
               /\ groups' = [groups EXCEPT ![g] = listed[s]]
               /\ admins' = admins \cup {g}
               /\ WithGroup(s, g)
       \/ /\ found[s] # Null
          /\ IF listed[s] \subseteq held[s] THEN UNCHANGED <<groups, admins>>
             ELSE /\ groups' = [groups EXCEPT ![found[s]] = WithMissing(s)]
                  /\ admins' = admins \cup {found[s]}
          /\ WithGroup(s, found[s])
    /\ UNCHANGED <<modules, roles, admin, todo, edited>>

(***************************************************************************)
(* The default user.                                                       *)
(***************************************************************************)
FindUser(s) ==
    /\ pc[s] = "user"
    /\ name' = [name EXCEPT ![s] = admin]
    /\ pc' = [pc EXCEPT ![s] = "saveUser"]
    /\ UNCHANGED <<tables, todo, module, found, held, listed, edited>>

\* A user that was found in the group is left alone.  Otherwise the user found
\* is saved, its e-mail with it, or a new one inserted; the group must still
\* exist, and the e-mail must not be another user's by now.
SaveUser(s) ==
    LET had == name[s]
        saves == had # Null => had.group # found[s]
        refused == \/ found[s] \notin Existing
                   \/ admin # Null /\ (had # Null => had.user # admin.user)
    IN
    /\ pc[s] = "saveUser"
    /\ \/ ~ saves /\ Reset(s, "synced") /\ UNCHANGED admin
       \/ saves /\ refused /\ Reset(s, "unsynced") /\ UNCHANGED admin
       \/ /\ saves /\ ~ refused /\ Reset(s, "synced")
          /\ \E u \in IF had = Null THEN User ELSE {had.user} :
               admin' = [user |-> u, group |-> found[s]]
    /\ UNCHANGED <<modules, roles, groups, admins, todo, edited>>

(***************************************************************************)
(* Administrators, through a server that serves.  A group may get any name *)
(* and any roles that exist, and names need not differ.                    *)
(***************************************************************************)
Edit ==
    /\ WithEdits
    /\ \E s \in Server : pc[s] \in Serving
    /\ edited' = [s \in Server |-> pc[s] # "down"]
    /\ UNCHANGED <<modules, roles, pc, loops, found, held, listed>>

\* A group is there with these roles, named "admin" or not.
GroupSaved(g, named, rows) ==
    /\ groups' = [groups EXCEPT ![g] = rows]
    /\ admins' = IF named THEN admins \cup {g} ELSE admins \ {g}
    /\ UNCHANGED admin

\* GroupsService.create
CreateGroup(g, named, rows) ==
    /\ g \in NewGroups
    /\ GroupSaved(g, named, rows)
    /\ Edit

\* GroupsService.update saves what the body has, and inserts a group that was
\* removed again.
UpdateGroup(g, named, rows) ==
    /\ g \notin NewGroups
    /\ GroupSaved(g, named, rows)
    /\ Edit

\* GroupsService.remove, refused while a user is in the group.
RemoveGroup(g) ==
    /\ g \in Existing
    /\ admin # Null => admin.group # g
    /\ groups' = [groups EXCEPT ![g] = Gone]
    /\ admins' = admins \ {g}
    /\ UNCHANGED admin
    /\ Edit

\* UsersService.create, or update of a user to the seeded e-mail.
AddAdmin(u, g) ==
    /\ admin = Null
    /\ admin' = [user |-> u, group |-> g]
    /\ UNCHANGED <<groups, admins>>
    /\ Edit

\* UsersService.update of the seeded user to another group.
MoveAdmin(g) ==
    /\ admin # Null
    /\ admin' = [admin EXCEPT !.group = g]
    /\ UNCHANGED <<groups, admins>>
    /\ Edit

\* UsersService.remove of the seeded user, or update to another e-mail.
DropAdmin ==
    /\ admin # Null
    /\ admin' = Null
    /\ UNCHANGED <<groups, admins>>
    /\ Edit

Edits ==
    \/ \E g \in Group, named \in BOOLEAN, rows \in SUBSET AllRoleRows :
         CreateGroup(g, named, rows) \/ UpdateGroup(g, named, rows)
    \/ \E g \in Group : RemoveGroup(g)
    \/ \E g \in Existing, u \in User : AddAdmin(u, g)
    \/ \E g \in Existing : MoveAdmin(g)
    \/ DropAdmin

SyncStep(s) ==
    \/ FindModule(s) \/ AddModule(s) \/ FindRole(s) \/ SaveRole(s)
    \/ FindGroup(s) \/ ListRoles(s) \/ SaveGroup(s)
    \/ FindUser(s) \/ SaveUser(s)

Next ==
    \/ \E s \in Server : Start(s) \/ SyncStep(s) \/ Abort(s) \/ Crash(s)
    \/ Edits

Spec == Init /\ [][Next]_vars

(***************************************************************************)
(* Properties.                                                             *)
(***************************************************************************)
TypeOK ==
    /\ modules \subseteq ModuleRow
    /\ roles \in [RoleRow -> modules \cup {Null}]
    /\ groups \in [Group -> (SUBSET AllRoleRows) \cup {Null, Gone}]
    /\ admins \subseteq Existing
    /\ admin \in [user : User, group : Existing] \cup {Null}
    /\ pc \in [Server -> Syncs \cup Serving \cup {"down"}]
    /\ todo \in [Server -> SUBSET (ModuleName \cup RoleName)]
    /\ name \in [Server -> ModuleName \cup RoleName \cup SeededUser \cup {Null}]
    /\ found \in [Server -> AllRoleRows \cup Group \cup {Null}]
    /\ module \in [Server -> modules \cup {Null}]
    /\ held \in [Server -> SUBSET AllRoleRows]
    /\ listed \in [Server -> SUBSET AllRoleRows]
    /\ edited \in [Server -> BOOLEAN]

\* The roles a user of group g has, by name (User.roles()).
Grants(g) == {row.role : row \in groups[g]}

\* What sync is for: every module and role of the catalogue exists, each role
\* in its module, and the seeded user is in an admin group that has them all.
Complete ==
    /\ \A m \in ModuleName : ModuleRows(m) # {}
    /\ \A r \in RoleName : RoleRows(r) # {}
    /\ \A row \in AllRoleRows : roles[row].name = ModuleOf[row.role]
    /\ \E g \in admins : Grants(g) = RoleName
    /\ SeedAdmin => /\ admin # Null /\ admin.group \in admins
                    /\ Grants(admin.group) = RoleName

\* sync, README.md's "admin group receives all roles": a server whose sync
\* ended well leaves the catalogue complete, whatever the release before, the
\* crashes and the servers starting beside it left, until administrators act.
SyncedIsComplete == \A s \in Server : pc[s] = "synced" /\ ~ edited[s] => Complete

\* sync: however often a single server is started, crashes half way or fails,
\* and whatever groups administrators made before, it inserts no module and no
\* role that is there, and names no group "admin" while one is.
NoDuplicates ==
    [][\A s \in Server : SyncStep(s) =>
         /\ \A row \in modules' \ modules : ModuleRows(row.name) = {}
         /\ \A row \in AllRoleRows' \ AllRoleRows : RoleRows(row.role) = {}
         /\ admins' # admins => admins = {}]_vars

\* Complete, and findOne can return no other "admin" group than one that is full
\* and, where the user is seeded, the user's.
Settled ==
    /\ Complete
    /\ \A g \in admins : Grants(g) = RoleName
    /\ SeedAdmin => admins = {admin.group}

\* sync, the test "is idempotent on re-run": on a complete catalogue without a
\* second "admin" group that lacks roles, or that the default user is not in, it
\* writes nothing.
IdempotentOnRerun ==
    [][(\E s \in Server : SyncStep(s)) /\ Settled => UNCHANGED tables]_vars
=============================================================================
