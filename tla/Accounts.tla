------------------------------ MODULE Accounts ------------------------------
(***************************************************************************)
(* Administrators and their groups: the endpoints of UsersController and   *)
(* GroupsController that write, change-password, and the two guards that   *)
(* let an administrator through to them, over the tables user, group and   *)
(* groups_roles, which the guards read and the endpoints write.            *)
(*                                                                         *)
(* One action is one database round trip with the synchronous code after   *)
(* it, and any request may fail at any await, as in FeatureFlags.  The     *)
(* queries of the pipes count as one.                                      *)
(*                                                                         *)
(* Users and groups are handled alike, so they share one table here, row,  *)
(* and one set of actions.  name and email are written as isActive is and  *)
(* left out; that an e-mail is taken can only make a statement fail, and   *)
(* any may.  A password is its salted hash, never the same twice, and is   *)
(* named by the request that set it.                                       *)
(***************************************************************************)
EXTENDS Naturals, FiniteSets

CONSTANTS
    User,           \* primary keys; never reused
    Group,
    Name,           \* names of groups: not unique
    Role,
    Required,       \* the role that @Roles asks for, by kind of request
    Request,        \* HTTP requests, each used once
    Null,
    Bodies,         \* bound: the bodies requests are sent with
    MaxInFlight     \* bound: requests being handled at the same time

Status == {"active", "inactive"}
UserRow == [password : Request \cup {Null}, status : Status, group : Group]
GroupRow == [name : Name, roles : SUBSET Role]
Entity == User \cup Group
Row == UserRow \cup GroupRow
Viewed == [row : Row, label : Name \cup {Null}]     \* a row and its group's name

\* Null, or FALSE for the password, stands for what the body leaves out.
UserBody == [password : BOOLEAN, status : Status \cup {Null}, group : Group \cup {Null}]
GroupBody == [name : Name \cup {Null}, roles : {Null} \cup SUBSET Role]
Body == UserBody \cup GroupBody

UserKinds == {"createUser", "updateUser", "removeUser"}
GroupKinds == {"createGroup", "updateGroup", "removeGroup"}
Kinds == UserKinds \cup GroupKinds \cup {"changePassword"}

ASSUME RequiredAssumption == Required \in [UserKinds \cup GroupKinds -> Role]
ASSUME BodiesAssumption == Bodies \subseteq Body
ASSUME KeysAssumption == User \cap Group = {}
ASSUME NullAssumption ==
    /\ Null \notin Row \cup Viewed \cup Entity \cup Name \cup Request
    /\ \A roles \in SUBSET Role : roles # Null

VARIABLES
    row,            \* [Entity -> Row or Null]
    signedIn,       \* users with a row in user_tokens: it outlives any request
    pc,             \* [Request -> where the handler is]
    req,            \* [Request -> what was asked: kind, actor, target, body]
    loaded,         \* [Request -> what its first query returned, or Null]
    audited,        \* requests whose record is in audit_logs
    born,           \* primary keys drawn so far
    decided,        \* history: each row as if every write had changed only
                    \* what its request named
    dirty,          \* history: rows saved over one that was no longer the one
                    \* the handler had loaded
    start,          \* history: [Request -> what was decided when it was let in]
    altered,        \* history: requests whose save an auditor would notice
    met             \* history: [Request -> requests handled at the same time]

vars == <<row, signedIn, pc, req, loaded, audited, born, decided, dirty, start,
          altered, met>>
tables == <<row, signedIn, audited, born>>
local == <<req, loaded, start, met>>
history == <<decided, dirty, altered>>

Steps == {"pipes", "insert", "load", "save", "reload", "audit", "delete"}
Ends == {"done", "rejected", "failed"}

InFlight == {r \in Request : pc[r] \in Steps}
Existing == {x \in Entity : row[x] # Null}
Members(g) == {u \in User \cap Existing : row[u].group = g}

\* What a query with its relations returns: a user comes with its group's name.
View(t, x) ==
    IF t[x] = Null THEN Null
    ELSE [row |-> t[x], label |-> IF x \in User THEN t[t[x].group].name ELSE Null]

\* computeAuditDiff sees a relation by its label, so it cannot tell groups of one
\* name apart.
Noticeable(before, after, x) ==
    IF x \in Group THEN before.row # after.row
    ELSE \/ before.label # after.label
         \/ before.row.password # after.row.password
         \/ before.row.status # after.row.status

Init ==
    /\ \E groups \in [Group -> GroupRow \cup {Null}] :
       \E users \in [User -> {u \in UserRow : u.password = Null /\ groups[u.group] # Null}
                              \cup {Null}] :
         row = [x \in Entity |-> IF x \in User THEN users[x] ELSE groups[x]]
    /\ signedIn \in SUBSET (User \cap Existing)
    /\ pc = [r \in Request |-> "idle"]
    /\ req = [r \in Request |-> [kind |-> "none", actor |-> Null, target |-> Null,
                                 body |-> Null]]
    /\ loaded = [r \in Request |-> Null]
    /\ audited = {}
    /\ born = Existing
    /\ decided = row
    /\ dirty = {}
    /\ start = [r \in Request |-> "none"]
    /\ altered = {}
    /\ met = [r \in Request |-> {}]

(***************************************************************************)
(* Arrival: TokenGuard and RolesGuard.  verifyToken loads the actor with   *)
(* its group and roles in one query, and both guards decide on that.       *)
(***************************************************************************)
\* Faulty variant: isActive is not looked at.
MayActInactive(t, u, kind) ==
    /\ t[u] # Null
    /\ kind # "changePassword" =>
         t[t[u].group] # Null /\ Required[kind] \in t[t[u].group].roles

\* t is the table as it is or as it was decided.
MayAct(t, u, kind) ==
    /\ t[u] # Null /\ t[u].status = "active"
    /\ kind # "changePassword" =>
         t[t[u].group] # Null /\ Required[kind] \in t[t[u].group].roles

\* What the administrators had decided about u; nothing if a stale save had
\* written over it.
Standing(u, kind) ==
    IF {u, row[u].group} \cap dirty # {} THEN "unknown"
    ELSE IF \/ decided[u].status = "inactive"
            \/ kind # "changePassword"
                 /\ Required[kind] \notin decided[decided[u].group].roles
         THEN "refused" ELSE "admitted"

Arrive(r, kind, u, x, body) ==
    /\ pc[r] = "idle"
    /\ Cardinality(InFlight) < MaxInFlight
    /\ u \in signedIn
    /\ req' = [req EXCEPT ![r] = [kind |-> kind, actor |-> u, target |-> x, body |-> body]]
    /\ pc' = [pc EXCEPT ![r] = IF ~ MayAct(row, u, kind) THEN "rejected"
                               ELSE IF kind = "changePassword" THEN "load" ELSE "pipes"]
    /\ start' = [start EXCEPT ![r] = Standing(u, kind)]
    /\ met' = [q \in Request |-> IF q = r THEN InFlight
                                ELSE met[q] \cup {a \in {r} : q \in InFlight}]
    /\ UNCHANGED <<tables, loaded, history>>

\* Bound: a create is sent only while a primary key is left for it.
KeysFor(kind) == (IF kind = "createUser" THEN User ELSE Group) \ born
Creating(kind) == {r \in InFlight : req[r].kind = kind /\ req[r].target = Null}

Create(r, u, body) ==
    LET kind == IF body \in UserBody THEN "createUser" ELSE "createGroup" IN
    /\ Cardinality(Creating(kind)) < Cardinality(KeysFor(kind))
    /\ IF kind = "createUser" THEN body.password /\ body.status # Null /\ body.group # Null
                              ELSE body.name # Null /\ body.roles # Null
    /\ Arrive(r, kind, u, Null, body)

Update(r, u, x, body) ==
    /\ body \in UserBody <=> x \in User
    /\ Arrive(r, IF x \in User THEN "updateUser" ELSE "updateGroup", u, x, body)

Remove(r, u, x) ==
    Arrive(r, IF x \in User THEN "removeUser" ELSE "removeGroup", u, x, Null)

ChangePassword(r, u) ==
    Arrive(r, "changePassword", u, u, [password |-> TRUE, status |-> Null, group |-> Null])

\* ObjectPipe finds the target, @Exists the group of the body.
Pipes(r) ==
    /\ pc[r] = "pipes"
    /\ pc' = [pc EXCEPT ![r] =
                IF \/ req[r].target # Null /\ row[req[r].target] = Null
                   \/ req[r].body \in UserBody /\ req[r].body.group # Null
                        /\ row[req[r].body.group] = Null
                THEN "rejected"
                ELSE IF req[r].target = Null THEN "insert" ELSE "load"]
    /\ UNCHANGED <<tables, local, history>>

Fail(r) == pc' = [pc EXCEPT ![r] = "failed"] /\ UNCHANGED <<tables, local, history>>

(***************************************************************************)
(* create.                                                                 *)
(***************************************************************************)
NewRow(r) ==
    LET b == req[r].body IN
    IF b \in UserBody THEN [password |-> r, status |-> b.status, group |-> b.group]
    ELSE [name |-> b.name, roles |-> b.roles]

\* The foreign key of the group refuses one that is gone.  The reading back for
\* the record finds the row or does without.
Insert(r) ==
    /\ pc[r] = "insert"
    /\ IF req[r].body \in UserBody => row[req[r].body.group] # Null
       THEN \E x \in KeysFor(req[r].kind) :
              /\ row' = [row EXCEPT ![x] = NewRow(r)]
              /\ decided' = [decided EXCEPT ![x] = NewRow(r)]
              /\ born' = born \cup {x}
              /\ req' = [req EXCEPT ![r] = [kind |-> @.kind, actor |-> @.actor,
                                            target |-> x, body |-> @.body]]
              /\ pc' = [pc EXCEPT ![r] = "audit"]
              /\ UNCHANGED <<signedIn, audited, loaded, start, met, dirty, altered>>
       ELSE Fail(r)

(***************************************************************************)
(* update and changePassword.                                              *)
(***************************************************************************)
\* findOneOrFail of a user; findOne of a group and of what is to be removed.
Load(r) ==
    LET x == req[r].target IN
    /\ pc[r] = "load"
    /\ IF req[r].kind \in {"updateUser", "changePassword"} /\ row[x] = Null
       THEN Fail(r)
       ELSE /\ loaded' = [loaded EXCEPT ![r] = View(row, x)]
            /\ pc' = [pc EXCEPT ![r] =
                        IF req[r].kind \notin {"removeUser", "removeGroup"} THEN "save"
                        ELSE IF row[x] = Null THEN "delete" ELSE "audit"]
            /\ UNCHANGED <<tables, req, start, met, history>>

\* Faulty variant: the body's class defines the fields it was not sent.
ChosenUndefined(new, old) == new

Chosen(new, old) == IF new = Null THEN old ELSE new

\* A row with what the body names put in its place.
Assigned(old, r) ==
    LET b == req[r].body IN
    IF b \in UserBody
    THEN [password |-> IF b.password THEN r ELSE old.password,
          status |-> Chosen(b.status, old.status), group |-> Chosen(b.group, old.group)]
    ELSE [name |-> Chosen(b.name, old.name), roles |-> Chosen(b.roles, old.roles)]

\* A statement that stores copy under x.  stale: the row is not what the copy was
\* made from.
Store(r, x, copy, stale, next) ==
    /\ row' = [row EXCEPT ![x] = copy]
    /\ decided' = [decided EXCEPT ![x] = IF @ = Null THEN Null ELSE Assigned(@, r)]
    /\ dirty' = dirty \cup {y \in {x} : stale}
    /\ altered' = altered \cup {q \in {r} : row[x] # Null /\ Noticeable(View(row, x), View(row', x), x)}
    /\ pc' = [pc EXCEPT ![r] = next]
    /\ UNCHANGED <<signedIn, audited, born, local>>

\* UsersService.update: save writes all of the loaded copy that differs from the
\* row of now, and inserts it again if the row has gone.
SaveUser(r) ==
    LET x == req[r].target
        copy == Assigned(loaded[r].row, r)
    IN
    /\ pc[r] = "save" /\ req[r].kind = "updateUser"
    /\ IF row[copy.group] # Null
       THEN Store(r, x, copy, row[x] # loaded[r].row, "reload")
       ELSE Fail(r)

\* changePassword loads no group, so save leaves the group alone, and cannot
\* insert a row without one.  Nothing is recorded.
SavePassword(r) ==
    LET x == req[r].target
        copy == [password |-> r, status |-> loaded[r].row.status, group |-> row[x].group]
    IN
    /\ pc[r] = "save" /\ req[r].kind = "changePassword"
    /\ IF row[x] # Null
       THEN Store(r, x, copy, row[x].status # loaded[r].row.status, "done")
       ELSE Fail(r)

\* Faulty variant: the roles of the body are added to those of the group.
SaveGroupAddingRoles(r) ==
    LET x == req[r].target
        b == req[r].body
        copy == IF row[x] # Null
                THEN [name |-> Chosen(b.name, row[x].name),
                      roles |-> row[x].roles \cup Chosen(b.roles, {})]
                ELSE [name |-> b.name, roles |-> Chosen(b.roles, {})]
    IN
    /\ pc[r] = "save" /\ req[r].kind = "updateGroup"
    /\ IF row[x] # Null \/ b.name # Null
       THEN Store(r, x, copy, row[x] = Null, IF loaded[r] = Null THEN "done" ELSE "reload")
       ELSE Fail(r)

\* GroupsService.update saves the body itself, so it writes what the body names
\* and nothing else.  A group that has gone is inserted again, if there is a
\* name for it, and goes unrecorded if the first query did not find it.
SaveGroup(r) ==
    LET x == req[r].target
        b == req[r].body
        copy == IF row[x] # Null THEN Assigned(row[x], r)
                ELSE [name |-> b.name, roles |-> Chosen(b.roles, {})]
    IN
    /\ pc[r] = "save" /\ req[r].kind = "updateGroup"
    /\ IF row[x] # Null \/ b.name # Null
       THEN Store(r, x, copy, row[x] = Null, IF loaded[r] = Null THEN "done" ELSE "reload")
       ELSE Fail(r)

\* Faulty variant: before is the object that Object.assign then changes.
AfterReloadAliased(r) == {"done"}

\* Where logUpdateIf leads.  A row that has gone is compared with the body's
\* copy of it, and roles come in no order, so what is unchanged may look changed.
AfterReload(r) ==
    LET x == req[r].target IN
    IF row[x] = Null THEN {"audit", "done"}
    ELSE IF Noticeable(loaded[r], View(row, x), x) THEN {"audit"}
    ELSE IF x \in Group /\ Cardinality(row[x].roles) > 1 THEN {"audit", "done"}
    ELSE {"done"}

Reload(r) ==
    /\ pc[r] = "reload"
    /\ \E next \in AfterReload(r) : pc' = [pc EXCEPT ![r] = next]
    /\ UNCHANGED <<tables, local, history>>

(***************************************************************************)
(* The record, and remove, which makes it first.                           *)
(***************************************************************************)
Audit(r) ==
    /\ pc[r] = "audit"
    /\ audited' = audited \cup {r}
    /\ pc' = [pc EXCEPT ![r] = IF req[r].kind \in {"removeUser", "removeGroup"}
                               THEN "delete" ELSE "done"]
    /\ UNCHANGED <<row, signedIn, born, local, history>>

\* Faulty variant: the users of a group go with it (ON DELETE CASCADE).
DeleteCascading(r) ==
    LET x == req[r].target IN
    /\ pc[r] = "delete"
    /\ IF x \notin signedIn
       THEN /\ row' = [y \in Entity |-> IF y = x \/ y \in Members(x) THEN Null ELSE row[y]]
            /\ decided' = [decided EXCEPT ![x] = Null]
            /\ pc' = [pc EXCEPT ![r] = "done"]
            /\ UNCHANGED <<signedIn, audited, born, local, dirty, altered>>
       ELSE Fail(r)

\* Foreign keys refuse a user with a token and a group with a user.
Delete(r) ==
    LET x == req[r].target IN
    /\ pc[r] = "delete"
    /\ IF x \notin signedIn /\ Members(x) = {}
       THEN /\ row' = [row EXCEPT ![x] = Null]
            /\ decided' = [decided EXCEPT ![x] = Null]
            /\ pc' = [pc EXCEPT ![r] = "done"]
            /\ UNCHANGED <<signedIn, audited, born, local, dirty, altered>>
       ELSE Fail(r)

Abort(r) == pc[r] \in Steps /\ Fail(r)

\* A login stores tokens that refer to the user.
SignIn(u) ==
    /\ u \notin signedIn
    /\ row[u] # Null /\ row[u].status = "active"
    /\ signedIn' = signedIn \cup {u}
    /\ UNCHANGED <<row, audited, born, pc, local, history>>

Step(r) ==
    \/ Pipes(r) \/ Insert(r) \/ Load(r)
    \/ SaveUser(r) \/ SavePassword(r) \/ SaveGroup(r)
    \/ Reload(r) \/ Audit(r) \/ Delete(r)

Next ==
    \/ \E r \in Request :
         \/ \E u \in User :
              \/ \E body \in Bodies : Create(r, u, body)
              \/ \E x \in born, body \in Bodies : Update(r, u, x, body)
              \/ \E x \in born : Remove(r, u, x)
              \/ ChangePassword(r, u)
         \/ Step(r)
         \/ Abort(r)
    \/ \E u \in User : SignIn(u)

Spec == Init /\ [][Next]_vars

(***************************************************************************)
(* Properties.                                                             *)
(***************************************************************************)
TypeOK ==
    /\ row \in [Entity -> Row \cup {Null}]
    /\ signedIn \subseteq User
    /\ pc \in [Request -> {"idle"} \cup Steps \cup Ends]
    /\ req \in [Request -> [kind : Kinds \cup {"none"}, actor : User \cup {Null},
                            target : Entity \cup {Null}, body : Body \cup {Null}]]
    /\ loaded \in [Request -> Viewed \cup {Null}]
    /\ audited \subseteq Request /\ born \subseteq Entity
    /\ decided \in [Entity -> Row \cup {Null}]
    /\ dirty \subseteq Entity
    /\ start \in [Request -> {"none", "unknown", "refused", "admitted"}]
    /\ altered \subseteq Request
    /\ met \in [Request -> SUBSET Request]

\* update, changePassword and remove: a user or group is stored with every
\* field as it was last named in a request, so that a deactivation, a move to
\* another group or a new password stays in force, and what was removed stays
\* removed.  Only a save over a row written since it was loaded can undo that.
OnlyStaleSavesUndo == \A x \in Entity \ dirty : row[x] = decided[x]

\* TokenGuard and RolesGuard: a request gets past them only if its actor was
\* active and in a group with the required role as administrators last decided,
\* unless a stale save had touched that actor or group.
ServedAsDecided ==
    \A r \in Request : pc[r] \notin {"idle", "rejected"} => start[r] # "refused"

\* UsersService.update and GroupsService.update: a save that an auditor would
\* notice is recorded once the request is acknowledged, unless another request
\* about the same row, or about groups, was handled at the same time.  Setting
\* one's own password is not recorded.
LoneChangesAreRecorded ==
    \A r \in altered :
        pc[r] = "done" /\ req[r].kind # "changePassword" =>
            \/ r \in audited
            \/ \E q \in met[r] : req[q].target = req[r].target \/ req[q].kind \in GroupKinds

\* remove: a user or group that is gone has a record of its removal, whatever
\* overlapped, failed or was inserted again.
RemovalsAreRecorded ==
    \A x \in born \ Existing :
        \E r \in audited : /\ req[r].kind \in {"removeUser", "removeGroup"}
                           /\ req[r].target = x
=============================================================================
