---------------------------- MODULE FeatureFlags ----------------------------
(***************************************************************************)
(* The admin endpoints that write feature flags: create, update, toggle    *)
(* (PATCH :id/environments/:environmentId) and remove, over the tables     *)
(* feature_flag, feature_flag_environment_value and the link table         *)
(* feature_flags_projects, while projects and environments go, and         *)
(* environments are given other names.                                     *)
(*                                                                         *)
(* As in AuthSessions, one action is one database round trip with the      *)
(* synchronous code after it, and any request may fail at any await.  Two  *)
(* reads in a row count as one when no step between them can tell.         *)
(*                                                                         *)
(* A flag with its links and values is one row here.  Its scalar columns   *)
(* (name, code, expiresAt) are written alike and stand as one, the code,   *)
(* which is unique besides.  What save does is TypeORM's, modelled from    *)
(* the entities: in a transaction it compares the object in memory with    *)
(* the row as it is now and writes all that differs, relations included.   *)
(***************************************************************************)
EXTENDS Naturals, FiniteSets, Functions

CONSTANTS
    Flag,           \* primary keys; never reused
    Project,
    Environment,
    Title,          \* the names of environments, which need not differ
    Code,
    Request,        \* HTTP requests, each used once
    Null,
    Bodies,         \* bound: the bodies requests are sent with
    MaxInFlight     \* bound: requests being handled at the same time

Value == {"none", "off", "on"}      \* no row for the environment, or its enabled
Row == [code : Code, projects : SUBSET Project, values : [Environment -> Value]]

\* What a body may name.  Null, no project and "none" stand for what it leaves
\* out: the project list of a body has at least one member.
Dto == [code : Code \cup {Null}, projects : SUBSET Project, values : [Environment -> Value]]

ASSUME BodiesAssumption == Bodies \subseteq Dto
ASSUME EnvironmentAssumption == IsFiniteSet(Environment)
ASSUME NullAssumption == Null \notin Row /\ Null \notin Code /\ Null \notin Flag

VARIABLES
    projects,       \* rows of the project table
    environments,   \* rows of the environment table
    flag,           \* [Flag -> Row or Null]
    pc,             \* [Request -> where the handler is]
    req,            \* [Request -> what was asked: kind, flag, dto]
    loaded,         \* [Request -> the row its first query returned, or Null]
    shown,          \* [Request -> the names of environments it returned]
    found,          \* [Request -> the projects resolveProjects returned]
    todo,           \* [Request -> environments syncEnvironmentValues has left]
    entry,          \* [Request -> the environment being written, and its value
                    \*             as the handler read it]
    audited,        \* requests whose record is in audit_logs
    born,           \* primary keys drawn so far
    decided,        \* history: each flag as if every write had changed only
                    \* what its request named
    dirty,          \* history: flags saved over a row that was no longer the
                    \* one the handler had loaded
    written,        \* history: [Request -> environments it wrote a value for]
    flipped,        \* history: requests that switched some environment
    renamed,        \* history: updates whose second query returned other names
    met             \* history: [Request -> requests handled at the same time]

vars == <<projects, environments, flag, pc, req, loaded, shown, found, todo, entry, audited,
          born, decided, dirty, written, flipped, renamed, met>>
tables == <<projects, environments, flag, audited, born>>
local == <<req, loaded, shown, found, todo, entry>>
history == <<decided, dirty, written, flipped, renamed, met>>

Steps == {"load", "resolve", "insert", "save", "sync", "reload", "toggle", "audit", "delete"}
Ends == {"done", "failed"}
Kinds == {"create", "update", "toggle", "remove"}

InFlight == {r \in Request : pc[r] \in Steps}
Existing == {f \in Flag : flag[f] # Null}
Named(values) == {e \in Environment : values[e] # "none"}

\* Foreign keys: links are dropped with their project, values block the removal
\* of their environment.
Refers(row) == row.projects \subseteq projects /\ Named(row.values) \subseteq environments

\* The unique constraint on code.
CodeFree(code, f) == \A g \in Existing \ {f} : flag[g].code # code

Blank == [code |-> Null, projects |-> {}, values |-> [e \in Environment |-> "none"]]

SetValue(row, e, value) ==
    [code |-> row.code, projects |-> row.projects,
     values |-> [row.values EXCEPT ![e] = value]]

\* What r's body asks of a flag: the fields it names, and of the projects it
\* names those that exist.
Requested(row, r) ==
    [code |-> IF req[r].dto.code = Null THEN row.code ELSE req[r].dto.code,
     projects |-> IF req[r].dto.projects = {} THEN row.projects
                  ELSE req[r].dto.projects \cap projects,
     values |-> row.values]

\* Flags, projects and environments that earlier requests left.
Init ==
    /\ projects = Project
    /\ environments = Environment
    /\ flag \in [Flag -> Row \cup {Null}]
    /\ \A f \in Existing : CodeFree(flag[f].code, f)
    /\ born = Existing
    /\ pc = [r \in Request |-> "idle"]
    /\ req = [r \in Request |-> [kind |-> "none", flag |-> Null, dto |-> Blank]]
    /\ loaded = [r \in Request |-> Null]
    /\ shown = [r \in Request |-> [e \in Environment |-> Null]]
    /\ found = [r \in Request |-> {}]
    /\ todo = [r \in Request |-> {}]
    /\ entry = [r \in Request |-> Null]
    /\ audited = {}
    /\ decided = flag
    /\ dirty = {}
    /\ written = [r \in Request |-> {}]
    /\ flipped = {}
    /\ renamed = {}
    /\ met = [r \in Request |-> {}]

(***************************************************************************)
(* Arrival, after ObjectPipe (the flag exists) and BodyValidationPipe (the *)
(* code is free, projects and environments exist).  What they refuse       *)
(* changes nothing and is left out.                                        *)
(***************************************************************************)
Valid(dto, f) ==
    /\ dto.code # Null => CodeFree(dto.code, f)
    /\ dto.projects \subseteq projects
    /\ Named(dto.values) \subseteq environments

Arrive(r, kind, f, dto, step) ==
    /\ pc[r] = "idle"
    /\ Cardinality(InFlight) < MaxInFlight
    /\ Valid(dto, f)
    /\ req' = [req EXCEPT ![r] = [kind |-> kind, flag |-> f, dto |-> dto]]
    /\ pc' = [pc EXCEPT ![r] = step]
    /\ met' = [q \in Request |-> IF q = r THEN InFlight
                                ELSE met[q] \cup {a \in {r} : q \in InFlight}]
    /\ UNCHANGED <<tables, loaded, shown, found, todo, entry, decided, dirty, written, flipped, renamed>>

\* Bound: a create is sent only while a primary key is left for it.
Creating == {r \in InFlight : req[r].kind = "create" /\ req[r].flag = Null}

Create(r, dto) ==
    /\ Cardinality(born) + Cardinality(Creating) < Cardinality(Flag)
    /\ dto.code # Null /\ dto.projects # {}
    /\ Arrive(r, "create", Null, dto, "resolve")

Update(r, f, dto) == f \in Existing /\ Arrive(r, "update", f, dto, "load")

Toggle(r, f, e, value) ==
    /\ f \in Existing
    /\ Arrive(r, "toggle", f, SetValue(Blank, e, value), "toggle")

Remove(r, f) == f \in Existing /\ Arrive(r, "remove", f, Blank, "load")

Fail(r) == pc' = [pc EXCEPT ![r] = "failed"] /\ UNCHANGED <<tables, local, history>>

(***************************************************************************)
(* create and update.                                                      *)
(***************************************************************************)
\* EnvironmentsService.update gives any environment any name at any time, so one
\* query's names say nothing of the next one's.
Names(r) ==
    \E names \in [Environment -> Title] :
        shown' = [shown EXCEPT ![r] = IF req[r].kind = "update" THEN names ELSE @]

\* Faulty variant: the condition on which remove records is the wrong way round.
LoadInvertingRecord(r) ==
    LET f == req[r].flag IN
    /\ pc[r] = "load"
    /\ IF req[r].kind = "update" /\ flag[f] = Null
       THEN Fail(r)
       ELSE /\ loaded' = [loaded EXCEPT ![r] = flag[f]]
            /\ pc' = [pc EXCEPT ![r] =
                        IF req[r].kind = "remove"
                        THEN IF flag[f] = Null THEN "audit" ELSE "delete"
                        ELSE IF req[r].dto.projects = {} THEN "save" ELSE "resolve"]
            /\ Names(r)
            /\ UNCHANGED <<tables, req, found, todo, entry, history>>

\* findOneOrFail of update, findOne of remove, which goes on without a row and
\* then has nothing to record.
Load(r) ==
    LET f == req[r].flag IN
    /\ pc[r] = "load"
    /\ IF req[r].kind = "update" /\ flag[f] = Null
       THEN Fail(r)
       ELSE /\ loaded' = [loaded EXCEPT ![r] = flag[f]]
            /\ pc' = [pc EXCEPT ![r] =
                        IF req[r].kind = "remove"
                        THEN IF flag[f] = Null THEN "delete" ELSE "audit"
                        ELSE IF req[r].dto.projects = {} THEN "save" ELSE "resolve"]
            /\ Names(r)
            /\ UNCHANGED <<tables, req, found, todo, entry, history>>

\* findBy(In(ids)) returns those that are still there, and nobody counts them.
ResolveProjects(r) ==
    /\ pc[r] = "resolve"
    /\ found' = [found EXCEPT ![r] = req[r].dto.projects \cap projects]
    /\ pc' = [pc EXCEPT ![r] = IF req[r].kind = "create" THEN "insert" ELSE "save"]
    /\ UNCHANGED <<tables, req, loaded, shown, todo, entry, history>>

\* The handler goes on to syncEnvironmentValues: with nothing to write it
\* returns at once.
ThenSync(r) ==
    /\ todo' = [todo EXCEPT ![r] = Named(req[r].dto.values)]
    /\ pc' = [pc EXCEPT ![r] = IF Named(req[r].dto.values) = {} THEN "reload" ELSE "sync"]

InsertFlag(r) ==
    LET row == [code |-> req[r].dto.code, projects |-> found[r],
                values |-> [e \in Environment |-> "none"]] IN
    /\ pc[r] = "insert"
    /\ IF Refers(row) /\ CodeFree(row.code, Null)
       THEN \E f \in Flag \ born :
              /\ flag' = [flag EXCEPT ![f] = row]
              /\ decided' = [decided EXCEPT ![f] = Requested(Blank, r)]
              /\ born' = born \cup {f}
              /\ req' = [req EXCEPT ![r] = [kind |-> "create", flag |-> f, dto |-> req[r].dto]]
              /\ ThenSync(r)
              /\ UNCHANGED <<projects, environments, audited, loaded, shown, found, entry,
                             dirty, written, flipped, renamed, met>>
       ELSE Fail(r)

\* Faulty variant: a field the body leaves out is assigned all the same.
AssignedUndefined(row, r) ==
    [code |-> req[r].dto.code, projects |-> found[r], values |-> row.values]

\* Object.assign and the projects of the body, over a flag in memory.
Assigned(row, r) ==
    [code |-> IF req[r].dto.code = Null THEN row.code ELSE req[r].dto.code,
     projects |-> IF req[r].dto.projects = {} THEN row.projects ELSE found[r],
     values |-> row.values]

\* save compares the loaded copy, changed by the body, with the row of now.
\* A value the copy does not know of would lose its flag (an orphan is nulled,
\* the column is NOT NULL): the save fails.  A row that is gone is inserted
\* again, with its links and values.
Save(r) ==
    LET f == req[r].flag
        copy == Assigned(loaded[r], r)
    IN
    /\ pc[r] = "save"
    /\ IF /\ Refers(copy) /\ CodeFree(copy.code, f)
          /\ flag[f] # Null => Named(flag[f].values) \subseteq Named(copy.values)
       THEN /\ flag' = [flag EXCEPT ![f] = copy]
            /\ decided' = [decided EXCEPT ![f] = IF @ = Null THEN @ ELSE Requested(@, r)]
            /\ dirty' = dirty \cup {g \in {f} : flag[f] # loaded[r]}
            /\ ThenSync(r)
            /\ UNCHANGED <<projects, environments, audited, born, req, loaded, shown, found,
                           entry, written, flipped, renamed, met>>
       ELSE Fail(r)

(***************************************************************************)
(* The value of one environment: syncEnvironmentValues for each it was     *)
(* given, updateEnvironmentValue for its one.  Both look the row up and    *)
(* then save it; the row's unique key is the pair of flag and environment. *)
(***************************************************************************)
CurrentValue(f, e) == IF flag[f] = Null THEN "none" ELSE flag[f].values[e]

\* A row that was found is updated if it is still there; gone, it would be
\* inserted without its flag, which the findOne did not load.  A new row needs
\* its flag and its environment to exist and the pair to be free.
MayWrite(f, e, old) ==
    IF old # "none" THEN CurrentValue(f, e) # "none"
    ELSE flag[f] # Null /\ e \in environments /\ CurrentValue(f, e) = "none"

\* Faulty variant: the lookup forgets the environment and any value will do.
WriteAnyValue(r, f, e, value) ==
    /\ \E g \in Named(flag[f].values) \cup {e} :
         flag' = [flag EXCEPT ![f] = SetValue(@, g, value)]
    /\ decided' = [decided EXCEPT ![f] = IF @ = Null THEN @ ELSE SetValue(@, e, value)]
    /\ written' = [written EXCEPT ![r] = @ \cup {e}]
    /\ UNCHANGED <<dirty, flipped, renamed, met>>

WriteValue(r, f, e, value) ==
    /\ flag' = [flag EXCEPT ![f] = SetValue(@, e, value)]
    /\ decided' = [decided EXCEPT ![f] = IF @ = Null THEN @ ELSE SetValue(@, e, value)]
    /\ written' = [written EXCEPT ![r] = @ \cup {e}]
    /\ flipped' = flipped \cup {q \in {r} : (CurrentValue(f, e) = "on") # (value = "on")}
    /\ UNCHANGED <<dirty, renamed, met>>

\* One turn of the loop over the values of the body.
SyncFind(r) ==
    /\ pc[r] = "sync" /\ entry[r] = Null
    /\ \E e \in todo[r] :
         IF e \in environments
         THEN /\ entry' = [entry EXCEPT ![r] = [env |-> e, old |-> CurrentValue(req[r].flag, e)]]
              /\ UNCHANGED <<tables, pc, req, loaded, shown, found, todo, history>>
         ELSE Fail(r)

\* Faulty variant: the loop returns after its first value.
SyncSaveFirstOnly(r) ==
    /\ pc[r] = "sync" /\ entry[r] # Null
    /\ IF MayWrite(req[r].flag, entry[r].env, entry[r].old)
       THEN /\ WriteValue(r, req[r].flag, entry[r].env, req[r].dto.values[entry[r].env])
            /\ entry' = [entry EXCEPT ![r] = Null]
            /\ todo' = [todo EXCEPT ![r] = {}]
            /\ pc' = [pc EXCEPT ![r] = "reload"]
            /\ UNCHANGED <<projects, environments, audited, born, req, loaded, shown, found>>
       ELSE Fail(r)

SyncSave(r) ==
    LET f == req[r].flag
        e == entry[r].env
    IN
    /\ pc[r] = "sync" /\ entry[r] # Null
    /\ IF MayWrite(f, e, entry[r].old)
       THEN /\ WriteValue(r, f, e, req[r].dto.values[e])
            /\ entry' = [entry EXCEPT ![r] = Null]
            /\ todo' = [todo EXCEPT ![r] = @ \ {e}]
            /\ pc' = [pc EXCEPT ![r] = IF todo[r] = {e} THEN "reload" ELSE @]
            /\ UNCHANGED <<projects, environments, audited, born, req, loaded, shown, found>>
       ELSE Fail(r)

\* computeAuditDiff tells values apart by what it prints of them, sorted: the name
\* of the environment, and whether it is enabled.
LookAlike(old, oldTitle, new, newTitle) ==
    \E m \in Bijection(Named(old), Named(new)) :
        \A e \in Named(old) : oldTitle[e] = newTitle[m[e]] /\ old[e] = new[m[e]]

\* No difference to be seen between two rows.  Of projects their number is seen
\* for sure: the names they have, and in which order, is left open.
MayLookAlike(old, oldTitle, new, newTitle) ==
    /\ old # Null
    /\ old.code = new.code
    /\ Cardinality(old.projects) = Cardinality(new.projects)
    /\ LookAlike(old.values, oldTitle, new.values, newTitle)

\* findOne after the writes; an update that sees no difference to the flag as it
\* was before has nothing to record.
Reload(r) ==
    LET now == flag[req[r].flag] IN
    /\ pc[r] = "reload"
    /\ IF now = Null
       THEN Fail(r)
       ELSE /\ \/ pc' = [pc EXCEPT ![r] = "audit"] /\ renamed' = renamed
               \/ \E names \in [Environment -> Title] :
                    /\ MayLookAlike(loaded[r], shown[r], now, names)
                    /\ pc' = [pc EXCEPT ![r] = "done"]
                    /\ renamed' = renamed \cup {q \in {r} : names # shown[r]}
            /\ UNCHANGED <<tables, local, decided, dirty, written, flipped, met>>

\* updateEnvironmentValue: flag, environment and value are read ...
ToggleFind(r) ==
    LET f == req[r].flag IN
    /\ pc[r] = "toggle" /\ entry[r] = Null
    /\ \E e \in Named(req[r].dto.values) :
         IF flag[f] # Null /\ e \in environments
         THEN /\ entry' = [entry EXCEPT ![r] = [env |-> e, old |-> CurrentValue(f, e)]]
              /\ UNCHANGED <<tables, pc, req, loaded, shown, found, todo, history>>
         ELSE Fail(r)

\* Faulty variant: the record is compared after the value was assigned.
ToggleSaveUncompared(r) ==
    /\ pc[r] = "toggle" /\ entry[r] # Null
    /\ IF MayWrite(req[r].flag, entry[r].env, entry[r].old)
       THEN /\ WriteValue(r, req[r].flag, entry[r].env, req[r].dto.values[entry[r].env])
            /\ pc' = [pc EXCEPT ![r] = "done"]
            /\ UNCHANGED <<projects, environments, audited, born, local>>
       ELSE Fail(r)

\* ... and the value is saved.  The record compares what was read with what was
\* asked for; no row reads as disabled.
ToggleSave(r) ==
    LET f == req[r].flag
        e == entry[r].env
        value == req[r].dto.values[e]
    IN
    /\ pc[r] = "toggle" /\ entry[r] # Null
    /\ IF MayWrite(f, e, entry[r].old)
       THEN /\ WriteValue(r, f, e, value)
            /\ pc' = [pc EXCEPT ![r] = IF (entry[r].old = "on") = (value = "on")
                                       THEN "done" ELSE "audit"]
            /\ UNCHANGED <<projects, environments, audited, born, local>>
       ELSE Fail(r)

\* logCreateIf, logUpdateIf, logDeleteIf.  remove records the deletion first.
Audit(r) ==
    /\ pc[r] = "audit"
    /\ audited' = audited \cup {r}
    /\ pc' = [pc EXCEPT ![r] = IF req[r].kind = "remove" THEN "delete" ELSE "done"]
    /\ UNCHANGED <<projects, environments, flag, born, local, history>>

\* The links and values go with the flag.
DeleteFlag(r) ==
    LET f == req[r].flag IN
    /\ pc[r] = "delete"
    /\ flag' = [flag EXCEPT ![f] = Null]
    /\ decided' = [decided EXCEPT ![f] = Null]
    /\ pc' = [pc EXCEPT ![r] = "done"]
    /\ UNCHANGED <<projects, environments, audited, born, local, dirty, written, flipped, renamed, met>>

Abort(r) == pc[r] \in Steps /\ Fail(r)

(***************************************************************************)
(* ProjectsService.remove and EnvironmentsService.remove, seen from here.  *)
(***************************************************************************)
Unlinked(row, p) ==
    IF row = Null THEN Null
    ELSE [code |-> row.code, projects |-> row.projects \ {p}, values |-> row.values]

RemoveProject(p) ==
    /\ p \in projects
    /\ projects' = projects \ {p}
    /\ flag' = [f \in Flag |-> Unlinked(flag[f], p)]
    /\ decided' = [f \in Flag |-> Unlinked(decided[f], p)]
    /\ UNCHANGED <<environments, audited, born, pc, local, dirty, written, flipped, renamed, met>>

RemoveEnvironment(e) ==
    /\ e \in environments
    /\ \A f \in Existing : flag[f].values[e] = "none"
    /\ environments' = environments \ {e}
    /\ UNCHANGED <<projects, flag, audited, born, pc, local, history>>

Step(r) ==
    \/ Load(r) \/ ResolveProjects(r) \/ InsertFlag(r) \/ Save(r)
    \/ SyncFind(r) \/ SyncSave(r) \/ Reload(r)
    \/ ToggleFind(r) \/ ToggleSave(r)
    \/ Audit(r) \/ DeleteFlag(r)

Next ==
    \/ \E r \in Request :
         \/ \E dto \in Bodies : Create(r, dto) \/ \E f \in Flag : Update(r, f, dto)
         \/ \E f \in Flag, e \in Environment, value \in {"off", "on"} : Toggle(r, f, e, value)
         \/ \E f \in Flag : Remove(r, f)
         \/ Step(r)
         \/ Abort(r)
    \/ \E p \in Project : RemoveProject(p)
    \/ \E e \in Environment : RemoveEnvironment(e)

Spec == Init /\ [][Next]_vars

(***************************************************************************)
(* Properties.                                                             *)
(***************************************************************************)
TypeOK ==
    /\ projects \subseteq Project /\ environments \subseteq Environment
    /\ flag \in [Flag -> Row \cup {Null}]
    /\ pc \in [Request -> {"idle"} \cup Steps \cup Ends]
    /\ req \in [Request -> [kind : Kinds \cup {"none"}, flag : Flag \cup {Null}, dto : Dto]]
    /\ loaded \in [Request -> Row \cup {Null}]
    /\ shown \in [Request -> [Environment -> Title \cup {Null}]]
    /\ found \in [Request -> SUBSET Project]
    /\ todo \in [Request -> SUBSET Environment]
    /\ entry \in [Request -> [env : Environment, old : Value] \cup {Null}]
    /\ audited \subseteq Request /\ born \subseteq Flag
    /\ decided \in [Flag -> Row \cup {Null}]
    /\ dirty \subseteq Flag
    /\ written \in [Request -> SUBSET Environment]
    /\ flipped \subseteq Request
    /\ renamed \subseteq Request
    /\ met \in [Request -> SUBSET Request]

\* updateEnvironmentValue, README.md's "Per-environment enable/disable values": the
\* value an administrator set last is the value in force while the flag exists,
\* whatever is done to the flag's other fields.
TogglesStick ==
    \A f \in Existing : decided[f] # Null => flag[f].values = decided[f].values

\* All writers: a flag is stored with every column, link and value as it was
\* last named in a request, links to projects that exist included, and a removed
\* flag stays removed.  Only a save over a row that another request wrote since
\* it was loaded can undo that.
OnlyStaleSavesUndo == \A f \in Flag \ dirty : flag[f] = decided[f]

\* create, update and updateEnvironmentValue: a request that is acknowledged
\* has written the value of every environment it named.
AcknowledgedIsWritten ==
    \A r \in Request :
        pc[r] = "done" => Named(req[r].dto.values) \subseteq written[r]

\* README.md, on the audit log: "Records create, update, delete".  A request
\* that switched a flag in some environment, and was acknowledged, left a record.
SwitchesAreRecorded == \A r \in flipped : pc[r] = "done" => r \in audited

\* Two of the environments r wrote have one name, or got other names meanwhile.
Indistinct(r) ==
    \E e, g \in written[r] : e # g /\ (shown[r][e] = shown[r][g] \/ r \in renamed)

\* update and updateEnvironmentValue: SwitchesAreRecorded, but for requests whose
\* flag another request was about at the same time, and for updates that wrote
\* the values of two environments which a record may not tell apart.
LoneSwitchesAreRecorded ==
    \A r \in flipped :
        pc[r] = "done" => \/ r \in audited
                          \/ \E q \in met[r] : req[q].flag = req[r].flag
                          \/ Indistinct(r)

\* remove: a flag that is gone has a record of its removal, whichever of the
\* removals that overlapped recorded it, and whatever failed or was inserted
\* again in between.
RemovalsAreRecorded ==
    \A f \in born \ Existing :
        \E r \in audited : req[r].kind = "remove" /\ req[r].flag = f
=============================================================================
