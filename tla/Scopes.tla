------------------------------- MODULE Scopes -------------------------------
(***************************************************************************)
(* Projects and environments: create, update and remove of ProjectsService *)
(* and EnvironmentsService, which are the same code over two tables of the *)
(* same shape.  What other tables have to say of a removal is a parameter  *)
(* of the step: this module is composed with them in ClientFlags.          *)
(*                                                                         *)
(* One action is one database round trip with the synchronous code after   *)
(* it, and any request may fail at any await.  name is written as isActive *)
(* is and left out.                                                        *)
(***************************************************************************)
EXTENDS Naturals, FiniteSets

CONSTANTS
    Project,        \* primary keys; never reused
    Environment,
    Code,
    Request,        \* HTTP requests of administrators, each used once
    Bodies,         \* bound: the bodies they send
    Null

Scope == Project \cup Environment
Row == [code : Code, active : BOOLEAN]

\* What a body may name; Null stands for what it leaves out.
Dto == [code : {Null} \cup Code, active : {Null} \cup BOOLEAN]
Blank == [code |-> Null, active |-> Null]

ASSUME ScopeAssumption == Project \cap Environment = {}
ASSUME BodiesAssumption == Bodies \subseteq Dto
ASSUME NullAssumption == Null \notin Row \cup Scope \cup Code

VARIABLES
    scope,          \* the two tables: [Scope -> Row or Null]
    pc,             \* [Request -> where the handler is]
    req,            \* [Request -> what was asked: kind, scope, dto]
    loaded,         \* [Request -> the row its first query returned, or Null]
    recorded,       \* requests whose record is in audit_logs
    born,           \* primary keys drawn so far
    decided,        \* history: each row as if every write had changed only
                    \* what its request named
    stale,          \* history: requests that saved over a row that was no
                    \* longer the one they had loaded
    altered         \* history: requests whose save changed a row

scopeVars == <<scope, pc, req, loaded, recorded, born, decided, stale, altered>>
local == <<req, loaded>>

Steps == {"insert", "load", "save", "audit", "delete"}
Ends == {"done", "failed"}
Kinds == {"create", "update", "remove"}

InFlight == {r \in Request : pc[r] \in Steps}
Existing == {x \in Scope : scope[x] # Null}

\* The rows of the table x belongs to.
Table(x) == IF x \in Project THEN Project ELSE Environment

\* The unique constraint on code, one per table.
CodeFree(code, x) == \A y \in (Table(x) \cap Existing) \ {x} : scope[y].code # code

\* The rows that bear the traces of such a save.
Dirty == {req[r].scope : r \in stale}

InitScopes ==
    /\ scope \in [Scope -> Row \cup {Null}]
    /\ \A x \in Existing : CodeFree(scope[x].code, x)
    /\ pc = [r \in Request |-> "idle"]
    /\ req = [r \in Request |-> [kind |-> "none", scope |-> Null, dto |-> Blank]]
    /\ loaded = [r \in Request |-> Null]
    /\ recorded = {}
    /\ born = Existing
    /\ decided = scope
    /\ stale = {}
    /\ altered = {}

\* Arrival, after ObjectPipe and BodyValidationPipe: the row exists, the code is
\* free.
Arrive(r, kind, x, dto, step) ==
    /\ pc[r] = "idle"
    /\ kind # "create" => x \in Existing
    /\ dto.code # Null => CodeFree(dto.code, x)
    /\ req' = [req EXCEPT ![r] = [kind |-> kind, scope |-> x, dto |-> dto]]
    /\ pc' = [pc EXCEPT ![r] = step]
    /\ UNCHANGED <<scope, loaded, recorded, born, decided, stale, altered>>

\* A create reserves its key here, earlier than the database draws it: nobody
\* refers to a key before its row exists.
Create(r, x, dto) ==
    /\ x \notin born
    /\ \A q \in InFlight : req[q].scope # x
    /\ dto.code # Null /\ dto.active # Null
    /\ Arrive(r, "create", x, dto, "insert")

Fail(r) ==
    /\ pc' = [pc EXCEPT ![r] = "failed"]
    /\ UNCHANGED <<scope, local, recorded, born, decided, stale, altered>>

\* Faulty variant: a field that the body leaves out is undefined in the copy.
AssignedUndefined(row, dto) == dto

\* A row with what the body names put in its place.
Assigned(row, dto) ==
    [code |-> IF dto.code = Null THEN row.code ELSE dto.code,
     active |-> IF dto.active = Null THEN row.active ELSE dto.active]

Insert(r) ==
    LET x == req[r].scope
        row == [code |-> req[r].dto.code, active |-> req[r].dto.active]
    IN
    /\ pc[r] = "insert"
    /\ IF CodeFree(row.code, x)
       THEN /\ scope' = [scope EXCEPT ![x] = row]
            /\ decided' = [decided EXCEPT ![x] = row]
            /\ born' = born \cup {x}
            /\ pc' = [pc EXCEPT ![r] = "audit"]
            /\ UNCHANGED <<local, recorded, stale, altered>>
       ELSE Fail(r)

\* Faulty variant: the test for a row that was found is inverted.
AfterLoadInverting(r) ==
    IF req[r].kind = "update" THEN "save"
    ELSE IF scope[req[r].scope] = Null THEN "audit" ELSE "delete"

\* logDeleteIf has something to record when a row was found.
AfterLoad(r) ==
    IF req[r].kind = "update" THEN "save"
    ELSE IF scope[req[r].scope] = Null THEN "delete" ELSE "audit"

\* findOneByOrFail of update; findOneBy of remove, which then goes on without a
\* row and has nothing to record.
Load(r) ==
    LET x == req[r].scope IN
    /\ pc[r] = "load"
    /\ IF req[r].kind = "update" /\ scope[x] = Null
       THEN Fail(r)
       ELSE /\ loaded' = [loaded EXCEPT ![r] = scope[x]]
            /\ pc' = [pc EXCEPT ![r] = AfterLoad(r)]
            /\ UNCHANGED <<scope, req, recorded, born, decided, stale, altered>>

\* Faulty variant: before is the object that Object.assign then changes.
AfterSaveAliased(r, copy) == "done"

\* logUpdateIf compares the loaded row with the saved object, not with the table.
AfterSave(r, copy) == IF copy = loaded[r] THEN "done" ELSE "audit"

\* Faulty variant: isActive is saved with its default when the body leaves it out.
CopyDefaulting(r) ==
    [Assigned(loaded[r], req[r].dto) EXCEPT !.active = req[r].dto.active # FALSE]

\* The loaded row with what the body names in its place.
Copy(r) == Assigned(loaded[r], req[r].dto)

\* save writes all of the copy that differs from the row of now, and inserts it
\* again if the row has gone.
Save(r) ==
    LET x == req[r].scope
        copy == Copy(r)
    IN
    /\ pc[r] = "save"
    /\ IF CodeFree(copy.code, x)
       THEN /\ scope' = [scope EXCEPT ![x] = copy]
            /\ decided' = [decided EXCEPT ![x] = IF @ = Null THEN Null ELSE Assigned(@, req[r].dto)]
            /\ stale' = stale \cup {q \in {r} : scope[x] # loaded[r]}
            /\ altered' = altered \cup {q \in {r} : scope[x] # copy}
            /\ pc' = [pc EXCEPT ![r] = AfterSave(r, copy)]
            /\ UNCHANGED <<local, recorded, born>>
       ELSE Fail(r)

\* logCreateIf, logUpdateIf and logDeleteIf; remove records before it deletes.
Audit(r) ==
    /\ pc[r] = "audit"
    /\ recorded' = recorded \cup {r}
    /\ pc' = [pc EXCEPT ![r] = IF req[r].kind = "remove" THEN "delete" ELSE "done"]
    /\ UNCHANGED <<scope, local, born, decided, stale, altered>>

\* referred: the rows that a foreign key of another table protects.
Delete(r, referred) ==
    LET x == req[r].scope IN
    /\ pc[r] = "delete"
    /\ IF x \notin referred
       THEN /\ scope' = [scope EXCEPT ![x] = Null]
            /\ decided' = [decided EXCEPT ![x] = Null]
            /\ pc' = [pc EXCEPT ![r] = "done"]
            /\ UNCHANGED <<local, recorded, born, stale, altered>>
       ELSE Fail(r)

Abort(r) == pc[r] \in Steps /\ Fail(r)

ScopeStep(r, referred) ==
    \/ \E x \in Scope, dto \in Bodies : Create(r, x, dto) \/ Arrive(r, "update", x, dto, "load")
    \/ \E x \in Scope : Arrive(r, "remove", x, Blank, "load")
    \/ Insert(r) \/ Load(r) \/ Save(r) \/ Audit(r) \/ Delete(r, referred)
    \/ Abort(r)

\* The two tables by themselves: foreign keys may protect any of their rows.
ScopeNext == \E r \in Request, referred \in SUBSET Scope : ScopeStep(r, referred)
ScopeSpec == InitScopes /\ [][ScopeNext]_scopeVars

(***************************************************************************)
(* Properties.                                                             *)
(***************************************************************************)
ScopesTypeOK ==
    /\ scope \in [Scope -> Row \cup {Null}]
    /\ pc \in [Request -> {"idle"} \cup Steps \cup Ends]
    /\ req \in [Request -> [kind : Kinds \cup {"none"}, scope : Scope \cup {Null}, dto : Dto]]
    /\ loaded \in [Request -> Row \cup {Null}]
    /\ recorded \subseteq Request /\ born \subseteq Scope
    /\ decided \in [Scope -> Row \cup {Null}]
    /\ stale \subseteq Request /\ altered \subseteq Request

\* ProjectsService.update and EnvironmentsService.update: every field is stored
\* as it was last named in a request, and what was removed stays removed.  Only
\* a save over a row written since it was loaded can undo that.
OnlyStaleSavesUndo == \A x \in Scope \ Dirty : scope[x] = decided[x]

\* update: although the record compares what was loaded with what is in memory,
\* a save that changed the row is recorded once it is acknowledged, whatever
\* became of the row before and since.  The one exception is a save over a row
\* written since it was loaded, by a body that names nothing new to what was
\* loaded: it undoes what was written and leaves no record.
ChangesAreRecorded ==
    \A r \in altered :
        pc[r] = "done" =>
            \/ r \in recorded
            \/ r \in stale /\ Assigned(loaded[r], req[r].dto) = loaded[r]

\* remove: a project or environment that is gone has a record of its removal,
\* whatever overlapped, failed or was inserted again.
ScopeRemovalsAreRecorded ==
    \A x \in born \ Existing : \E r \in recorded : req[r].kind = "remove" /\ req[r].scope = x
=============================================================================
