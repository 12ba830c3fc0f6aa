------------------------------ MODULE ApiTokens ------------------------------
(***************************************************************************)
(* The admin endpoints that write API tokens (create, update, regenerate,  *)
(* remove) and what the ApiTokenGuard of the client endpoints makes of the *)
(* table api_tokens, while environments go.                                *)
(*                                                                         *)
(* One action is one database round trip with the synchronous code after   *)
(* it; any request may fail at any await.  The environment a body names is *)
(* read right before the write that refers to it: when it is missing the   *)
(* request fails with nothing written either way, so the two are one step. *)
(*                                                                         *)
(* generateApiToken draws 32 random bytes, so a secret is named by the     *)
(* request that drew it, or by the token that came with it.  A hash or a   *)
(* prefix stands for its secret.  The name of a token is written like its  *)
(* active state and left out.                                              *)
(***************************************************************************)
EXTENDS Naturals, FiniteSets

CONSTANTS
    Token,          \* primary keys; never reused
    Environment,
    Request,        \* HTTP requests, each used once
    Null,
    MaxInFlight     \* bound: requests being handled at the same time

Secret == Token \cup Request
Row == [secret : Secret, env : Environment, active : BOOLEAN]

\* What a body may name; Null stands for what it leaves out.
Dto == [env : Environment \cup {Null}, active : BOOLEAN \cup {Null}]

ASSUME NullAssumption == Null \notin Row \cup Environment \cup BOOLEAN \cup Token

VARIABLES
    environments,   \* rows of the environment table
    token,          \* [Token -> Row or Null]
    pc,             \* [Request -> where the handler is]
    req,            \* [Request -> what was asked: kind, token, dto]
    loaded,         \* [Request -> the row its first query returned, or Null]
    recorded,       \* requests whose record is in audit_logs
    born,           \* primary keys drawn so far
    decided,        \* history: each token as if every write had changed only
                    \* what its request named
    withdrawn,      \* history: secrets that were replaced or removed
    dirty           \* history: tokens saved over a row that was no longer the
                    \* one the handler had loaded

vars == <<environments, token, pc, req, loaded, recorded, born, decided, withdrawn, dirty>>
tables == <<environments, token, recorded, born>>
local == <<req, loaded>>
history == <<decided, withdrawn, dirty>>

Steps == {"load", "insert", "save", "reload", "audit", "delete"}
Ends == {"done", "failed"}
Kinds == {"create", "update", "regenerate", "remove"}

InFlight == {r \in Request : pc[r] \in Steps}
Existing == {t \in Token : token[t] # Null}
Blank == [env |-> Null, active |-> Null]

\* Tokens that earlier requests left, active and inactive.
Init ==
    /\ environments = Environment
    /\ token \in [Token -> Row \cup {Null}]
    /\ \A t \in Existing : token[t].secret = t
    /\ born = Existing
    /\ pc = [r \in Request |-> "idle"]
    /\ req = [r \in Request |-> [kind |-> "none", token |-> Null, dto |-> Blank]]
    /\ loaded = [r \in Request |-> Null]
    /\ recorded = {}
    /\ decided = token
    /\ withdrawn = {}
    /\ dirty = {}

(***************************************************************************)
(* Arrival, after ObjectPipe and BodyValidationPipe.                       *)
(***************************************************************************)
Arrive(r, kind, t, dto, step) ==
    /\ pc[r] = "idle"
    /\ Cardinality(InFlight) < MaxInFlight
    /\ dto.env \in environments \cup {Null}
    /\ req' = [req EXCEPT ![r] = [kind |-> kind, token |-> t, dto |-> dto]]
    /\ pc' = [pc EXCEPT ![r] = step]
    /\ UNCHANGED <<tables, loaded, history>>

\* Bound: a create is sent only while a primary key is left for it.
Creating == {r \in InFlight : req[r].kind = "create" /\ req[r].token = Null}

Create(r, dto) ==
    /\ Cardinality(born) + Cardinality(Creating) < Cardinality(Token)
    /\ dto.env # Null /\ dto.active # Null
    /\ Arrive(r, "create", Null, dto, "insert")

Update(r, t, dto) == t \in Existing /\ Arrive(r, "update", t, dto, "load")

\* The only one of the four without ObjectPipe: any id gets this far.
Regenerate(r, t) == Arrive(r, "regenerate", t, Blank, "load")

Remove(r, t) == t \in Existing /\ Arrive(r, "remove", t, Blank, "load")

Fail(r) == pc' = [pc EXCEPT ![r] = "failed"] /\ UNCHANGED <<tables, local, history>>

(***************************************************************************)
(* The handlers.                                                           *)
(***************************************************************************)
\* The row comes with its environment, which must be there.
Insert(r) ==
    LET row == [secret |-> r, env |-> req[r].dto.env, active |-> req[r].dto.active] IN
    /\ pc[r] = "insert"
    /\ IF row.env \in environments
       THEN \E t \in Token \ born :
              /\ token' = [token EXCEPT ![t] = row]
              /\ decided' = [decided EXCEPT ![t] = row]
              /\ born' = born \cup {t}
              /\ req' = [req EXCEPT ![r] = [kind |-> "create", token |-> t, dto |-> req[r].dto]]
              /\ pc' = [pc EXCEPT ![r] = "reload"]
              /\ UNCHANGED <<environments, recorded, loaded, withdrawn, dirty>>
       ELSE Fail(r)

\* Faulty variant: rows are looked up as the guard does, among the active ones.
LoadActive(r) ==
    LET t == req[r].token
        row == IF token[t] # Null /\ token[t].active THEN token[t] ELSE Null
    IN
    /\ pc[r] = "load"
    /\ IF row = Null /\ req[r].kind # "remove"
       THEN Fail(r)
       ELSE /\ loaded' = [loaded EXCEPT ![r] = row]
            /\ pc' = [pc EXCEPT ![r] = IF req[r].kind # "remove" THEN "save"
                                       ELSE IF row = Null THEN "delete" ELSE "audit"]
            /\ UNCHANGED <<tables, req, history>>

\* findOneOrFail of update and regenerateSecret; findOne of remove, which goes
\* on without a row and then has nothing to record.
Load(r) ==
    LET row == token[req[r].token] IN
    /\ pc[r] = "load"
    /\ IF row = Null /\ req[r].kind # "remove"
       THEN Fail(r)
       ELSE /\ loaded' = [loaded EXCEPT ![r] = row]
            /\ pc' = [pc EXCEPT ![r] = IF req[r].kind # "remove" THEN "save"
                                       ELSE IF row = Null THEN "delete" ELSE "audit"]
            /\ UNCHANGED <<tables, req, history>>

\* Faulty variant: a field the body leaves out is assigned all the same.
ChangedUndefined(row, r) ==
    IF req[r].kind = "regenerate"
    THEN [secret |-> r, env |-> row.env, active |-> row.active]
    ELSE [secret |-> row.secret, env |-> row.env, active |-> req[r].dto.active]

\* What the handler does to a row in memory: a new secret, or the fields of the
\* body that are not left out.
Changed(row, r) ==
    [secret |-> IF req[r].kind = "regenerate" THEN r ELSE row.secret,
     env |-> IF req[r].dto.env = Null THEN row.env ELSE req[r].dto.env,
     active |-> IF req[r].dto.active = Null THEN row.active ELSE req[r].dto.active]

\* Secrets that a request takes out of use.
Withdraws(r) ==
    LET t == req[r].token IN
    IF req[r].kind \in {"regenerate", "remove"} /\ decided[t] # Null
    THEN {decided[t].secret} ELSE {}

\* Faulty variant: the hash is not among the columns that are saved.
SaveKeepingHash(r) ==
    LET t == req[r].token
        copy == [secret |-> loaded[r].secret, env |-> Changed(loaded[r], r).env,
                 active |-> Changed(loaded[r], r).active]
    IN
    /\ pc[r] = "save"
    /\ IF copy.env \in environments
       THEN /\ token' = [token EXCEPT ![t] = copy]
            /\ decided' = [decided EXCEPT ![t] = IF @ = Null THEN Null ELSE Changed(@, r)]
            /\ withdrawn' = withdrawn \cup Withdraws(r)
            /\ dirty' = dirty \cup {s \in {t} : token[t] # loaded[r]}
            /\ pc' = [pc EXCEPT ![r] = "reload"]
            /\ UNCHANGED <<environments, recorded, born, local>>
       ELSE Fail(r)

\* TypeORM's save compares the copy with the row as it is now and writes all
\* that differs; a row that is gone is inserted again under its old key.
Save(r) ==
    LET t == req[r].token
        copy == Changed(loaded[r], r)
    IN
    /\ pc[r] = "save"
    /\ IF copy.env \in environments
       THEN /\ token' = [token EXCEPT ![t] = copy]
            /\ decided' = [decided EXCEPT ![t] = IF @ = Null THEN Null ELSE Changed(@, r)]
            /\ withdrawn' = withdrawn \cup Withdraws(r)
            /\ dirty' = dirty \cup {s \in {t} : token[t] # loaded[r]}
            /\ pc' = [pc EXCEPT ![r] = "reload"]
            /\ UNCHANGED <<environments, recorded, born, local>>
       ELSE Fail(r)

\* The record of an update is the difference of what the two queries returned.
\* It shows the prefix of the secret and the active state; the environment is in
\* it by name, which another may have and which may change in between, and the
\* name of the token is left out here: those two may or may not differ.
MayLookAlike(before, after) ==
    before # Null /\ before.secret = after.secret /\ before.active = after.active

\* findOne after the write; nothing is recorded of a row that reads as before.
Reload(r) ==
    LET row == token[req[r].token] IN
    /\ pc[r] = "reload"
    /\ IF row = Null
       THEN Fail(r)
       ELSE /\ \/ pc' = [pc EXCEPT ![r] = "audit"]
               \/ MayLookAlike(loaded[r], row) /\ pc' = [pc EXCEPT ![r] = "done"]
            /\ UNCHANGED <<tables, local, history>>

\* logCreateIf, logUpdateIf, logDeleteIf.  remove records the deletion first;
\* the others now answer, create and regenerate with the secret.
Audit(r) ==
    /\ pc[r] = "audit"
    /\ recorded' = recorded \cup {r}
    /\ pc' = [pc EXCEPT ![r] = IF req[r].kind = "remove" THEN "delete" ELSE "done"]
    /\ UNCHANGED <<environments, token, born, local, history>>

Delete(r) ==
    LET t == req[r].token IN
    /\ pc[r] = "delete"
    /\ token' = [token EXCEPT ![t] = Null]
    /\ decided' = [decided EXCEPT ![t] = Null]
    /\ withdrawn' = withdrawn \cup Withdraws(r)
    /\ pc' = [pc EXCEPT ![r] = "done"]
    /\ UNCHANGED <<environments, recorded, born, local, dirty>>

Abort(r) == pc[r] \in Steps /\ Fail(r)

\* EnvironmentsService.remove: a token blocks the removal of its environment.
RemoveEnvironment(e) ==
    /\ e \in environments
    /\ \A t \in Existing : token[t].env # e
    /\ environments' = environments \ {e}
    /\ UNCHANGED <<token, recorded, born, pc, local, history>>

Step(r) ==
    \/ Insert(r) \/ Load(r) \/ Save(r) \/ Reload(r) \/ Audit(r) \/ Delete(r)

Next ==
    \/ \E r \in Request :
         \/ \E dto \in Dto : Create(r, dto) \/ \E t \in Token : Update(r, t, dto)
         \/ \E t \in Token : Regenerate(r, t) \/ Remove(r, t)
         \/ Step(r)
         \/ Abort(r)
    \/ \E e \in Environment : RemoveEnvironment(e)

Spec == Init /\ [][Next]_vars

(***************************************************************************)
(* ApiTokenGuard: one query, findByTokenHash, and the comparison with the  *)
(* environment the client names.                                           *)
(***************************************************************************)
\* Faulty variant: an inactive token will do.
CanActivateInactive(secret, e) ==
    \E t \in Existing : token[t].secret = secret /\ token[t].env = e

CanActivate(secret, e) ==
    \E t \in Existing : token[t].secret = secret /\ token[t].active /\ token[t].env = e

(***************************************************************************)
(* Properties.                                                             *)
(***************************************************************************)
TypeOK ==
    /\ environments \subseteq Environment
    /\ token \in [Token -> Row \cup {Null}]
    /\ pc \in [Request -> {"idle"} \cup Steps \cup Ends]
    /\ req \in [Request -> [kind : Kinds \cup {"none"}, token : Token \cup {Null}, dto : Dto]]
    /\ loaded \in [Request -> Row \cup {Null}]
    /\ recorded \subseteq Request /\ born \subseteq Token
    /\ decided \in [Token -> Row \cup {Null}]
    /\ withdrawn \subseteq Secret
    /\ dirty \subseteq Token

\* The guard opens for a secret in an environment exactly when the requests that
\* named the secret, the environment and the active state of its token last say
\* so: a moved, deactivated, regenerated or removed token stays that way, unless
\* a save was made over a row written since it was loaded.
GuardAsDecided ==
    /\ \A t \in Token \ dirty :
         decided[t] # Null /\ decided[t].active => CanActivate(decided[t].secret, decided[t].env)
    /\ \A s \in Secret, e \in Environment :
         CanActivate(s, e) =>
            \/ \E t \in Token : decided[t] = [secret |-> s, env |-> e, active |-> TRUE]
            \/ \E t \in Existing \cap dirty : token[t].secret = s

\* README.md: "plain value shown once on create or regenerate".  The secret an
\* answered request showed is the one its token has, until another request
\* replaces or removes it, or a stale save undoes it.
ShownSecretIsStored ==
    \A r \in Request :
        pc[r] = "done" /\ req[r].kind \in {"create", "regenerate"} =>
            \/ req[r].token \in dirty
            \/ r \in withdrawn
            \/ token[req[r].token] # Null /\ token[req[r].token].secret = r

\* remove: a token that was there and is gone has the record of its removal,
\* although the record is written before the row is deleted and by a row that
\* was read before that, and whatever fails or overlaps in between.
RemovalsAreRecorded ==
    \A t \in born \ Existing : \E r \in recorded : req[r].kind = "remove" /\ req[r].token = t

\* README.md on the body of an update: "name", "environmentId", "isActive".  An
\* update does not change the secret of a token.
UpdateKeepsSecret ==
    [][\A r \in Request : pc[r] = "save" /\ pc'[r] = "reload" /\ req[r].kind = "update" =>
         LET t == req[r].token IN token[t] # Null => token'[t].secret = token[t].secret]_vars
=============================================================================
