---------------------------- MODULE ClientFlags -----------------------------
(***************************************************************************)
(* The client endpoints, GET feature-flags/bootstrap and GET               *)
(* feature-flags/:code, over the tables that administrators write while    *)
(* they run: api_token, environment, project, feature_flag with its links  *)
(* and values.                                                             *)
(*                                                                         *)
(* A client request only reads, in up to four queries that no transaction  *)
(* holds together: the guard's, the project's, the flag's and the one that *)
(* evaluates.  Projects and environments change by the handlers of Scopes, *)
(* statement by statement.  Flags and API tokens change by any one         *)
(* statement of FeatureFlags and ApiTokens: their handlers are modelled    *)
(* there.  A secret is named by its token; one that was regenerated reads  *)
(* as a token that is gone.                                                *)
(***************************************************************************)
EXTENDS Scopes, FlagLists

CONSTANTS
    Flag,
    Token,
    Client,         \* requests of client applications, each used once
    Filters,        \* bound: the filters lists are asked for with
    MaxTime,        \* bound: the clock stops here
    FlagRows,       \* bound: the rows a flag may have
    MaxRequests     \* bound: the requests of both kinds that are sent

Time == 0 .. MaxTime
FlagRow == [code : Code, projects : SUBSET Project,
            values : [Environment -> {"none", "off", "on"}],
            expires : {Null} \cup Time]
TokenRow == [env : Environment, active : BOOLEAN]

\* What a list may be asked for; an env_ value is compared as it is.
Filter == [id : {Absent, NotANumber} \cup Flag, code : {Absent} \cup Code,
           projects : {Absent, NotANumber} \cup Project,
           projectId : {Absent, NotANumber} \cup Project,
           expiresAt : {Absent, NotANumber} \cup Time, stray : BOOLEAN,
           env : [Environment -> {Absent, "true", "false", "other"}]]

ASSUME FlagRowsAssumption == FlagRows \subseteq FlagRow
ASSUME FiltersAssumption == Filters \subseteq Filter
ASSUME AbsentAssumption == Absent \notin {"true", "false"}
ASSUME TimeAssumption == MaxTime \in Nat

\* Null stands for a query parameter that is not there; for the flag, which is
\* in the path, it stands for a bootstrap.
Ask == [token : Token, env : {Null} \cup Code, project : {Null} \cup Code,
        flag : {Null} \cup Code]

VARIABLES
    now,        \* the clock
    flag,       \* [Flag -> FlagRow or Null]
    token,      \* [Token -> TokenRow or Null]
    at,         \* [Client -> where the request is]
    ask,        \* [Client -> what was asked, or Null]
    env,        \* [Client -> the environment the guard kept]
    project,    \* [Client -> the project that was found]
    asOf,       \* [Client -> the moment flags are evaluated at]
    answer,     \* [Client -> its status and the codes that are on, or Null]
    seen        \* history: [Client -> how many writes since it arrived (0, 1,
                \* or more), and the answers that were exact at some time since]

flagTables == <<flag, token, now>>
clientVars == <<at, ask, env, project, asOf, answer>>
vars == <<scopeVars, flagTables, clientVars, seen>>

Errors == {"unauthorized", "forbidden", "badRequest", "notFound"}
Response == [status : Errors \cup {"ok"}, on : SUBSET Code]
Error(status) == [status |-> status, on |-> {}]
Ok(codes) == [status |-> "ok", on |-> codes]

ClientSteps == {"guard", "project", "flag", "evaluate"}
Waiting == {c \in Client : at[c] \in ClientSteps}
Answered == \E c \in Client : at[c] \in Ends
Sent == {r \in Request : pc[r] # "idle"} \cup {c \in Client : at[c] # "idle"}

\* What the foreign keys of the flag and token tables protect, and what becomes
\* of a link when its project goes.
Named(row) == {e \in Environment : row.values[e] # "none"}
Referred ==
    UNION ({Named(flag[f]) : f \in {g \in Flag : flag[g] # Null}}
              \cup {{token[t].env} : t \in {u \in Token : token[u] # Null}})

FlagRefers(row) == row.projects \cup Named(row) \subseteq Existing
Linked(row, p) == p \in row.projects /\ p \in Existing

Init ==
    /\ InitScopes
    /\ now = 0
    /\ flag \in [Flag -> FlagRows \cup {Null}]
    /\ \A f, g \in Flag : f # g /\ flag[f] # Null /\ flag[g] # Null => flag[f].code # flag[g].code
    /\ token \in [Token -> TokenRow \cup {Null}]
    /\ Referred \subseteq Existing
    /\ \A f \in Flag : flag[f] # Null => FlagRefers(flag[f])
    /\ at = [c \in Client |-> "idle"]
    /\ ask = [c \in Client |-> Null]
    /\ env = [c \in Client |-> Null]
    /\ project = [c \in Client |-> Null]
    /\ asOf = [c \in Client |-> 0]
    /\ answer = [c \in Client |-> Null]
    /\ seen = [c \in Client |-> [writes |-> 0, exact |-> {}]]

(***************************************************************************)
(* What each query returns.                                                *)
(***************************************************************************)
Bearing(code, Rows) == {x \in Rows : scope[x] # Null /\ scope[x].code = code}

\* The project that has a code; no two have it.
Bearer(code) == CHOOSE x \in Project : x \in Bearing(code, Project)

\* Faulty variant: the expiry is compared as if it were the last moment.
OnAtExpiry(p, e, moment) ==
    {f \in Flag : /\ flag[f] # Null
                  /\ Linked(flag[f], p) /\ flag[f].values[e] = "on"
                  /\ flag[f].expires = Null \/ flag[f].expires >= moment}

\* createClientFlagsQueryBuilder: isActive of project and environment is no
\* condition.
On(p, e, moment) ==
    {f \in Flag : /\ flag[f] # Null
                  /\ Linked(flag[f], p) /\ flag[f].values[e] = "on"
                  /\ flag[f].expires = Null \/ flag[f].expires > moment}

CodesOf(flags) == {flag[f].code : f \in flags}

\* The answer to q if all of its queries ran now.
Exact(q) ==
    IF token[q.token] = Null \/ ~ token[q.token].active THEN Error("unauthorized")
    ELSE IF scope[token[q.token].env].code # q.env THEN Error("forbidden")
    ELSE IF q.project = Null THEN Error("badRequest")
    ELSE IF \/ Bearing(q.project, Project) = {}
            \/ q.flag # Null /\ q.flag \notin CodesOf({f \in Flag : flag[f] # Null})
         THEN Error("notFound")
    ELSE LET e == token[q.token].env
             p == Bearer(q.project)
             codes == CodesOf({f \in Flag :
                         /\ flag[f] # Null /\ p \in flag[f].projects
                         /\ flag[f].values[e] = "on"
                         /\ flag[f].expires = Null \/ now < flag[f].expires})
         IN Ok(IF q.flag = Null THEN codes ELSE codes \cap {q.flag})

(***************************************************************************)
(* The handlers.                                                           *)
(***************************************************************************)
\* Bound: no administrator's request comes first.  Each writes one row once, so
\* what it wrote before would be an initial table and what it writes after is not
\* told from what it writes when it comes later.
Send(c, q) ==
    /\ at[c] = "idle"
    /\ Sent \subseteq Client /\ Cardinality(Sent) < MaxRequests
    /\ at' = [at EXCEPT ![c] = "guard"]
    /\ ask' = [ask EXCEPT ![c] = q]
    /\ seen' = [seen EXCEPT ![c] = [writes |-> 0, exact |-> {Exact(q)}]]
    /\ UNCHANGED <<scopeVars, flagTables, env, project, asOf, answer>>

Answer(c, a) ==
    /\ at' = [at EXCEPT ![c] = "done"]
    /\ answer' = [answer EXCEPT ![c] = a]

\* Faulty variant: the code is compared with that of any environment.
GuardAnyEnvironment(c) ==
    LET t == ask[c].token IN
    /\ at[c] = "guard"
    /\ IF token[t] = Null \/ ~ token[t].active
       THEN Answer(c, Error("unauthorized")) /\ UNCHANGED env
       ELSE IF Bearing(ask[c].env, Environment) = {}
       THEN Answer(c, Error("forbidden")) /\ UNCHANGED env
       ELSE /\ at' = [at EXCEPT ![c] = "project"]
            /\ env' = [env EXCEPT ![c] = token[t].env]
            /\ UNCHANGED answer
    /\ UNCHANGED <<scopeVars, flagTables, ask, project, asOf, seen>>

\* ApiTokenGuard: one query for the token with its environment.
Guard(c) ==
    LET t == ask[c].token IN
    /\ at[c] = "guard"
    /\ IF token[t] = Null \/ ~ token[t].active
       THEN Answer(c, Error("unauthorized")) /\ UNCHANGED env
       ELSE IF scope[token[t].env].code # ask[c].env
       THEN Answer(c, Error("forbidden")) /\ UNCHANGED env
       ELSE /\ at' = [at EXCEPT ![c] = "project"]
            /\ env' = [env EXCEPT ![c] = token[t].env]
            /\ UNCHANGED answer
    /\ UNCHANGED <<scopeVars, flagTables, ask, project, asOf, seen>>

\* resolveProject.  bootstrap goes on to evaluate, as of the moment it builds
\* the query.
ResolveProject(c) ==
    /\ at[c] = "project"
    /\ IF ask[c].project = Null
       THEN Answer(c, Error("badRequest")) /\ UNCHANGED <<project, asOf>>
       ELSE IF Bearing(ask[c].project, Project) = {}
       THEN Answer(c, Error("notFound")) /\ UNCHANGED <<project, asOf>>
       ELSE /\ \E p \in Bearing(ask[c].project, Project) : project' = [project EXCEPT ![c] = p]
            /\ at' = [at EXCEPT ![c] = IF ask[c].flag = Null THEN "evaluate" ELSE "flag"]
            /\ asOf' = [asOf EXCEPT ![c] = now]
            /\ UNCHANGED answer
    /\ UNCHANGED <<scopeVars, flagTables, ask, env, seen>>

\* getClientValue asks whether the code exists at all ...
FindFlag(c) ==
    /\ at[c] = "flag"
    /\ IF ask[c].flag \notin CodesOf({f \in Flag : flag[f] # Null})
       THEN Answer(c, Error("notFound")) /\ UNCHANGED asOf
       ELSE /\ at' = [at EXCEPT ![c] = "evaluate"]
            /\ asOf' = [asOf EXCEPT ![c] = now]
            /\ UNCHANGED answer
    /\ UNCHANGED <<scopeVars, flagTables, ask, env, project, seen>>

\* ... and then, by its code again, whether it is on.
Evaluate(c) ==
    LET codes == CodesOf(On(project[c], env[c], asOf[c])) IN
    /\ at[c] = "evaluate"
    /\ Answer(c, Ok(IF ask[c].flag = Null THEN codes ELSE codes \cap {ask[c].flag}))
    /\ UNCHANGED <<scopeVars, flagTables, ask, env, project, asOf, seen>>

AbortClient(c) ==
    /\ at[c] \in ClientSteps
    /\ at' = [at EXCEPT ![c] = "failed"]
    /\ UNCHANGED <<scopeVars, flagTables, ask, env, project, asOf, answer, seen>>

(***************************************************************************)
(* The writers, and what the history makes of them.                        *)
(***************************************************************************)
\* A write during the request of c: one more, and one more exact answer.
Noted ==
    seen' = [c \in Client |->
               IF c \notin Waiting THEN seen[c]
               ELSE IF seen[c].writes = 0
               THEN [writes |-> 1, exact |-> seen[c].exact \cup {Exact(ask[c])'}]
               ELSE [writes |-> 2, exact |-> {}]]

Unlinked(row) ==
    IF row = Null THEN Null ELSE [row EXCEPT !.projects = {p \in @ : scope'[p] # Null}]

\* Nothing was written yet under any client request.
Quiet == \A c \in Waiting : seen[c].writes = 0

\* A step of ProjectsService or EnvironmentsService; a project takes its links
\* along.
Administer(r) ==
    /\ ScopeStep(r, Referred)
    /\ flag' = [f \in Flag |-> Unlinked(flag[f])]
    /\ UNCHANGED <<now, token, clientVars>>
    /\ Sent' # Sent => Cardinality(Sent) < MaxRequests /\ ~ Answered /\ Quiet
    /\ IF scope' = scope THEN UNCHANGED seen ELSE Noted

\* Bound: every table is an initial one, so flags, tokens and the clock change
\* only under a client request, and where nothing else is written.
Writable == Waiting # {} /\ Quiet /\ Sent \subseteq Client

\* A statement that leaves one flag with any columns, links and values, or
\* removes it.
WriteFlag(f) ==
    /\ Writable
    /\ \E row \in FlagRows \cup {Null} :
         /\ row # Null => /\ FlagRefers(row)
                          /\ \A g \in Flag \ {f} : flag[g] # Null => flag[g].code # row.code
         /\ row # flag[f]
         /\ flag' = [flag EXCEPT ![f] = row]
    /\ UNCHANGED <<scopeVars, now, token, clientVars>>
    /\ Noted

WriteToken(t) ==
    /\ Writable
    /\ \E row \in TokenRow \cup {Null} :
         /\ row # Null => row.env \in Existing
         /\ row # token[t]
         /\ token' = [token EXCEPT ![t] = row]
    /\ UNCHANGED <<scopeVars, now, flag, clientVars>>
    /\ Noted

Tick ==
    /\ Writable
    /\ now < MaxTime
    /\ now' = now + 1
    /\ UNCHANGED <<scopeVars, flag, token, clientVars>>
    /\ Noted

Serve(c) ==
    \/ \E q \in Ask : Send(c, q)
    \/ Guard(c) \/ ResolveProject(c) \/ FindFlag(c) \/ Evaluate(c)
    \/ AbortClient(c)

Next ==
    \/ \E c \in Client : Serve(c)
    \/ \E r \in Request : Administer(r)
    \/ \E f \in Flag : WriteFlag(f)
    \/ \E t \in Token : WriteToken(t)
    \/ Tick

Spec == Init /\ [][Next]_vars

(***************************************************************************)
(* Properties.                                                             *)
(***************************************************************************)
TypeOK ==
    /\ ScopesTypeOK
    /\ now \in Time
    /\ flag \in [Flag -> FlagRow \cup {Null}]
    /\ token \in [Token -> TokenRow \cup {Null}]
    /\ at \in [Client -> {"idle"} \cup ClientSteps \cup Ends]
    /\ ask \in [Client -> Ask \cup {Null}]
    /\ env \in [Client -> Environment \cup {Null}]
    /\ project \in [Client -> Project \cup {Null}]
    /\ asOf \in [Client -> Time]
    /\ answer \in [Client -> Response \cup {Null}]
    /\ seen \in [Client -> [writes : 0 .. 2, exact : SUBSET Response]]

\* To a client, a flag that does not exist is a flag that is off.
Alike(a, b) ==
    a = b \/ ({a.status, b.status} = {"ok", "notFound"} /\ a.on = b.on)

\* bootstrap and :code, with no transaction around their queries.  If nothing was
\* written while a request was handled, its answer is what the tables say, error
\* for error.  If one thing was (a flag toggled, renamed or expired, the token
\* moved or withdrawn, the project or environment renamed or removed), it is what
\* they said before or say after, never a mixture.
OneWriteIsSeenWholeOrNotAtAll ==
    \A c \in Client :
        at[c] = "done" =>
            /\ seen[c].writes = 0 => answer[c] \in seen[c].exact
            /\ seen[c].writes = 1 => \E a \in seen[c].exact : Alike(answer[c], a)

\* The list of flags, in both its forms: whatever else is filtered by, asking for
\* the flags that are enabled in an environment and for those that are disabled
\* there splits the list that is not filtered by that environment.
EnvFilterSplitsTheList ==
    Waiting \cup InFlight = {} =>
        \A q \in Filters, e \in Environment :
            q.env[e] = Absent /\ ~ FindRefused(q) =>
                LET enabled == FindAll(flag, [q EXCEPT !.env[e] = "true"], Null)
                    disabled == FindAll(flag, [q EXCEPT !.env[e] = "false"], Null)
                IN /\ enabled \cap disabled = {}
                   /\ enabled \cup disabled = FindAll(flag, q, Null)
=============================================================================
