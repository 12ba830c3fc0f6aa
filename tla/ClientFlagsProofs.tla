------------------------- MODULE ClientFlagsProofs --------------------------
(***************************************************************************)
(* What is proved about the client endpoints: their types, that the tables *)
(* under them are written as Scopes says, and what a client is answered    *)
(* when at most one thing was written while its queries ran.               *)
(***************************************************************************)
EXTENDS ClientFlags, ScopesProofs

(***************************************************************************)
(* Types, and where a client request can be.                               *)
(***************************************************************************)
\* What a handler holds by then.
Path(c) ==
    /\ at[c] # "idle" => ask[c] \in Ask
    /\ at[c] \in {"project", "flag", "evaluate"} => env[c] \in Environment
    /\ at[c] \in {"flag", "evaluate"} => project[c] \in Project /\ ask[c].project # Null
    /\ at[c] = "flag" => ask[c].flag # Null
    /\ at[c] = "done" => answer[c] \in Response

\* The tables of this module; the others are those of Scopes.
TablesOK ==
    /\ now \in Time
    /\ flag \in [Flag -> FlagRow \cup {Null}]
    /\ token \in [Token -> TokenRow \cup {Null}]

\* No flag is linked to a project that is not there.
LinksExist == \A f \in Flag : flag[f] # Null => flag[f].projects \subseteq Existing

Inv ==
    /\ TypeOK
    /\ \A c \in Client : Path(c)
    /\ LinksExist

\* Referred, the protected rows, are rows of the two tables.
LEMMA ReferredAreScopes == TablesOK => Referred \subseteq Scope
BY DEF TablesOK, Referred, Named, Scope, TokenRow

ExactOK == \A c \in Client : Exact(ask[c]) \in Response

\* Exact: whatever is asked, an answer is a status and codes.
LEMMA ExactIsResponse == TablesOK => ExactOK
<1> SUFFICES ASSUME TablesOK, NEW c \in Client PROVE Exact(ask[c]) \in Response
  BY DEF ExactOK
<1>1. \A flags \in SUBSET {f \in Flag : flag[f] # Null} : CodesOf(flags) \subseteq Code
  BY DEF TablesOK, CodesOf, FlagRow
<1>2. \A codes \in SUBSET Code : Ok(codes) \in Response
  BY DEF Ok, Response
<1>3. \A status \in Errors : Error(status) \in Response
  BY DEF Error, Response
<1> QED
  BY <1>1, <1>2, <1>3 DEF Exact, Errors

\* The tables keep their types, whoever writes.
LEMMA StepTables == TablesOK /\ [Next]_vars => TablesOK'
<1> SUFFICES ASSUME TablesOK, [Next]_vars PROVE TablesOK'
  OBVIOUS
<1> USE DEF TablesOK
<1>1. ASSUME NEW c \in Client, Serve(c) PROVE TablesOK'
  BY <1>1 DEF Serve, Send, Guard, ResolveProject, FindFlag, Evaluate, AbortClient, flagTables
<1>2. ASSUME NEW r \in Request, Administer(r) PROVE TablesOK'
  <2>1. \A row \in FlagRow : Unlinked(row) \in FlagRow \cup {Null}
    BY DEF Unlinked, FlagRow
  <2>2. Unlinked(Null) = Null
    BY DEF Unlinked
  <2> QED  BY <1>2, <2>1, <2>2 DEF Administer
<1>3. ASSUME NEW f \in Flag, WriteFlag(f) PROVE TablesOK'
  BY <1>3, FlagRowsAssumption DEF WriteFlag
<1>4. ASSUME NEW t \in Token, WriteToken(t) PROVE TablesOK'
  BY <1>4 DEF WriteToken
<1>5. CASE Tick
  BY <1>5, TimeAssumption DEF Tick, Time
<1>6. CASE UNCHANGED vars
  BY <1>6 DEF vars, flagTables
<1> QED
  BY <1>1, <1>2, <1>3, <1>4, <1>5, <1>6 DEF Next

\* ProjectsService and EnvironmentsService as ClientFlags composes them are those
\* of Scopes: its every step is one of ScopeNext, or touches nothing of theirs.
THEOREM ImplementsScopes == Spec => ScopeSpec
<1>1. Init => InitScopes /\ TablesOK
  <2>1. Init => now \in Time
    BY TimeAssumption DEF Init, Time
  <2> QED  BY <2>1, FlagRowsAssumption DEF Init, TablesOK
<1>2. TablesOK /\ [Next]_vars => [ScopeNext]_scopeVars
  <2>1. ASSUME NEW c \in Client, Serve(c) PROVE UNCHANGED scopeVars
    BY <2>1 DEF Serve, Send, Guard, ResolveProject, FindFlag, Evaluate, AbortClient
  <2>2. ASSUME TablesOK, NEW r \in Request, Administer(r) PROVE ScopeNext
    BY <2>2, ReferredAreScopes DEF Administer, ScopeNext
  <2> QED
    BY <2>1, <2>2 DEF Next, WriteFlag, WriteToken, Tick, vars
<1> QED
  BY <1>1, <1>2, StepTables, PTL DEF Spec, ScopeSpec

\* What is proved in ScopesProofs holds here too: what a row keeps, that every
\* change of one is recorded and that every removal is.
THEOREM ScopesHere ==
    Spec => /\ []OnlyStaleSavesUndo
            /\ []ChangesAreRecorded
            /\ []ScopeRemovalsAreRecorded
            /\ []ScopesInv
            /\ []UniqueCodes
BY ImplementsScopes, ScopesAsDecided, ScopeChangesRecorded, ScopeRemovalsRecorded,
   ScopesTypeCorrect, CodesAreUnique, PTL

(***************************************************************************)
(* Types.                                                                  *)
(***************************************************************************)
\* The variables of the client requests.
ClientsOK ==
    /\ at \in [Client -> {"idle"} \cup ClientSteps \cup Ends]
    /\ ask \in [Client -> Ask \cup {Null}]
    /\ env \in [Client -> Environment \cup {Null}]
    /\ project \in [Client -> Project \cup {Null}]
    /\ asOf \in [Client -> Time]
    /\ answer \in [Client -> Response \cup {Null}]

SeenOK == seen \in [Client -> [writes : 0 .. 2, exact : SUBSET Response]]

\* A step of a client request keeps the types of its variables.
LEMMA ServeTypes ==
    ASSUME TablesOK, ClientsOK, SeenOK, \A d \in Client : Path(d),
           NEW c \in Client, Serve(c)
    PROVE  ClientsOK' /\ SeenOK' /\ \A d \in Client : Path(d)'
<1> USE DEF ClientsOK, Path, ClientSteps, Ends, flagTables
<1>0. \A status \in Errors : Error(status) \in Response
  BY DEF Error, Response
<1>1. CASE \E q \in Ask : Send(c, q)
  <2>1. PICK q \in Ask : Send(c, q)
    BY <1>1
  <2>2. ClientsOK' /\ \A d \in Client : Path(d)'
    BY <2>1 DEF Send
  <2>3. Exact(ask[c])' \in Response
    <3>1. TablesOK'
      BY <2>1 DEF TablesOK, Send
    <3>2. ExactOK'
      BY <3>1, ExactIsResponse, PTL
    <3> QED  BY <3>2 DEF ExactOK
  <2>4. Exact(ask[c])' = Exact(q)
    BY <2>1, <2>2 DEF Send, Exact, CodesOf, Bearer, Bearing, scopeVars, flagTables
  <2> QED  BY <2>1, <2>2, <2>3, <2>4 DEF Send, SeenOK
<1>2. CASE Guard(c)
  <2>1. token[ask[c].token] # Null => token[ask[c].token].env \in Environment
    BY <1>2 DEF Guard, TablesOK, Ask, TokenRow
  <2> QED  BY <1>0, <1>2, <2>1 DEF Guard, Answer, Errors, SeenOK
<1>3. CASE ResolveProject(c)
  BY <1>0, <1>3 DEF ResolveProject, Answer, Errors, Bearing, SeenOK, TablesOK
<1>4. CASE FindFlag(c)
  BY <1>0, <1>4 DEF FindFlag, Answer, Errors, SeenOK, TablesOK
<1>5. CASE Evaluate(c)
  <2>1. CodesOf(On(project[c], env[c], asOf[c])) \subseteq Code
    BY DEF TablesOK, CodesOf, On, FlagRow
  <2>2. \A codes \in SUBSET Code : Ok(codes) \in Response
    BY DEF Ok, Response
  <2> QED  BY <1>5, <2>1, <2>2 DEF Evaluate, Answer, SeenOK
<1>6. CASE AbortClient(c)
  BY <1>6 DEF AbortClient, SeenOK
<1> QED
  BY <1>1, <1>2, <1>3, <1>4, <1>5, <1>6 DEF Serve

\* So does a write: it notes an exact answer.
LEMMA NotedTypes ==
    ASSUME TablesOK', SeenOK, UNCHANGED clientVars, Noted
    PROVE  SeenOK'
<1>1. ExactOK'
  BY ExactIsResponse, PTL
<1>2. \A c \in Client : Exact(ask[c])' \in Response
  BY <1>1 DEF ExactOK
<1> QED  BY <1>2 DEF Noted, SeenOK

\* Every step keeps the types and the links; the rows of Scopes are typed by
\* ScopesTypeCorrect.
LEMMA StepInv == Inv /\ ScopesInv /\ ScopesInv' /\ [Next]_vars => Inv'
<1> SUFFICES ASSUME Inv, ScopesInv, ScopesInv', [Next]_vars PROVE Inv'
  OBVIOUS
<1>0. TablesOK /\ ClientsOK /\ SeenOK /\ LinksExist /\ \A c \in Client : Path(c)
  BY DEF Inv, TypeOK, TablesOK, ClientsOK, SeenOK
<1>1. TablesOK' /\ ScopesTypeOK'
  BY <1>0, StepTables DEF ScopesInv
<1>2. ClientsOK' /\ SeenOK' /\ \A c \in Client : Path(c)'
  <2>1. ASSUME NEW c \in Client, Serve(c)
        PROVE  ClientsOK' /\ SeenOK' /\ \A d \in Client : Path(d)'
    BY <1>0, <2>1, ServeTypes
  <2>2. ASSUME UNCHANGED clientVars, Noted \/ UNCHANGED seen
        PROVE  ClientsOK' /\ SeenOK' /\ \A c \in Client : Path(c)'
    <3>1. ClientsOK' /\ \A c \in Client : Path(c)'
      BY <1>0, <2>2 DEF ClientsOK, Path, clientVars
    <3>2. SeenOK'
      BY <1>0, <1>1, <2>2, NotedTypes DEF SeenOK
    <3> QED  BY <3>1, <3>2
  <2> QED
    BY <2>1, <2>2 DEF Next, Administer, WriteFlag, WriteToken, Tick, vars
<1>3. LinksExist'
  <2>1. ASSUME UNCHANGED scope, UNCHANGED flag PROVE LinksExist'
    BY <1>0, <2>1 DEF LinksExist, Existing
  <2>2. ASSUME NEW r \in Request, Administer(r) PROVE LinksExist'
    <3> SUFFICES ASSUME NEW f \in Flag, flag'[f] # Null, NEW p \in flag'[f].projects
                 PROVE  p \in Existing'
      BY DEF LinksExist
    <3>1. flag'[f] = Unlinked(flag[f]) /\ flag[f] # Null /\ flag[f] \in FlagRow
      BY <1>0, <2>2 DEF Administer, Unlinked, TablesOK
    <3>2. p \in flag[f].projects /\ scope'[p] # Null
      BY <3>1 DEF Unlinked, FlagRow
    <3> QED  BY <3>1, <3>2 DEF Existing, FlagRow, Scope
  <2>3. ASSUME NEW f \in Flag, WriteFlag(f) PROVE LinksExist'
    BY <1>0, <2>3 DEF WriteFlag, FlagRefers, LinksExist, Existing, scopeVars, TablesOK
  <2> QED
    BY <2>1, <2>2, <2>3
       DEF Next, Serve, Send, Guard, ResolveProject, FindFlag, Evaluate, AbortClient,
           WriteToken, Tick, vars, scopeVars, flagTables
<1> QED
  BY <1>1, <1>2, <1>3 DEF Inv, TypeOK, TablesOK, ClientsOK, SeenOK

\* TypeOK: every table and every client request's variables stay in their types.
THEOREM TypeCorrect == Spec => []Inv /\ []TypeOK
<1>1. Init => Inv
  <2>1. Init => InitScopes /\ 0 \in Time
    BY TimeAssumption DEF Init, Time
  <2>2. InitScopes => ScopesTypeOK
    BY DEF InitScopes, ScopesTypeOK, Existing, Blank, Dto
  <2>3. Init => TypeOK
    BY <2>1, <2>2, FlagRowsAssumption DEF Init, TypeOK
  <2>4. Init => LinksExist /\ \A c \in Client : Path(c)
    BY DEF Init, LinksExist, FlagRefers, Path
  <2> QED  BY <2>3, <2>4 DEF Inv
<1>2. Inv => TypeOK
  BY DEF Inv
<1> QED
  BY <1>1, <1>2, StepInv, ScopesHere, PTL DEF Spec

(***************************************************************************)
(* Lists.                                                                  *)
(***************************************************************************)
\* findAll: its two translations of a filter select the same flags where no
\* environment is a condition, and conditions on one environment that are
\* complements of each other split what the rest of the filter selects.
LEMMA ListsSplit ==
    ASSUME NEW q \in Filter, NEW e \in Environment, q.env[e] = Absent, ~ FindRefused(q)
    PROVE  LET enabled == FindAll(flag, [q EXCEPT !.env[e] = "true"], Null)
               disabled == FindAll(flag, [q EXCEPT !.env[e] = "false"], Null)
           IN /\ enabled \cap disabled = {}
              /\ enabled \cup disabled = FindAll(flag, q, Null)
<1> DEFINE With(v) == [q EXCEPT !.env[e] = v]
<1>1. ASSUME NEW v \in {"true", "false"}
      PROVE  FindAll(flag, With(v), Null) =
                {f \in ByQuery(flag, q, Null) : EnvironmentIs(flag[f], e, v)}
  <2>1. /\ With(v).env = [q.env EXCEPT ![e] = v]
        /\ With(v).id = q.id /\ With(v).code = q.code /\ With(v).projects = q.projects
        /\ With(v).projectId = q.projectId /\ With(v).expiresAt = q.expiresAt
    BY DEF Filter
  <2>2. DOMAIN q.env = Environment /\ q.env[e] = Absent
    BY DEF Filter
  <2>3. HasEnvFilters(With(v))
    BY <2>1, <2>2, AbsentAssumption DEF HasEnvFilters
  <2>4. \A f \in DOMAIN flag :
          (\A x \in DOMAIN With(v).env : EnvironmentIs(flag[f], x, With(v).env[x]))
            <=> /\ \A x \in DOMAIN q.env : EnvironmentIs(flag[f], x, q.env[x])
                /\ EnvironmentIs(flag[f], e, v)
    BY <2>1, <2>2, AbsentAssumption DEF EnvironmentIs
  <2> QED  BY <2>1, <2>3, <2>4 DEF FindAll, ByQuery
<1>2. FindAll(flag, q, Null) = ByQuery(flag, q, Null)
  <2>1. CASE HasEnvFilters(q)
    BY <2>1 DEF FindAll
  <2>2. CASE ~ HasEnvFilters(q)
    <3>1. \A f \in DOMAIN flag, x \in DOMAIN q.env : EnvironmentIs(flag[f], x, q.env[x])
      BY <2>2, AbsentAssumption DEF HasEnvFilters, EnvironmentIs
    <3> QED
      BY <2>2, <3>1 DEF FindAll, ByFind, ByQuery, IdIs, CodeLike, LinkedTo
  <2> QED  BY <2>1, <2>2
<1>3. \A f : EnvironmentIs(flag[f], e, "true") <=> ~ EnvironmentIs(flag[f], e, "false")
  BY DEF EnvironmentIs
<1> QED  BY <1>1, <1>2, <1>3

\* findAll: asking for what is enabled in an environment and for what is disabled
\* there splits the list, in whichever of its two forms it is answered.
THEOREM ListsSplitHere == Spec => []EnvFilterSplitsTheList
<1>1. EnvFilterSplitsTheList
  BY ListsSplit, FiltersAssumption DEF EnvFilterSplitsTheList
<1> QED
  BY <1>1, PTL

(***************************************************************************)
(* What a client is answered.                                              *)
(*                                                                         *)
(* The answer to come is what a request would be answered if the queries   *)
(* it has left all ran now.  Its own steps do not change that.  As long as *)
(* nothing was written, it is the exact answer, because what the request   *)
(* has found so far still holds.  The first write changes what it has      *)
(* found, and then the answer to come is what it was; or it does not, and  *)
(* then the answer to come is the answer that is exact from now on.        *)
(***************************************************************************)
FlagCodes == CodesOf({f \in Flag : flag[f] # Null})

\* The part of codes that is asked for.
Part(q, codes) == IF q.flag = Null THEN codes ELSE codes \cap {q.flag}

\* The answer to come from each step on.
EvaluateToCome(c) == Ok(Part(ask[c], CodesOf(On(project[c], env[c], asOf[c]))))
EvaluateNow(c) == Ok(Part(ask[c], CodesOf(On(project[c], env[c], now))))
FlagToCome(c) == IF ask[c].flag \in FlagCodes THEN EvaluateNow(c) ELSE Error("notFound")
ProjectToCome(c) ==
    IF ask[c].project = Null THEN Error("badRequest")
    ELSE IF \/ Bearing(ask[c].project, Project) = {}
            \/ ask[c].flag # Null /\ ask[c].flag \notin FlagCodes
         THEN Error("notFound")
    ELSE Ok(Part(ask[c], CodesOf(On(Bearer(ask[c].project), env[c], now))))

ToCome(c) ==
    IF at[c] = "guard" THEN Exact(ask[c])
    ELSE IF at[c] = "project" THEN ProjectToCome(c)
    ELSE IF at[c] = "flag" THEN FlagToCome(c)
    ELSE EvaluateToCome(c)

\* What the guard, the project's query and the flag's query have found.
Guarded(c) ==
    LET t == ask[c].token IN
    /\ token[t] # Null /\ token[t].active /\ token[t].env = env[c]
    /\ scope[env[c]].code = ask[c].env
Found(c) == project[c] \in Bearing(ask[c].project, Project)
FlagFound(c) == asOf[c] = now /\ (ask[c].flag # Null => ask[c].flag \in FlagCodes)

StillFound(c) ==
    /\ at[c] \in {"project", "flag", "evaluate"} => Guarded(c)
    /\ at[c] \in {"flag", "evaluate"} => Found(c)
    /\ at[c] = "evaluate" => FlagFound(c)

AnswerInv(c) ==
    /\ at[c] \in ClientSteps /\ seen[c].writes = 0 =>
          seen[c].exact = {Exact(ask[c])} /\ StillFound(c)
    /\ at[c] \in ClientSteps /\ seen[c].writes = 1 =>
          \E a \in seen[c].exact : Alike(ToCome(c), a)
    /\ at[c] = "done" =>
          /\ seen[c].writes = 0 => answer[c] \in seen[c].exact
          /\ seen[c].writes = 1 => \E a \in seen[c].exact : Alike(answer[c], a)

\* Bearer: what the project's query returns, however often it is asked.
LEMMA BearerIsUnique ==
    ASSUME UniqueCodes, NEW code, NEW p \in Bearing(code, Project)
    PROVE  Bearer(code) = p
<1>1. \A x \in Bearing(code, Project) : x = p
  BY DEF Bearing, UniqueCodes, CodeFree, Existing, Table, Scope
<1>2. Bearer(code) \in Bearing(code, Project)
  BY DEF Bearer, Bearing
<1> QED  BY <1>1, <1>2

\* What holds of a request when all it has found holds: the answer to come is the
\* exact one, at each of its steps.
Agrees(c) ==
    /\ Guarded(c) => ProjectToCome(c) = Exact(ask[c])
    /\ Guarded(c) /\ Found(c) /\ ask[c].project # Null =>
          /\ ask[c].flag # Null => FlagToCome(c) = Exact(ask[c])
          /\ ask[c].flag = Null \/ ask[c].flag \in FlagCodes => EvaluateNow(c) = Exact(ask[c])
          /\ Alike(EvaluateNow(c), Exact(ask[c]))
    /\ Found(c) /\ ask[c].project # Null =>
          /\ ask[c].flag # Null => FlagToCome(c) = ProjectToCome(c)
          /\ ask[c].flag = Null => EvaluateNow(c) = ProjectToCome(c)
AllAgree == \A c \in Client : Agrees(c)

\* A flag that does not exist is off, and no two projects bear one code.
LEMMA AnswersAgree == UniqueCodes => AllAgree
<1> SUFFICES ASSUME UniqueCodes, NEW c \in Client PROVE Agrees(c)
  BY DEF AllAgree
<1>1. ASSUME Guarded(c) PROVE ProjectToCome(c) = Exact(ask[c])
  <2>1. CASE \/ ask[c].project = Null
             \/ Bearing(ask[c].project, Project) = {}
             \/ ask[c].flag # Null /\ ask[c].flag \notin FlagCodes
    BY <1>1, <2>1 DEF Guarded, ProjectToCome, Exact, FlagCodes
  <2>2. CASE ~ (\/ ask[c].project = Null
                \/ Bearing(ask[c].project, Project) = {}
                \/ ask[c].flag # Null /\ ask[c].flag \notin FlagCodes)
    <3> DEFINE p == Bearer(ask[c].project)
               e == env[c]
               On2 == {f \in Flag : /\ flag[f] # Null /\ p \in flag[f].projects
                                    /\ flag[f].values[e] = "on"
                                    /\ flag[f].expires = Null \/ now < flag[f].expires}
    <3>1. p \in Existing
      <4>1. p \in Bearing(ask[c].project, Project)
        BY <2>2 DEF Bearer, Bearing
      <4> QED  BY <4>1 DEF Bearing, Existing, Scope
    <3>2. On(p, e, now) = On2
      BY <3>1 DEF On, Linked
    <3>3. ProjectToCome(c) = Ok(Part(ask[c], CodesOf(On2)))
      BY <2>2, <3>2 DEF ProjectToCome
    <3>4. Exact(ask[c]) = Ok(Part(ask[c], CodesOf(On2)))
      BY <1>1, <2>2 DEF Guarded, Exact, FlagCodes, Part
    <3> QED  BY <3>3, <3>4
  <2> QED  BY <2>1, <2>2
<1>2. ASSUME Found(c), ask[c].project # Null
      PROVE  /\ Bearing(ask[c].project, Project) # {}
             /\ ProjectToCome(c) = IF ask[c].flag # Null /\ ask[c].flag \notin FlagCodes
                                   THEN Error("notFound") ELSE EvaluateNow(c)
  <2>1. Bearer(ask[c].project) = project[c]
    BY <1>2, BearerIsUnique DEF Found
  <2>2. Bearing(ask[c].project, Project) # {}
    BY <1>2 DEF Found
  <2> QED  BY <1>2, <2>1, <2>2 DEF ProjectToCome, EvaluateNow
<1>3. ASSUME ask[c].flag # Null, ask[c].flag \notin FlagCodes
      PROVE  Alike(EvaluateNow(c), Error("notFound"))
  <2> DEFINE codes == CodesOf(On(project[c], env[c], now))
  <2>1. codes \subseteq FlagCodes
    BY DEF CodesOf, On, FlagCodes
  <2>2. EvaluateNow(c) = Ok({})
    BY <1>3, <2>1 DEF EvaluateNow, Part
  <2> QED  BY <2>2 DEF Alike, Ok, Error
<1>4. \A a : Alike(a, a)
  BY DEF Alike
<1> QED
  BY <1>1, <1>2, <1>3, <1>4 DEF Agrees, FlagToCome

\* The flag's query and the one that evaluates read flags, and of the project
\* only whether it is there.
LEMMA FlagQueriesRead ==
    ASSUME NEW c \in Client, flag' = flag, ask'[c] = ask[c], env'[c] = env[c],
           project'[c] = project[c], (project[c] \in Existing)' <=> project[c] \in Existing
    PROVE  /\ now' = now => /\ EvaluateNow(c)' = EvaluateNow(c)
                            /\ FlagToCome(c)' = FlagToCome(c)
           /\ asOf'[c] = asOf[c] => EvaluateToCome(c)' = EvaluateToCome(c)
<1>1. FlagCodes' = FlagCodes
  BY DEF FlagCodes, CodesOf
<1>2. /\ now' = now => EvaluateNow(c)' = EvaluateNow(c)
      /\ asOf'[c] = asOf[c] => EvaluateToCome(c)' = EvaluateToCome(c)
  BY DEF EvaluateNow, EvaluateToCome, CodesOf, On, Linked, Part
<1> QED  BY <1>1, <1>2 DEF FlagToCome

\* The project's query and all that follow read flags and projects.
LEMMA ProjectQueryReads ==
    ASSUME NEW c \in Client, UNCHANGED <<flag, now>>, ask'[c] = ask[c], env'[c] = env[c],
           \A p \in Project : scope'[p] = scope[p]
    PROVE  ProjectToCome(c)' = ProjectToCome(c)
<1> DEFINE p == Bearer(ask[c].project)
           codes == CodesOf(On(p, env[c], now))
<1>1. /\ (ask[c].flag \in FlagCodes)' = (ask[c].flag \in FlagCodes)
      /\ p' = p
      /\ (Bearing(ask[c].project, Project) = {})' = (Bearing(ask[c].project, Project) = {})
  BY DEF FlagCodes, CodesOf, Bearer, Bearing
<1>2. CASE Bearing(ask[c].project, Project) = {}
  BY <1>1, <1>2 DEF ProjectToCome
<1>3. CASE Bearing(ask[c].project, Project) # {}
  <2>1. p \in Project /\ p \in Existing /\ p \in Existing'
    BY <1>3 DEF Bearer, Bearing, Existing, Scope
  <2>2. codes' = codes
    BY <1>1, <2>1 DEF CodesOf, On, Linked
  <2> QED  BY <1>1, <2>2 DEF ProjectToCome, Part
<1> QED  BY <1>2, <1>3

\* All of them read the tables and what the request holds, and nothing else.
LEMMA QueriesRead ==
    ASSUME NEW c \in Client, UNCHANGED <<scope, flag, token, now>>, ask'[c] = ask[c]
    PROVE  /\ FlagCodes' = FlagCodes
           /\ Exact(ask[c])' = Exact(ask[c])
           /\ env'[c] = env[c] => /\ Guarded(c)' = Guarded(c)
                                  /\ ProjectToCome(c)' = ProjectToCome(c)
           /\ env'[c] = env[c] /\ project'[c] = project[c] =>
                 /\ Found(c)' = Found(c)
                 /\ EvaluateNow(c)' = EvaluateNow(c)
                 /\ FlagToCome(c)' = FlagToCome(c)
                 /\ asOf'[c] = asOf[c] => /\ EvaluateToCome(c)' = EvaluateToCome(c)
                                          /\ FlagFound(c)' = FlagFound(c)
<1>1. FlagCodes' = FlagCodes
  BY DEF FlagCodes, CodesOf
<1>2. Exact(ask[c])' = Exact(ask[c])
  BY DEF Exact, CodesOf, Bearer, Bearing
<1>3. /\ env'[c] = env[c] => Guarded(c)' = Guarded(c)
      /\ project'[c] = project[c] => Found(c)' = Found(c)
      /\ asOf'[c] = asOf[c] => FlagFound(c)' = FlagFound(c)
  BY <1>1 DEF Guarded, Found, FlagFound, Bearing
<1>4. (project[c] \in Existing)' <=> project'[c] \in Existing
  BY DEF Existing
<1> QED
  BY <1>1, <1>2, <1>3, <1>4, FlagQueriesRead, ProjectQueryReads

\* As long as what a request has found still holds, what it will be answered is
\* the exact answer.
LEMMA ToComeIsExact ==
    ASSUME Inv, UniqueCodes, NEW c \in Client, at[c] \in ClientSteps, StillFound(c)
    PROVE  ToCome(c) = Exact(ask[c])
<1>1. Agrees(c)
  BY AnswersAgree DEF AllAgree
<1>2. Path(c)
  BY DEF Inv
<1>3. at[c] = "evaluate" => EvaluateToCome(c) = EvaluateNow(c)
  BY DEF StillFound, FlagFound, EvaluateToCome, EvaluateNow
<1> QED
  BY <1>1, <1>2, <1>3 DEF ToCome, StillFound, Agrees, Path, ClientSteps, FlagFound

\* Guard, ResolveProject, FindFlag, Evaluate: each gives the answer to come, or
\* leaves it as it is and finds what it goes on with.
LEMMA OwnStep ==
    ASSUME Inv, UniqueCodes', NEW c \in Client,
           Guard(c) \/ ResolveProject(c) \/ FindFlag(c) \/ Evaluate(c)
    PROVE  /\ at[c] \in ClientSteps /\ ask' = ask
           /\ Exact(ask[c])' = Exact(ask[c])
           /\ \/ at'[c] = "done" /\ answer'[c] = ToCome(c)
              \/ /\ at'[c] \in ClientSteps
                 /\ ToCome(c)' = ToCome(c)
                 /\ StillFound(c) => StillFound(c)'
<1> USE DEF Answer, ClientSteps
<1>0. /\ UNCHANGED <<scope, flag, token, now>> /\ ask' = ask
      /\ at \in [Client -> {"idle"} \cup ClientSteps \cup Ends] /\ Path(c)
      /\ env \in [Client -> Environment \cup {Null}]
      /\ project \in [Client -> Project \cup {Null}]
      /\ asOf \in [Client -> Time]
      /\ answer \in [Client -> Response \cup {Null}]
  BY DEF Guard, ResolveProject, FindFlag, Evaluate, scopeVars, flagTables, Inv, TypeOK
<1>1. Agrees(c)'
  <2>1. AllAgree'
    BY AnswersAgree, PTL
  <2> QED  BY <2>1 DEF AllAgree
<1>2. CASE Guard(c)
  <2>1. CASE at'[c] = "done"
    BY <1>0, <1>2, <2>1, QueriesRead DEF Guard, ToCome, Exact
  <2>2. CASE at'[c] # "done"
    <3>1. at[c] = "guard" /\ at'[c] = "project" /\ Guarded(c)'
      BY <1>0, <1>2, <2>2 DEF Guard, Guarded
    <3>2. ToCome(c)' = Exact(ask[c])' /\ ToCome(c) = Exact(ask[c])
      BY <1>1, <3>1 DEF ToCome, Agrees
    <3> QED  BY <1>0, <3>1, <3>2, QueriesRead DEF StillFound
  <2> QED  BY <2>1, <2>2
<1>3. CASE ResolveProject(c)
  <2>1. CASE at'[c] = "done"
    BY <1>0, <1>3, <2>1, QueriesRead DEF ResolveProject, ToCome, ProjectToCome
  <2>2. CASE at'[c] # "done"
    <3>1. /\ at[c] = "project" /\ env' = env /\ Found(c)' /\ ask[c].project # Null
          /\ at'[c] = IF ask[c].flag = Null THEN "evaluate" ELSE "flag"
          /\ asOf'[c] = now
      BY <1>0, <1>3, <2>2 DEF ResolveProject, Found, Bearing
    <3>2. ToCome(c)' = ProjectToCome(c)'
      <4>1. CASE ask[c].flag = Null
        <5>1. EvaluateToCome(c)' = EvaluateNow(c)'
          BY <1>0, <3>1 DEF EvaluateToCome, EvaluateNow
        <5> QED  BY <1>0, <1>1, <3>1, <4>1, <5>1 DEF ToCome, Agrees
      <4>2. CASE ask[c].flag # Null
        BY <1>0, <1>1, <3>1, <4>2 DEF ToCome, Agrees
      <4> QED  BY <4>1, <4>2
    <3>3. ToCome(c) = ProjectToCome(c)
      BY <3>1 DEF ToCome
    <3>4. StillFound(c) => StillFound(c)'
      BY <1>0, <3>1, QueriesRead DEF StillFound, FlagFound
    <3> QED  BY <1>0, <3>1, <3>2, <3>3, <3>4, QueriesRead
  <2> QED  BY <2>1, <2>2
<1>4. CASE FindFlag(c)
  <2>1. CASE at'[c] = "done"
    BY <1>0, <1>4, <2>1, QueriesRead DEF FindFlag, ToCome, FlagToCome, FlagCodes
  <2>2. CASE at'[c] # "done"
    <3>1. /\ at[c] = "flag" /\ env' = env /\ project' = project
          /\ at'[c] = "evaluate" /\ asOf'[c] = now /\ ask[c].flag \in FlagCodes
      BY <1>0, <1>4, <2>2 DEF FindFlag, FlagCodes
    <3>2. ToCome(c)' = EvaluateNow(c)'
      BY <1>0, <3>1 DEF ToCome, EvaluateToCome, EvaluateNow
    <3>3. ToCome(c) = EvaluateNow(c)
      BY <3>1 DEF ToCome, FlagToCome
    <3>4. StillFound(c) => StillFound(c)'
      BY <1>0, <3>1, QueriesRead DEF StillFound, FlagFound
    <3> QED  BY <1>0, <3>1, <3>2, <3>3, <3>4, QueriesRead
  <2> QED  BY <2>1, <2>2
<1>5. CASE Evaluate(c)
  BY <1>0, <1>5, QueriesRead DEF Evaluate, ToCome, EvaluateToCome, Part
<1> QED
  BY <1>2, <1>3, <1>4, <1>5

(***************************************************************************)
(* The first write under a request.                                        *)
(***************************************************************************)
\* Administer: a link goes with its project, and nothing else of a flag changes.
LEMMA LinksStay ==
    ASSUME Inv, NEW r \in Request, Administer(r),
           \A p \in Project : scope[p] # Null => scope'[p] # Null
    PROVE  flag' = flag
<1>1. ASSUME NEW f \in Flag PROVE Unlinked(flag[f]) = flag[f]
  <2>1. CASE flag[f] = Null
    BY <2>1 DEF Unlinked
  <2>2. CASE flag[f] # Null
    <3>1. flag[f] \in FlagRow /\ flag[f].projects \subseteq Existing
      BY <2>2 DEF Inv, TypeOK, LinksExist
    <3>2. {p \in flag[f].projects : scope'[p] # Null} = flag[f].projects
      BY <3>1 DEF Existing, FlagRow
    <3> QED  BY <2>2, <3>1, <3>2 DEF Unlinked, FlagRow
  <2> QED  BY <2>1, <2>2
<1>2. flag = [f \in Flag |-> flag[f]]
  BY DEF Inv, TypeOK
<1> QED  BY <1>1, <1>2 DEF Administer

\* A request of which all that it has found was true before the write, and what
\* it is to be answered after it.
WholeOrNot(c) == Alike(ToCome(c)', Exact(ask[c])) \/ Alike(ToCome(c)', Exact(ask[c])')

\* When a write leaves what was found true but for the flags, the answer to come
\* is the exact one of after.
LEMMA StillTrue ==
    ASSUME Inv, UniqueCodes', UNCHANGED clientVars, NEW c \in Client, at[c] \in ClientSteps,
           at[c] \in {"project", "flag", "evaluate"} => Guarded(c)',
           at[c] \in {"flag", "evaluate"} => Found(c)',
           at[c] = "evaluate" => asOf[c] = now'
    PROVE  Alike(ToCome(c)', Exact(ask[c])')
<1>1. Agrees(c)'
  <2>1. AllAgree'
    BY AnswersAgree, PTL
  <2> QED  BY <2>1 DEF AllAgree
<1>2. Path(c) /\ at' = at /\ ask' = ask /\ asOf' = asOf
  BY DEF Inv, clientVars
<1>3. at[c] = "evaluate" => EvaluateToCome(c)' = EvaluateNow(c)'
  BY <1>2 DEF EvaluateToCome, EvaluateNow
<1>4. \A a : Alike(a, a)
  BY DEF Alike
<1> QED
  BY <1>1, <1>2, <1>3, <1>4 DEF ToCome, Agrees, Path, ClientSteps

\* WriteToken: what comes after the guard does not read tokens.
LEMMA TokenWrite ==
    ASSUME Inv, UniqueCodes, NEW c \in Client, at[c] \in ClientSteps, StillFound(c),
           UNCHANGED <<scope, flag, now, clientVars>>
    PROVE  WholeOrNot(c)
<1>1. UNCHANGED <<at, ask, env, project, asOf>>
  BY DEF clientVars
<1>2. (project[c] \in Existing)' <=> project[c] \in Existing
  BY <1>1 DEF Existing
<1>3. at[c] = "guard" => ToCome(c)' = Exact(ask[c])'
  BY <1>1 DEF ToCome
<1>4. at[c] # "guard" => ToCome(c)' = ToCome(c)
  BY <1>1, <1>2, FlagQueriesRead, ProjectQueryReads DEF ToCome
<1> QED
  BY <1>3, <1>4, ToComeIsExact DEF WholeOrNot, Alike

\* WriteFlag and the clock: only a request that evaluates as of before the clock
\* moved is answered what was exact before.
LEMMA FlagWrite ==
    ASSUME Inv, UniqueCodes, UniqueCodes', NEW c \in Client, at[c] \in ClientSteps,
           StillFound(c), UNCHANGED <<scope, token, clientVars>>, now' = now \/ flag' = flag
    PROVE  WholeOrNot(c)
<1>1. UNCHANGED <<at, ask, env, project, asOf>>
  BY DEF clientVars
<1>2. Guarded(c)' = Guarded(c) /\ Found(c)' = Found(c)
  BY <1>1 DEF Guarded, Found, Bearing
<1>3. CASE at[c] = "evaluate" => now' = now
  <2>1. at[c] = "evaluate" => asOf[c] = now'
    BY <1>3 DEF StillFound, FlagFound
  <2> QED  BY <1>2, <2>1, StillTrue DEF StillFound, WholeOrNot
<1>4. CASE at[c] = "evaluate" /\ flag' = flag
  <2>1. (project[c] \in Existing)' <=> project[c] \in Existing
    BY <1>1 DEF Existing
  <2>2. ToCome(c)' = ToCome(c)
    BY <1>1, <1>4, <2>1, FlagQueriesRead DEF ToCome
  <2> QED  BY <2>2, ToComeIsExact DEF WholeOrNot, Alike
<1> QED  BY <1>3, <1>4

\* A project or environment is written: a request that has found another row goes
\* on as if nothing had been written, or as if it came after; one that has found
\* this project does not notice its new code, and finds no flag of it when it is
\* gone.
LEMMA ScopeWrite ==
    ASSUME Inv, UniqueCodes, UniqueCodes', NEW c \in Client, at[c] \in ClientSteps,
           StillFound(c), UNCHANGED <<now, token, clientVars>>,
           NEW r \in Request, Administer(r),
           NEW x \in Scope, NEW row, scope' = [scope EXCEPT ![x] = row]
    PROVE  WholeOrNot(c)
<1>0. UNCHANGED <<at, ask, env, project, asOf, now, token>> /\ Path(c)
  BY DEF clientVars, Inv
<1>1. \A y \in Scope : scope'[y] = IF y = x THEN row ELSE scope[y]
  BY DEF Inv, TypeOK, ScopesTypeOK
<1>2. CASE at[c] = "guard"
  BY <1>0, <1>2 DEF ToCome, WholeOrNot, Alike
<1>3. CASE at[c] # "guard" /\ x \in Environment
  <2>1. \A p \in Project : scope'[p] = scope[p]
    BY <1>1, <1>3, ScopeAssumption DEF Scope
  <2>2. flag' = flag
    BY <2>1, LinksStay
  <2>3. ToCome(c)' = ToCome(c)
    <3>1. at[c] = "project" => ToCome(c)' = ToCome(c)
      BY <1>0, <2>1, <2>2, ProjectQueryReads DEF ToCome
    <3>2. ASSUME at[c] # "project" PROVE ToCome(c)' = ToCome(c)
      <4>1. (project[c] \in Existing)' <=> project[c] \in Existing
        BY <1>0, <1>3, <2>1, <3>2 DEF Path, ClientSteps, Existing, Scope
      <4> QED  BY <1>0, <1>3, <2>2, <3>2, <4>1, FlagQueriesRead DEF ToCome
    <3> QED  BY <3>1, <3>2
  <2> QED  BY <2>3, ToComeIsExact DEF WholeOrNot, Alike
<1>4. CASE at[c] # "guard" /\ x \in Project
  <2>1. Guarded(c)'
    <3>1. env[c] \in Environment /\ Guarded(c)
      BY <1>0, <1>4 DEF Path, ClientSteps, StillFound
    <3>2. scope'[env[c]] = scope[env[c]]
      BY <1>1, <1>4, <3>1, ScopeAssumption DEF Scope
    <3> QED  BY <1>0, <3>1, <3>2 DEF Guarded
  <2>2. CASE at[c] \in {"flag", "evaluate"} => Found(c)'
    <3>1. at[c] = "evaluate" => asOf[c] = now'
      BY <1>0 DEF StillFound, FlagFound
    <3> QED  BY <2>1, <2>2, <3>1, StillTrue DEF WholeOrNot
  <2>3. CASE at[c] \in {"flag", "evaluate"} /\ ~ Found(c)'
    <3>0. project[c] \in Bearing(ask[c].project, Project) /\ ask[c].project # Null
      BY <1>0, <2>3 DEF StillFound, Found, Path
    <3>1. project[c] = x
      BY <1>0, <1>1, <2>3, <3>0 DEF Found, Bearing, Scope
    <3>2. CASE row = Null
      <4>1. On(project[c], env[c], asOf[c])' = {} /\ On(project[c], env[c], now)' = {}
        BY <1>0, <1>1, <3>1, <3>2 DEF On, Linked, Existing
      <4>2. ToCome(c)' \in {Ok({}), Error("notFound")}
        BY <1>0, <2>3, <4>1
           DEF ToCome, FlagToCome, EvaluateToCome, EvaluateNow, CodesOf, Part
      <4>3. Bearing(ask[c].project, Project)' = {}
        <5>1. \A y \in Bearing(ask[c].project, Project) : y = x
          BY <3>0, <3>1, BearerIsUnique
        <5> QED  BY <1>0, <1>1, <3>2, <5>1 DEF Bearing, Scope
      <4>4. Exact(ask[c])' = Error("notFound")
        <5>1. AllAgree'
          BY AnswersAgree, PTL
        <5>2. Exact(ask[c])' = ProjectToCome(c)'
          BY <2>1, <5>1 DEF AllAgree, Agrees
        <5> QED  BY <1>0, <3>0, <4>3, <5>2 DEF ProjectToCome
      <4> QED  BY <4>2, <4>4 DEF WholeOrNot, Alike, Ok, Error
    <3>3. CASE row # Null
      <4>1. \A p \in Project : scope[p] # Null => scope'[p] # Null
        BY <1>1, <3>3 DEF Scope
      <4>2. flag' = flag
        BY <4>1, LinksStay
      <4>3. (project[c] \in Existing)' <=> project[c] \in Existing
        BY <1>0, <1>1, <3>0, <3>1, <3>3 DEF Existing, Bearing, Scope
      <4>4. ToCome(c)' = ToCome(c)
        BY <1>0, <2>3, <4>2, <4>3, FlagQueriesRead DEF ToCome
      <4> QED  BY <4>4, ToComeIsExact DEF WholeOrNot, Alike
    <3> QED  BY <3>2, <3>3
  <2> QED  BY <2>2, <2>3
<1> QED  BY <1>2, <1>3, <1>4 DEF Scope

\* A step of the administrators writes one row of the tables of Scopes, or none.
LEMMA OneRow ==
    ASSUME Inv, ScopesInv, NEW r \in Request, Administer(r)
    PROVE  scope' = scope \/ \E x \in Scope, row \in Row \cup {Null} : scope' = [scope EXCEPT ![x] = row]
<1>1. ScopeNext
  BY ReferredAreScopes DEF Inv, TypeOK, TablesOK, Administer, ScopeNext
<1>2. PICK q \in Request : Inserts(q) \/ Saves(q) \/ Deletes(q) \/ Records(q) \/ Reads(q)
  BY <1>1, EachStep
<1>3. Holds(q) /\ req[q].dto \in Dto /\ loaded[q] \in Row \cup {Null}
  BY DEF ScopesInv, ScopesTypeOK
<1>4. CASE Inserts(q)
  BY <1>3, <1>4 DEF Inserts, Holds, Row, Dto
<1>5. CASE Saves(q)
  BY <1>3, <1>5, AssignedIsRow DEF Saves, Holds, Copy
<1> QED  BY <1>2, <1>3, <1>4, <1>5 DEF Deletes, Records, Reads, Holds

(***************************************************************************)
(* Every step keeps AnswerInv.                                             *)
(***************************************************************************)
\* Nothing that a request reads has changed.
LEMMA Untouched ==
    ASSUME NEW c \in Client, AnswerInv(c), UNCHANGED <<scope, flag, token, now>>,
           at'[c] = at[c], ask'[c] = ask[c], env'[c] = env[c], project'[c] = project[c],
           asOf'[c] = asOf[c], answer'[c] = answer[c], seen'[c] = seen[c]
    PROVE  AnswerInv(c)'
<1>1. /\ ToCome(c)' = ToCome(c)
      /\ StillFound(c)' = StillFound(c)
      /\ Exact(ask[c])' = Exact(ask[c])
  BY QueriesRead DEF ToCome, StillFound
<1> QED  BY <1>1 DEF AnswerInv

\* The steps of the client requests.
LEMMA ServeAnswers ==
    ASSUME Inv, UniqueCodes, UniqueCodes', \A d \in Client : AnswerInv(d),
           NEW c \in Client, Serve(c)
    PROVE  \A d \in Client : AnswerInv(d)'
<1>0. ClientsOK /\ SeenOK /\ UNCHANGED <<scope, flag, token, now>>
  BY DEF Inv, TypeOK, ClientsOK, SeenOK, Serve, Send, Guard, ResolveProject, FindFlag,
         Evaluate, AbortClient, scopeVars, flagTables
<1>1. ASSUME NEW d \in Client \ {c} PROVE AnswerInv(d)'
  <2>1. /\ at'[d] = at[d] /\ ask'[d] = ask[d] /\ env'[d] = env[d]
        /\ project'[d] = project[d] /\ asOf'[d] = asOf[d]
        /\ answer'[d] = answer[d] /\ seen'[d] = seen[d]
    BY <1>0, <1>1 DEF ClientsOK, SeenOK, Serve, Send, Guard, ResolveProject, FindFlag,
                      Evaluate, AbortClient, Answer
  <2> QED  BY <1>0, <2>1, Untouched
<1>2. AnswerInv(c)'
  <2>1. ASSUME NEW q \in Ask, Send(c, q) PROVE AnswerInv(c)'
    <3>1. /\ at'[c] = "guard" /\ ask'[c] = q
          /\ seen'[c] = [writes |-> 0, exact |-> {Exact(q)}]
      BY <1>0, <2>1 DEF Send, ClientsOK, SeenOK
    <3>2. Exact(ask[c])' = Exact(q)
      BY <1>0, <3>1 DEF Exact, CodesOf, Bearer, Bearing
    <3> QED  BY <3>1, <3>2 DEF AnswerInv, StillFound
  <2>2. ASSUME Guard(c) \/ ResolveProject(c) \/ FindFlag(c) \/ Evaluate(c)
        PROVE  AnswerInv(c)'
    <3>1. /\ at[c] \in ClientSteps /\ seen' = seen
          /\ Exact(ask[c])' = Exact(ask[c])
          /\ \/ at'[c] = "done" /\ answer'[c] = ToCome(c)
             \/ /\ at'[c] \in ClientSteps
                /\ ToCome(c)' = ToCome(c)
                /\ StillFound(c) => StillFound(c)'
      BY <2>2, OwnStep DEF Guard, ResolveProject, FindFlag, Evaluate
    <3>2. seen[c].writes = 0 => ToCome(c) \in seen[c].exact
      BY <3>1, ToComeIsExact DEF AnswerInv
    <3> QED  BY <3>1, <3>2 DEF AnswerInv, ClientSteps
  <2>3. ASSUME AbortClient(c) PROVE AnswerInv(c)'
    BY <1>0, <2>3 DEF AbortClient, ClientsOK, AnswerInv, ClientSteps
  <2> QED  BY <2>1, <2>2, <2>3 DEF Serve
<1> QED  BY <1>1, <1>2

\* Noted: a first write adds the exact answer of after to that of before; of more
\* than one, nothing is claimed.
LEMMA WriteAnswers ==
    ASSUME Inv, \A c \in Client : AnswerInv(c), UNCHANGED clientVars, Noted,
           \A c \in Client : at[c] \in ClientSteps /\ StillFound(c) => WholeOrNot(c)
    PROVE  \A c \in Client : AnswerInv(c)'
<1> SUFFICES ASSUME NEW c \in Client PROVE AnswerInv(c)'
  OBVIOUS
<1>0. at' = at /\ ask' = ask /\ answer' = answer
  BY DEF clientVars
<1>1. CASE at[c] \notin ClientSteps
  <2>1. seen'[c] = seen[c]
    BY <1>1 DEF Noted, Waiting
  <2> QED  BY <1>0, <1>1, <2>1 DEF AnswerInv
<1>2. CASE at[c] \in ClientSteps /\ seen[c].writes = 0
  <2>1. seen'[c] = [writes |-> 1, exact |-> seen[c].exact \cup {Exact(ask[c])'}]
    BY <1>2 DEF Noted, Waiting
  <2>2. seen[c].exact = {Exact(ask[c])} /\ WholeOrNot(c)
    BY <1>2 DEF AnswerInv
  <2> QED  BY <1>0, <1>2, <2>1, <2>2 DEF AnswerInv, WholeOrNot, ClientSteps
<1>3. CASE at[c] \in ClientSteps /\ seen[c].writes # 0
  <2>1. seen'[c] = [writes |-> 2, exact |-> {}]
    BY <1>3 DEF Noted, Waiting
  <2> QED  BY <1>0, <1>3, <2>1 DEF AnswerInv, ClientSteps
<1> QED  BY <1>1, <1>2, <1>3

\* No step of a client, an administrator or the clock breaks AnswerInv.
LEMMA StepAnswers ==
    Inv /\ ScopesInv /\ UniqueCodes /\ UniqueCodes' /\ (\A c \in Client : AnswerInv(c))
        /\ [Next]_vars => \A c \in Client : AnswerInv(c)'
<1> SUFFICES ASSUME Inv, ScopesInv, UniqueCodes, UniqueCodes',
                    \A c \in Client : AnswerInv(c), [Next]_vars
             PROVE  \A c \in Client : AnswerInv(c)'
  OBVIOUS
<1>1. ASSUME NEW c \in Client, Serve(c) PROVE \A d \in Client : AnswerInv(d)'
  BY <1>1, ServeAnswers
<1>2. ASSUME NEW r \in Request, Administer(r) PROVE \A d \in Client : AnswerInv(d)'
  <2>0. UNCHANGED <<now, token, clientVars>>
    BY <1>2 DEF Administer
  <2>1. CASE scope' = scope
    <3>1. flag' = flag
      BY <1>2, <2>1, LinksStay
    <3>2. seen' = seen
      BY <1>2, <2>1 DEF Administer
    <3> QED  BY <2>0, <2>1, <3>1, <3>2, Untouched DEF clientVars
  <2>2. CASE scope' # scope
    <3>1. PICK x \in Scope : \E row : scope' = [scope EXCEPT ![x] = row]
      BY <1>2, <2>2, OneRow
    <3>2. Noted
      BY <1>2, <2>2 DEF Administer
    <3>3. ASSUME NEW c \in Client, at[c] \in ClientSteps, StillFound(c) PROVE WholeOrNot(c)
      BY <1>2, <2>0, <3>1, <3>3, ScopeWrite
    <3> QED  BY <2>0, <3>2, <3>3, WriteAnswers
  <2> QED  BY <2>1, <2>2
<1>3. ASSUME Tick \/ \E f \in Flag : WriteFlag(f) PROVE \A d \in Client : AnswerInv(d)'
  <2>1. /\ UNCHANGED <<scope, token, clientVars>> /\ Noted
        /\ now' = now \/ flag' = flag
    BY <1>3 DEF Tick, WriteFlag, scopeVars
  <2>2. \A c \in Client : at[c] \in ClientSteps /\ StillFound(c) => WholeOrNot(c)
    BY <2>1, FlagWrite
  <2> QED  BY <2>1, <2>2, WriteAnswers
<1>4. ASSUME NEW t \in Token, WriteToken(t) PROVE \A d \in Client : AnswerInv(d)'
  <2>1. UNCHANGED <<scope, flag, now, clientVars>> /\ Noted
    BY <1>4 DEF WriteToken, scopeVars
  <2>2. \A c \in Client : at[c] \in ClientSteps /\ StillFound(c) => WholeOrNot(c)
    BY <2>1, TokenWrite
  <2> QED  BY <2>1, <2>2, WriteAnswers
<1>5. CASE UNCHANGED vars
  BY <1>5, Untouched DEF vars, scopeVars, flagTables, clientVars
<1> QED  BY <1>1, <1>2, <1>3, <1>4, <1>5 DEF Next

\* bootstrap and :code: queries that no transaction holds together still answer as
\* one would have, when at most one write falls between them.
THEOREM OneWriteIsWhole == Spec => []OneWriteIsSeenWholeOrNotAtAll
<1> DEFINE Answers == \A c \in Client : AnswerInv(c)
<1>1. Init => Answers
  BY DEF Init, AnswerInv, ClientSteps
<1>2. Inv /\ ScopesInv /\ UniqueCodes /\ UniqueCodes' /\ Answers /\ [Next]_vars => Answers'
  BY StepAnswers
<1>3. Answers => OneWriteIsSeenWholeOrNotAtAll
  BY DEF AnswerInv, OneWriteIsSeenWholeOrNotAtAll
<1> QED
  BY <1>1, <1>2, <1>3, TypeCorrect, ScopesHere, PTL DEF Spec
=============================================================================
