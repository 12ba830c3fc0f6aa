------------------------- MODULE FeatureFlagsProofs -------------------------
(***************************************************************************)
(* What is proved about the writes of feature flags, for every number of   *)
(* flags, projects, environments and requests, and for every set of        *)
(* bodies.                                                                 *)
(***************************************************************************)
EXTENDS FeatureFlags, FiniteSetTheorems, TLAPS

(***************************************************************************)
(* Types, and what a request holds at each point of its handler.           *)
(***************************************************************************)
\* What a request asks, once it has arrived.
Asks(r) ==
    LET named == Named(req[r].dto.values) IN
    /\ req[r].kind \in Kinds
    /\ req[r].kind # "create" => req[r].flag \in Flag
    /\ req[r].kind = "create" => req[r].dto.code # Null /\ req[r].dto.projects # {}
    /\ req[r].kind = "toggle" => \E e \in Environment : named = {e}
    /\ req[r].kind = "remove" => named = {}

\* Where it can be, and which flag it is about by then.
Place(r) ==
    /\ pc[r] = "load" => req[r].kind \in {"update", "remove"}
    /\ pc[r] \in {"resolve", "sync", "reload"} => req[r].kind \in {"create", "update"}
    /\ pc[r] = "insert" => req[r].kind = "create"
    /\ pc[r] = "save" => req[r].kind = "update"
    /\ pc[r] = "toggle" => req[r].kind = "toggle"
    /\ pc[r] = "delete" => req[r].kind = "remove"
    /\ pc[r] \in {"resolve", "insert"} /\ req[r].kind = "create" => req[r].flag = Null
    /\ pc[r] \in {"sync", "reload", "audit", "done"} => req[r].flag \in Flag
    /\ r \in audited => pc[r] \in {"delete", "done", "failed"}

\* What it has read: the row, the projects of its body that are still there.
HasRead(r) ==
    LET named == req[r].dto.projects IN
    /\ pc[r] = "idle" \/ req[r].kind \in {"create", "toggle"} => loaded[r] = Null
    /\ pc[r] \in {"resolve", "save", "sync", "reload"} /\ req[r].kind = "update" => loaded[r] # Null
    /\ pc[r] \in {"insert", "save"} /\ named # {} =>
         named \cap projects \subseteq found[r] /\ found[r] \subseteq named

\* What it has written: an environment is taken up once, and none is left out.
HasWritten(r) ==
    LET named == Named(req[r].dto.values) IN
    /\ pc[r] \in {"idle", "load", "resolve", "insert", "save"} => entry[r] = Null
    /\ pc[r] \in {"idle", "load", "resolve", "insert", "save", "toggle"} =>
         written[r] = {} /\ r \notin flipped
    /\ pc[r] = "sync" => /\ named \subseteq written[r] \cup todo[r]
                         /\ written[r] \cap todo[r] = {}
                         /\ entry[r] # Null => entry[r].env \in todo[r]
    /\ pc[r] = "toggle" /\ entry[r] # Null => entry[r].env \in named
    /\ pc[r] \in {"reload", "audit", "done"} => named \subseteq written[r]

Holds(r) == (pc[r] # "idle" => Asks(r)) /\ Place(r) /\ HasRead(r) /\ HasWritten(r)

IInv == TypeOK /\ \A r \in Request : Holds(r)

\* What one request holds is not another's to change; projects only go.
LEMMA OthersHold ==
    ASSUME NEW S, \A q \in S : Holds(q), projects' \subseteq projects,
           \A q \in S :
             /\ pc'[q] = pc[q] /\ req'[q] = req[q] /\ loaded'[q] = loaded[q]
             /\ found'[q] = found[q] /\ todo'[q] = todo[q] /\ entry'[q] = entry[q]
             /\ written'[q] = written[q]
             /\ q \in audited' <=> q \in audited
             /\ q \in flipped' <=> q \in flipped
    PROVE  \A q \in S : Holds(q)'
<1> SUFFICES ASSUME NEW q \in S PROVE Holds(q)'
  OBVIOUS
<1>1. Asks(q) => Asks(q)'
  BY DEF Asks, Named
<1>2. Place(q)'
  BY DEF Holds, Place
<1>3. HasRead(q)'
  BY DEF Holds, HasRead
<1>4. HasWritten(q)'
  BY DEF Holds, HasWritten, Named
<1> QED  BY <1>1, <1>2, <1>3, <1>4 DEF Holds

\* The rows the model builds are rows.
LEMMA SetValueIsRow ==
    ASSUME NEW row \in Row, NEW e \in Environment, NEW value \in Value
    PROVE  SetValue(row, e, value) \in Row
BY DEF SetValue, Row

\* Assigned, Requested: a row with what a body names put in is a row.
LEMMA AssignedIsRow ==
    ASSUME TypeOK, NEW r \in Request, NEW row \in Row
    PROVE  Assigned(row, r) \in Row /\ Requested(row, r) \in Row
<1>1. req[r].dto \in Dto /\ found[r] \subseteq Project /\ req[r].dto.projects \cap projects \subseteq Project
  BY DEF TypeOK, Dto
<1>2. /\ row.code \in Code /\ row.projects \subseteq Project
      /\ row.values \in [Environment -> Value]
      /\ req[r].dto.code \in Code \cup {Null} /\ req[r].dto.projects \subseteq Project
  BY <1>1 DEF Row, Dto
<1> QED  BY <1>1, <1>2 DEF Assigned, Requested, Row

\* How a request arrives.
Arrives(r, kind, f, dto, step) ==
    /\ kind \in Kinds /\ dto \in Dto
    /\ kind = "create" => f = Null /\ step = "resolve" /\ dto.code # Null /\ dto.projects # {}
    /\ kind # "create" => f \in Existing /\ step = IF kind = "toggle" THEN "toggle" ELSE "load"
    /\ kind = "toggle" => \E e \in Environment : Named(dto.values) = {e}
    /\ kind = "remove" => Named(dto.values) = {}
    /\ Arrive(r, kind, f, dto, step)

\* The four endpoints.
LEMMA EachArrives ==
    ASSUME NEW r \in Request,
           \/ \E dto \in Bodies : Create(r, dto) \/ \E f \in Flag : Update(r, f, dto)
           \/ \E f \in Flag, e \in Environment, value \in {"off", "on"} : Toggle(r, f, e, value)
           \/ \E f \in Flag : Remove(r, f)
    PROVE  \E kind, f, dto, step : Arrives(r, kind, f, dto, step)
<1>1. ASSUME NEW dto \in Bodies, Create(r, dto)
      PROVE  Arrives(r, "create", Null, dto, "resolve")
  BY <1>1, BodiesAssumption DEF Create, Arrives, Kinds
<1>2. ASSUME NEW dto \in Bodies, NEW f \in Flag, Update(r, f, dto)
      PROVE  Arrives(r, "update", f, dto, "load")
  BY <1>2, BodiesAssumption DEF Update, Arrives, Kinds
<1>3. ASSUME NEW f \in Flag, NEW e \in Environment, NEW value \in {"off", "on"},
             Toggle(r, f, e, value)
      PROVE  Arrives(r, "toggle", f, SetValue(Blank, e, value), "toggle")
  <2>1. SetValue(Blank, e, value) \in Dto /\ Named(SetValue(Blank, e, value).values) = {e}
    BY DEF SetValue, Blank, Dto, Value, Named
  <2> QED  BY <1>3, <2>1 DEF Toggle, Arrives, Kinds
<1>4. ASSUME NEW f \in Flag, Remove(r, f)
      PROVE  Arrives(r, "remove", f, Blank, "load")
  <2>1. Blank \in Dto /\ Named(Blank.values) = {}
    BY DEF Blank, Dto, Value, Named
  <2> QED  BY <1>4, <2>1 DEF Remove, Arrives, Kinds
<1> QED  BY <1>1, <1>2, <1>3, <1>4

\* A request that arrives holds nothing yet.
LEMMA ArriveInv ==
    ASSUME IInv, NEW r \in Request, NEW kind, NEW f, NEW dto, NEW step,
           Arrives(r, kind, f, dto, step)
    PROVE  TypeOK' /\ Holds(r)'
<1> USE DEF tables
<1>0. TypeOK /\ Holds(r) /\ Arrive(r, kind, f, dto, step) /\ pc[r] = "idle"
  BY DEF IInv, Arrives, Arrive
<1>1. /\ f \in Flag \cup {Null} /\ kind \in Kinds /\ dto \in Dto
      /\ step \in {"resolve", "toggle", "load"}
  BY DEF Arrives, Existing
<1>2. /\ req'[r] = [kind |-> kind, flag |-> f, dto |-> dto]
      /\ pc'[r] = step
  BY <1>0 DEF Arrive, TypeOK
<1>3. TypeOK'
  <2>1. /\ req' \in [Request -> [kind : Kinds \cup {"none"}, flag : Flag \cup {Null}, dto : Dto]]
        /\ pc' \in [Request -> {"idle"} \cup Steps \cup Ends]
    BY <1>0, <1>1 DEF Arrive, TypeOK, Steps
  <2>2. met' \in [Request -> SUBSET Request]
    BY <1>0 DEF Arrive, TypeOK, InFlight
  <2> QED  BY <1>0, <2>1, <2>2 DEF Arrive, TypeOK
<1>4. Asks(r)'
  BY <1>2, NullAssumption DEF Asks, Arrives, Existing
<1>5. Place(r)'
  <2>1. r \notin audited'
    BY <1>0 DEF Arrive, Holds, Place
  <2>2. /\ step = "load" => kind \in {"update", "remove"}
        /\ step = "toggle" => kind = "toggle"
        /\ step = "resolve" => kind = "create" /\ f = Null
    BY <1>1 DEF Arrives, Kinds
  <2> QED  BY <1>1, <1>2, <2>1, <2>2 DEF Place
<1>6. HasRead(r)' /\ HasWritten(r)'
  BY <1>0, <1>1, <1>2 DEF Arrive, Arrives, Holds, HasRead, HasWritten, Kinds
<1> QED  BY <1>3, <1>4, <1>5, <1>6 DEF Holds

\* Fail, at any await.
LEMMA FailInv ==
    ASSUME IInv, NEW r \in Request, pc[r] # "idle", Fail(r)
    PROVE  TypeOK' /\ Holds(r)'
<1> USE DEF local, tables, history
<1>1. TypeOK /\ Holds(r) /\ Asks(r)
  BY DEF IInv, Holds
<1>2. TypeOK' /\ pc'[r] = "failed" /\ Asks(r)'
  BY <1>1 DEF Fail, TypeOK, Ends, Asks
<1>3. Place(r)' /\ HasRead(r)' /\ HasWritten(r)'
  BY <1>1, <1>2 DEF Fail, Holds, Place, HasRead, HasWritten
<1> QED  BY <1>2, <1>3 DEF Holds

\* The reads of create, update and remove.
LEMMA LoadInv ==
    ASSUME IInv, NEW r \in Request, Load(r)
    PROVE  TypeOK' /\ Holds(r)'
<1> USE DEF tables, history
<1>0. /\ TypeOK /\ Holds(r) /\ Asks(r) /\ pc[r] = "load" /\ req[r].flag \in Flag
      /\ req[r].kind \in {"update", "remove"}
  BY DEF IInv, Load, Holds, Place, Asks
<1>1. CASE Fail(r)
  BY <1>0, <1>1, FailInv
<1>2. CASE ~ Fail(r)
  <2>1. /\ loaded' = [loaded EXCEPT ![r] = flag[req[r].flag]]
        /\ req[r].kind = "update" => flag[req[r].flag] # Null
        /\ pc' = [pc EXCEPT ![r] = IF req[r].kind = "remove"
                                   THEN IF flag[req[r].flag] = Null THEN "delete" ELSE "audit"
                                   ELSE IF req[r].dto.projects = {} THEN "save" ELSE "resolve"]
        /\ Names(r)
        /\ UNCHANGED <<tables, req, found, todo, entry, history>>
    BY <1>2 DEF Load
  <2>2. TypeOK'
    BY <1>0, <2>1 DEF Names, TypeOK, Steps
  <2>3. /\ loaded'[r] = flag[req[r].flag]
        /\ req[r].kind = "update" => loaded'[r] # Null
        /\ pc'[r] = IF req[r].kind = "remove"
                    THEN IF flag[req[r].flag] = Null THEN "delete" ELSE "audit"
                    ELSE IF req[r].dto.projects = {} THEN "save" ELSE "resolve"
    BY <1>0, <2>1 DEF TypeOK
  <2>4. Asks(r)'
    BY <1>0, <2>1 DEF Asks
  <2>5. Place(r)'
    BY <1>0, <2>1, <2>3 DEF Holds, Place
  <2>6. HasRead(r)'
    BY <1>0, <2>1, <2>3 DEF Holds, HasRead
  <2>7. HasWritten(r)'
    BY <1>0, <2>1, <2>3 DEF Holds, HasWritten, Asks
  <2> QED  BY <2>2, <2>4, <2>5, <2>6, <2>7 DEF Holds
<1> QED  BY <1>1, <1>2

\* resolveProjects: what it has found are projects.
LEMMA ResolveInv ==
    ASSUME IInv, NEW r \in Request, ResolveProjects(r)
    PROVE  TypeOK' /\ Holds(r)'
<1> USE DEF tables, history
<1>0. /\ TypeOK /\ Holds(r) /\ Asks(r) /\ pc[r] = "resolve"
      /\ req[r].kind \in {"create", "update"}
  BY DEF IInv, ResolveProjects, Holds, Place
<1>1. req[r].dto.projects \cap projects \subseteq Project
  BY <1>0 DEF TypeOK
<1>2. TypeOK'
  BY <1>0, <1>1 DEF ResolveProjects, TypeOK, Steps
<1>3. /\ found'[r] = req[r].dto.projects \cap projects
      /\ pc'[r] = IF req[r].kind = "create" THEN "insert" ELSE "save"
      /\ UNCHANGED <<tables, req, loaded, todo, entry, history>>
  BY <1>0 DEF ResolveProjects, TypeOK
<1>4. Asks(r)' /\ Place(r)'
  BY <1>0, <1>3 DEF Asks, Holds, Place
<1>5. HasRead(r)' /\ HasWritten(r)'
  BY <1>0, <1>3 DEF Holds, HasRead, HasWritten
<1> QED  BY <1>2, <1>4, <1>5 DEF Holds

\* Into the loop over the values, or past it.
LEMMA ThenSyncInv ==
    ASSUME IInv, NEW r \in Request, pc[r] \in {"insert", "save"}, ThenSync(r),
           req'[r].kind = req[r].kind, req'[r].dto = req[r].dto, req'[r].flag \in Flag,
           UNCHANGED <<projects, audited, loaded, found, entry, written, flipped>>
    PROVE  /\ Holds(r)'
           /\ todo' \in [Request -> SUBSET Environment]
           /\ pc' \in [Request -> {"idle"} \cup Steps \cup Ends]
<1> DEFINE named == Named(req[r].dto.values)
<1>0. /\ TypeOK /\ Holds(r) /\ Asks(r) /\ req[r].kind \in {"create", "update"}
      /\ named \subseteq Environment
  BY DEF IInv, Holds, Place, Named
<1>1. todo' = [todo EXCEPT ![r] = named]
      /\ pc' = [pc EXCEPT ![r] = IF named = {} THEN "reload" ELSE "sync"]
  BY DEF ThenSync
<1>2. todo'[r] = named /\ pc'[r] = IF named = {} THEN "reload" ELSE "sync"
  BY <1>0, <1>1 DEF TypeOK
<1>3. Asks(r)'
  BY <1>0 DEF Asks
<1>4. Place(r)' /\ HasRead(r)'
  BY <1>0, <1>2 DEF Holds, Place, HasRead
<1>5. HasWritten(r)'
  BY <1>0, <1>2 DEF Holds, HasWritten, Named
<1>6. /\ todo' \in [Request -> SUBSET Environment]
      /\ pc' \in [Request -> {"idle"} \cup Steps \cup Ends]
  BY <1>0, <1>1 DEF TypeOK, Steps
<1> QED  BY <1>3, <1>4, <1>5, <1>6 DEF Holds

\* create: the row, under a key of its own.
LEMMA InsertInv ==
    ASSUME IInv, NEW r \in Request, InsertFlag(r)
    PROVE  TypeOK' /\ Holds(r)'
<1>0. /\ TypeOK /\ Holds(r) /\ Asks(r) /\ pc[r] = "insert" /\ req[r].kind = "create"
      /\ req[r].dto.code \in Code /\ req[r].dto \in Dto
  BY DEF IInv, InsertFlag, Holds, Place, Asks, TypeOK, Dto
<1>1. CASE Fail(r)
  BY <1>0, <1>1, FailInv
<1>2. CASE ~ Fail(r)
  <2> DEFINE new == [code |-> req[r].dto.code, projects |-> found[r],
                     values |-> [e \in Environment |-> "none"]]
  <2>1. PICK f \in Flag :
          /\ flag' = [flag EXCEPT ![f] = new]
          /\ decided' = [decided EXCEPT ![f] = Requested(Blank, r)]
          /\ born' = born \cup {f}
          /\ req' = [req EXCEPT ![r] = [kind |-> "create", flag |-> f, dto |-> req[r].dto]]
          /\ ThenSync(r)
          /\ UNCHANGED <<projects, environments, audited, loaded, shown, found, entry,
                         dirty, written, flipped, renamed, met>>
    BY <1>2 DEF InsertFlag
  <2>2. new \in Row /\ Requested(Blank, r) \in Row
    <3>1. found[r] \subseteq Project /\ req[r].dto.projects \cap projects \subseteq Project
      BY <1>0 DEF TypeOK
    <3>2. Requested(Blank, r) = [code |-> req[r].dto.code,
                                 projects |-> req[r].dto.projects \cap projects,
                                 values |-> [e \in Environment |-> "none"]]
      BY <1>0 DEF Requested, Blank, Asks
    <3> QED  BY <1>0, <3>1, <3>2 DEF Row, Value
  <2>3. req'[r] = [kind |-> "create", flag |-> f, dto |-> req[r].dto]
    BY <1>0, <2>1 DEF TypeOK
  <2>4. /\ Holds(r)'
        /\ todo' \in [Request -> SUBSET Environment]
        /\ pc' \in [Request -> {"idle"} \cup Steps \cup Ends]
    BY <1>0, <2>1, <2>3, ThenSyncInv
  <2>5. /\ flag' \in [Flag -> Row \cup {Null}] /\ decided' \in [Flag -> Row \cup {Null}]
        /\ req' \in [Request -> [kind : Kinds \cup {"none"}, flag : Flag \cup {Null}, dto : Dto]]
    BY <1>0, <2>1, <2>2 DEF TypeOK, Kinds
  <2>6. TypeOK'
    BY <1>0, <2>1, <2>4, <2>5 DEF TypeOK
  <2> QED  BY <2>4, <2>6
<1> QED  BY <1>1, <1>2

\* update: the copy is a row.
LEMMA SaveInv ==
    ASSUME IInv, NEW r \in Request, Save(r)
    PROVE  TypeOK' /\ Holds(r)'
<1> DEFINE f == req[r].flag
           copy == Assigned(loaded[r], r)
<1>0. /\ TypeOK /\ Holds(r) /\ Asks(r) /\ pc[r] = "save" /\ req[r].kind = "update"
      /\ f \in Flag /\ loaded[r] \in Row
  BY DEF IInv, Save, Holds, Place, HasRead, Asks, TypeOK
<1>1. CASE Fail(r)
  BY <1>0, <1>1, FailInv
<1>2. CASE ~ Fail(r)
  <2>1. /\ flag' = [flag EXCEPT ![f] = copy]
        /\ decided' = [decided EXCEPT ![f] = IF @ = Null THEN @ ELSE Requested(@, r)]
        /\ dirty' = dirty \cup {g \in {f} : flag[f] # loaded[r]}
        /\ ThenSync(r)
        /\ UNCHANGED <<projects, environments, audited, born, req, loaded, shown, found,
                       entry, written, flipped, renamed, met>>
    BY <1>2 DEF Save
  <2>2. copy \in Row /\ (decided[f] # Null => Requested(decided[f], r) \in Row)
    BY <1>0, AssignedIsRow DEF TypeOK
  <2>3. /\ Holds(r)'
        /\ todo' \in [Request -> SUBSET Environment]
        /\ pc' \in [Request -> {"idle"} \cup Steps \cup Ends]
    BY <1>0, <2>1, ThenSyncInv
  <2>4. flag' \in [Flag -> Row \cup {Null}] /\ decided' \in [Flag -> Row \cup {Null}]
    BY <1>0, <2>1, <2>2 DEF TypeOK
  <2>5. TypeOK'
    BY <1>0, <2>1, <2>3, <2>4 DEF TypeOK
  <2> QED  BY <2>3, <2>5
<1> QED  BY <1>1, <1>2

(***************************************************************************)
(* The value of one environment.                                           *)
(***************************************************************************)
\* MayWrite: only a flag that is there takes a value.
LEMMA WrittenToARow ==
    ASSUME NEW f \in Flag, NEW e \in Environment, NEW old, MayWrite(f, e, old)
    PROVE  flag[f] # Null
BY DEF MayWrite, CurrentValue

\* The value a handler reads is one.
LEMMA CurrentValueIsValue ==
    ASSUME TypeOK, NEW f \in Flag, NEW e \in Environment
    PROVE  CurrentValue(f, e) \in Value
BY DEF TypeOK, CurrentValue, Row, Value

\* WriteValue keeps the types.
LEMMA WriteTypes ==
    ASSUME TypeOK, NEW r \in Request, NEW f \in Flag, NEW e \in Environment,
           NEW value \in Value, flag[f] # Null, WriteValue(r, f, e, value)
    PROVE  /\ flag' \in [Flag -> Row \cup {Null}] /\ decided' \in [Flag -> Row \cup {Null}]
           /\ written' \in [Request -> SUBSET Environment] /\ flipped' \subseteq Request
           /\ dirty' = dirty /\ renamed' = renamed /\ met' = met
           /\ written'[r] = written[r] \cup {e}
<1>1. flag[f] \in Row /\ SetValue(flag[f], e, value) \in Row
  BY SetValueIsRow DEF TypeOK
<1>2. decided[f] # Null => SetValue(decided[f], e, value) \in Row
  BY SetValueIsRow DEF TypeOK
<1> QED  BY <1>1, <1>2 DEF WriteValue, TypeOK

\* One turn of the loop over the values: its lookup ...
LEMMA SyncFindInv ==
    ASSUME IInv, NEW r \in Request, SyncFind(r)
    PROVE  TypeOK' /\ Holds(r)'
<1> USE DEF tables, history
<1>0. /\ TypeOK /\ Holds(r) /\ Asks(r) /\ pc[r] = "sync" /\ req[r].flag \in Flag
  BY DEF IInv, SyncFind, Holds, Place
<1>1. CASE Fail(r)
  BY <1>0, <1>1, FailInv
<1>2. CASE ~ Fail(r)
  <2>1. PICK e \in todo[r] :
          /\ entry' = [entry EXCEPT ![r] = [env |-> e, old |-> CurrentValue(req[r].flag, e)]]
          /\ UNCHANGED <<tables, pc, req, loaded, shown, found, todo, history>>
    BY <1>2 DEF SyncFind
  <2>2. e \in Environment /\ CurrentValue(req[r].flag, e) \in Value
    BY <1>0, CurrentValueIsValue DEF TypeOK
  <2>3. /\ entry'[r] = [env |-> e, old |-> CurrentValue(req[r].flag, e)]
        /\ entry' \in [Request -> [env : Environment, old : Value] \cup {Null}]
    BY <1>0, <2>1, <2>2 DEF TypeOK
  <2>4. TypeOK'
    BY <1>0, <2>1, <2>3 DEF TypeOK
  <2>5. Asks(r)' /\ Place(r)' /\ HasRead(r)'
    BY <1>0, <2>1 DEF Asks, Holds, Place, HasRead
  <2>6. HasWritten(r)'
    BY <1>0, <2>1, <2>3 DEF Holds, HasWritten, Named
  <2> QED  BY <2>4, <2>5, <2>6 DEF Holds
<1> QED  BY <1>1, <1>2

\* What is known where a value is saved.
LEMMA EntryOK ==
    ASSUME IInv, NEW r \in Request, pc[r] \in {"sync", "toggle"}, entry[r] # Null
    PROVE  /\ req[r].flag \in Flag /\ entry[r].env \in Environment /\ entry[r].old \in Value
           /\ entry[r].env \in Named(req[r].dto.values) \/ pc[r] = "sync"
           /\ req[r].dto.values[entry[r].env] \in Value
<1>1. TypeOK /\ Holds(r) /\ Asks(r)
  BY DEF IInv, Holds
<1>2. entry[r] \in [env : Environment, old : Value]
  BY <1>1 DEF TypeOK
<1>3. req[r].dto.values \in [Environment -> Value]
  BY <1>1 DEF TypeOK, Dto
<1> QED  BY <1>1, <1>2, <1>3 DEF Holds, Place, HasWritten, Asks

\* ... and its write.
LEMMA SyncSaveInv ==
    ASSUME IInv, NEW r \in Request, SyncSave(r)
    PROVE  TypeOK' /\ Holds(r)'
<1> DEFINE f == req[r].flag
           e == entry[r].env
           named == Named(req[r].dto.values)
<1>0. /\ TypeOK /\ Holds(r) /\ Asks(r) /\ pc[r] = "sync" /\ entry[r] # Null
  BY DEF IInv, SyncSave, Holds
<1>1. CASE Fail(r)
  BY <1>0, <1>1, FailInv
<1>2. CASE ~ Fail(r)
  <2>1. f \in Flag /\ e \in Environment /\ req[r].dto.values[e] \in Value
    BY <1>0, EntryOK
  <2>2. /\ MayWrite(f, e, entry[r].old)
        /\ WriteValue(r, f, e, req[r].dto.values[e])
        /\ entry' = [entry EXCEPT ![r] = Null]
        /\ todo' = [todo EXCEPT ![r] = @ \ {e}]
        /\ pc' = [pc EXCEPT ![r] = IF todo[r] = {e} THEN "reload" ELSE @]
        /\ UNCHANGED <<projects, environments, audited, born, req, loaded, shown, found>>
    BY <1>2 DEF SyncSave
  <2>3. flag[f] # Null
    BY <2>1, <2>2, WrittenToARow
  <2>4. /\ flag' \in [Flag -> Row \cup {Null}] /\ decided' \in [Flag -> Row \cup {Null}]
        /\ written' \in [Request -> SUBSET Environment] /\ flipped' \subseteq Request
        /\ dirty' = dirty /\ renamed' = renamed /\ met' = met
        /\ written'[r] = written[r] \cup {e}
    BY <1>0, <2>1, <2>2, <2>3, WriteTypes
  <2>5. TypeOK'
    BY <1>0, <2>2, <2>4 DEF TypeOK, Steps
  <2>6. /\ todo'[r] = todo[r] \ {e} /\ entry'[r] = Null
        /\ pc'[r] = IF todo[r] = {e} THEN "reload" ELSE "sync"
    BY <1>0, <2>2 DEF TypeOK
  <2>7. Asks(r)' /\ Place(r)' /\ HasRead(r)'
    BY <1>0, <2>2, <2>6 DEF Asks, Holds, Place, HasRead
  <2>8. HasWritten(r)'
    BY <1>0, <2>2, <2>4, <2>6 DEF Holds, HasWritten, Named
  <2> QED  BY <2>5, <2>7, <2>8 DEF Holds
<1> QED  BY <1>1, <1>2

\* The read after the save changes nothing but where the handler goes.
LEMMA ReloadInv ==
    ASSUME IInv, NEW r \in Request, Reload(r)
    PROVE  TypeOK' /\ Holds(r)'
<1> USE DEF tables, history, local
<1>0. TypeOK /\ Holds(r) /\ Asks(r) /\ pc[r] = "reload"
  BY DEF IInv, Reload, Holds
<1>1. CASE Fail(r)
  BY <1>0, <1>1, FailInv
<1>2. CASE ~ Fail(r)
  <2>1. /\ pc'[r] \in {"done", "audit"}
        /\ pc' \in [Request -> {"idle"} \cup Steps \cup Ends]
        /\ renamed' \subseteq Request
        /\ UNCHANGED <<tables, local, decided, dirty, written, flipped, met>>
    BY <1>0, <1>2 DEF Reload, TypeOK, Steps, Ends
  <2>2. TypeOK'
    BY <1>0, <2>1 DEF TypeOK
  <2>3. Asks(r)' /\ Place(r)' /\ HasRead(r)' /\ HasWritten(r)'
    BY <1>0, <2>1 DEF Asks, Holds, Place, HasRead, HasWritten
  <2> QED  BY <2>2, <2>3 DEF Holds
<1> QED  BY <1>1, <1>2

\* updateEnvironmentValue: its look-up leaves a value of the flag, or none.
LEMMA ToggleFindInv ==
    ASSUME IInv, NEW r \in Request, ToggleFind(r)
    PROVE  TypeOK' /\ Holds(r)'
<1> USE DEF tables, history
<1>0. /\ TypeOK /\ Holds(r) /\ Asks(r) /\ pc[r] = "toggle" /\ req[r].flag \in Flag
  BY DEF IInv, ToggleFind, Holds, Place, Asks
<1>1. CASE Fail(r)
  BY <1>0, <1>1, FailInv
<1>2. CASE ~ Fail(r)
  <2>1. PICK e \in Named(req[r].dto.values) :
          /\ entry' = [entry EXCEPT ![r] = [env |-> e, old |-> CurrentValue(req[r].flag, e)]]
          /\ UNCHANGED <<tables, pc, req, loaded, shown, found, todo, history>>
    BY <1>2 DEF ToggleFind
  <2>2. e \in Environment /\ CurrentValue(req[r].flag, e) \in Value
    BY <1>0, CurrentValueIsValue DEF Named
  <2>3. /\ entry'[r] = [env |-> e, old |-> CurrentValue(req[r].flag, e)]
        /\ entry' \in [Request -> [env : Environment, old : Value] \cup {Null}]
    BY <1>0, <2>1, <2>2 DEF TypeOK
  <2>4. TypeOK'
    BY <1>0, <2>1, <2>3 DEF TypeOK
  <2>5. Asks(r)' /\ Place(r)' /\ HasRead(r)'
    BY <1>0, <2>1 DEF Asks, Holds, Place, HasRead
  <2>6. HasWritten(r)'
    BY <1>0, <2>1, <2>3 DEF Holds, HasWritten, Named
  <2> QED  BY <2>4, <2>5, <2>6 DEF Holds
<1> QED  BY <1>1, <1>2

\* updateEnvironmentValue: with its one save all it named is written.
LEMMA ToggleSaveInv ==
    ASSUME IInv, NEW r \in Request, ToggleSave(r)
    PROVE  TypeOK' /\ Holds(r)'
<1> DEFINE f == req[r].flag
           e == entry[r].env
           value == req[r].dto.values[e]
<1>0. /\ TypeOK /\ Holds(r) /\ Asks(r) /\ pc[r] = "toggle" /\ entry[r] # Null
      /\ req[r].kind = "toggle"
  BY DEF IInv, ToggleSave, Holds, Place
<1>1. CASE Fail(r)
  BY <1>0, <1>1, FailInv
<1>2. CASE ~ Fail(r)
  <2>1. f \in Flag /\ e \in Environment /\ value \in Value /\ Named(req[r].dto.values) = {e}
    BY <1>0, EntryOK DEF Asks
  <2>2. /\ MayWrite(f, e, entry[r].old)
        /\ WriteValue(r, f, e, value)
        /\ pc' = [pc EXCEPT ![r] = IF (entry[r].old = "on") = (value = "on")
                                   THEN "done" ELSE "audit"]
        /\ UNCHANGED <<projects, environments, audited, born, local>>
    BY <1>2 DEF ToggleSave
  <2>3. flag[f] # Null
    BY <2>1, <2>2, WrittenToARow
  <2>4. /\ flag' \in [Flag -> Row \cup {Null}] /\ decided' \in [Flag -> Row \cup {Null}]
        /\ written' \in [Request -> SUBSET Environment] /\ flipped' \subseteq Request
        /\ dirty' = dirty /\ renamed' = renamed /\ met' = met
        /\ written'[r] = written[r] \cup {e}
    BY <1>0, <2>1, <2>2, <2>3, WriteTypes
  <2>5. TypeOK'
    BY <1>0, <2>2, <2>4 DEF TypeOK, Steps, Ends, local
  <2>6. pc'[r] \in {"done", "audit"}
    BY <1>0, <2>2 DEF TypeOK
  <2>7. Asks(r)' /\ Place(r)' /\ HasRead(r)'
    BY <1>0, <2>1, <2>2, <2>6 DEF Asks, Holds, Place, HasRead, local
  <2>8. HasWritten(r)'
    BY <2>1, <2>2, <2>4, <2>6 DEF HasWritten, local
  <2> QED  BY <2>5, <2>7, <2>8 DEF Holds
<1> QED  BY <1>1, <1>2

(***************************************************************************)
(* The record, the removal, and projects and environments that go.         *)
(***************************************************************************)
LEMMA AuditInv ==
    ASSUME IInv, NEW r \in Request, Audit(r)
    PROVE  TypeOK' /\ Holds(r)'
<1> USE DEF history, local
<1>0. TypeOK /\ Holds(r) /\ Asks(r) /\ pc[r] = "audit"
  BY DEF IInv, Audit, Holds
<1>1. /\ pc'[r] = IF req[r].kind = "remove" THEN "delete" ELSE "done"
      /\ pc' \in [Request -> {"idle"} \cup Steps \cup Ends]
  BY <1>0 DEF Audit, TypeOK, Steps, Ends
<1>2. TypeOK'
  BY <1>0, <1>1 DEF Audit, TypeOK
<1>3. Asks(r)' /\ Place(r)' /\ HasRead(r)' /\ HasWritten(r)'
  BY <1>0, <1>1 DEF Audit, Asks, Holds, Place, HasRead, HasWritten
<1> QED  BY <1>2, <1>3 DEF Holds

\* remove: the delete takes the row with its values and links.
LEMMA DeleteInv ==
    ASSUME IInv, NEW r \in Request, DeleteFlag(r)
    PROVE  TypeOK' /\ Holds(r)'
<1> USE DEF local
<1>0. TypeOK /\ Holds(r) /\ Asks(r) /\ pc[r] = "delete" /\ req[r].kind = "remove"
      /\ req[r].flag \in Flag
  BY DEF IInv, DeleteFlag, Holds, Place, Asks
<1>1. pc'[r] = "done" /\ pc' \in [Request -> {"idle"} \cup Steps \cup Ends]
  BY <1>0 DEF DeleteFlag, TypeOK, Ends
<1>2. TypeOK'
  BY <1>0, <1>1 DEF DeleteFlag, TypeOK
<1>3. Asks(r)' /\ Place(r)' /\ HasRead(r)'
  BY <1>0, <1>1 DEF DeleteFlag, Asks, Holds, Place, HasRead
<1>4. HasWritten(r)'
  BY <1>0, <1>1 DEF DeleteFlag, Asks, HasWritten, Named
<1> QED  BY <1>2, <1>3, <1>4 DEF Holds

\* The links of a project go with it.
LEMMA RemoveProjectInv ==
    ASSUME IInv, NEW p \in Project, RemoveProject(p)
    PROVE  IInv'
<1>0. TypeOK /\ \A r \in Request : Holds(r)
  BY DEF IInv
<1>1. ASSUME NEW row \in Row \cup {Null} PROVE Unlinked(row, p) \in Row \cup {Null}
  BY DEF Unlinked, Row
<1>2. TypeOK'
  BY <1>0, <1>1 DEF RemoveProject, TypeOK, local
<1>3. \A r \in Request : Holds(r)'
  BY <1>0, OthersHold DEF RemoveProject, local
<1> QED  BY <1>2, <1>3 DEF IInv

\* Every step of a request.
Moves(r) ==
    \/ \E kind, f, dto, step : Arrives(r, kind, f, dto, step)
    \/ Step(r)
    \/ Abort(r)

\* Next, by what moves.
LEMMA NextMoves ==
    ASSUME Next
    PROVE  \/ \E r \in Request : Moves(r)
           \/ \E p \in Project : RemoveProject(p)
           \/ \E e \in Environment : RemoveEnvironment(e)
BY EachArrives DEF Next, Moves

\* A request writes into its own part of the state only; keys and records stay.
LEMMA OwnPartOnly ==
    ASSUME TypeOK, NEW r \in Request, Moves(r)
    PROVE  /\ projects' = projects /\ environments' = environments
           /\ \A q \in Request \ {r} :
                /\ pc'[q] = pc[q] /\ req'[q] = req[q] /\ loaded'[q] = loaded[q]
                /\ found'[q] = found[q] /\ todo'[q] = todo[q] /\ entry'[q] = entry[q]
                /\ written'[q] = written[q] /\ shown'[q] = shown[q]
                /\ q \in audited' <=> q \in audited
                /\ q \in renamed' <=> q \in renamed
                /\ q \in flipped' <=> q \in flipped
           /\ audited \subseteq audited' /\ born \subseteq born'
<1> USE DEF TypeOK, tables, local, history
<1>1. CASE \E kind, f, dto, step : Arrives(r, kind, f, dto, step)
  BY <1>1 DEF Arrives, Arrive
<1>2. CASE Fail(r) \/ Load(r) \/ ResolveProjects(r) \/ SyncFind(r) \/ Reload(r)
           \/ ToggleFind(r) \/ Audit(r) \/ DeleteFlag(r)
  BY <1>2 DEF Fail, Load, Names, ResolveProjects, SyncFind, Reload, ToggleFind, Audit, DeleteFlag
<1>3. CASE InsertFlag(r) \/ Save(r)
  BY <1>3 DEF Fail, InsertFlag, Save, ThenSync
<1>4. CASE SyncSave(r) \/ ToggleSave(r)
  BY <1>4 DEF Fail, SyncSave, ToggleSave, WriteValue
<1> QED  BY <1>1, <1>2, <1>3, <1>4 DEF Moves, Step, Abort

\* Every step keeps the types and what each request holds.
LEMMA StepInv == IInv /\ [Next]_vars => IInv'
<1> SUFFICES ASSUME IInv, [Next]_vars PROVE IInv'
  OBVIOUS
<1>0. TypeOK /\ \A r \in Request : Holds(r)
  BY DEF IInv
<1>1. ASSUME NEW r \in Request, Moves(r) PROVE IInv'
  <2>1. TypeOK' /\ Holds(r)'
    <3>1. CASE \E kind, f, dto, step : Arrives(r, kind, f, dto, step)
      BY <3>1, ArriveInv
    <3>2. CASE Step(r)
      BY <3>2, LoadInv, ResolveInv, InsertInv, SaveInv, SyncFindInv, SyncSaveInv, ReloadInv,
         ToggleFindInv, ToggleSaveInv, AuditInv, DeleteInv DEF Step
    <3>3. CASE Abort(r)
      BY <3>3, FailInv DEF Abort, Steps
    <3> QED  BY <1>1, <3>1, <3>2, <3>3 DEF Moves
  <2>2. \A q \in Request \ {r} : Holds(q)'
    BY <1>0, <1>1, OwnPartOnly, OthersHold
  <2> QED  BY <2>1, <2>2 DEF IInv
<1>2. ASSUME NEW e \in Environment, RemoveEnvironment(e) PROVE IInv'
  <2>1. TypeOK'
    BY <1>0, <1>2 DEF RemoveEnvironment, TypeOK, local, history
  <2>2. \A r \in Request : Holds(r)'
    BY <1>0, <1>2, OthersHold DEF RemoveEnvironment, local, history
  <2> QED  BY <2>1, <2>2 DEF IInv
<1>3. CASE UNCHANGED vars
  <2>1. TypeOK'
    BY <1>0, <1>3 DEF vars, tables, local, history, TypeOK
  <2>2. \A r \in Request : Holds(r)'
    BY <1>0, <1>3, OthersHold DEF vars, tables, local, history
  <2> QED  BY <2>1, <2>2 DEF IInv
<1> QED  BY <1>1, <1>2, <1>3, NextMoves, RemoveProjectInv

\* At the start no request holds anything.
LEMMA InitInv == Init => IInv
<1> SUFFICES ASSUME Init PROVE IInv
  OBVIOUS
<1>1. Blank \in Dto
  BY DEF Blank, Dto, Value
<1>2. TypeOK
  BY <1>1 DEF Init, TypeOK, Existing
<1>3. \A r \in Request : Holds(r)
  BY DEF Init, Holds, Place, HasRead, HasWritten
<1> QED  BY <1>2, <1>3 DEF IInv

\* create, update, updateEnvironmentValue and remove: whatever they overlap with,
\* and wherever they fail, the tables hold rows and every handler holds what its
\* queries returned.
THEOREM TypeCorrect == Spec => []IInv /\ []TypeOK
<1>1. IInv => TypeOK
  BY DEF IInv
<1> QED  BY <1>1, InitInv, StepInv, PTL DEF Spec

\* create, update and updateEnvironmentValue: the loop over the values has written
\* every one of them by the time the request is acknowledged.
THEOREM AcknowledgedHasWritten == Spec => []AcknowledgedIsWritten
<1>1. IInv => AcknowledgedIsWritten
  BY DEF IInv, Holds, HasWritten, AcknowledgedIsWritten
<1> QED  BY <1>1, TypeCorrect, PTL

(***************************************************************************)
(* What is stored is what was asked for.                                   *)
(***************************************************************************)
\* OnlyStaleSavesUndo after a write of one value.
LEMMA WriteAsDecided ==
    ASSUME TypeOK, OnlyStaleSavesUndo, NEW r \in Request, NEW f \in Flag, NEW e \in Environment,
           NEW value, flag[f] # Null, WriteValue(r, f, e, value)
    PROVE  OnlyStaleSavesUndo'
<1> SUFFICES ASSUME NEW g \in Flag \ dirty PROVE flag'[g] = decided'[g]
  BY DEF OnlyStaleSavesUndo, WriteValue
<1>1. flag[g] = decided[g]
  BY DEF OnlyStaleSavesUndo
<1>2. CASE g = f
  <2>1. flag'[f] = SetValue(flag[f], e, value)
        /\ decided'[f] = IF decided[f] = Null THEN decided[f] ELSE SetValue(decided[f], e, value)
    BY DEF TypeOK, WriteValue
  <2> QED  BY <1>1, <1>2, <2>1
<1>3. CASE g # f
  BY <1>1, <1>3 DEF TypeOK, WriteValue
<1> QED  BY <1>2, <1>3

\* update: a save over the row that was loaded stores what the body asks for; the
\* projects found earlier are still those that exist, or the save fails.
LEMMA SaveAsDecided ==
    ASSUME IInv, OnlyStaleSavesUndo, NEW r \in Request, Save(r)
    PROVE  OnlyStaleSavesUndo'
<1> DEFINE f == req[r].flag
           copy == Assigned(loaded[r], r)
<1>0. /\ TypeOK /\ HasRead(r) /\ pc[r] = "save" /\ f \in Flag
      /\ loaded[r] # Null
  BY DEF IInv, Save, Holds, Place, HasRead, Asks
<1>1. CASE Fail(r)
  BY <1>1 DEF Fail, OnlyStaleSavesUndo, tables, history
<1>2. CASE ~ Fail(r)
  <2>1. /\ flag' = [flag EXCEPT ![f] = copy]
        /\ decided' = [decided EXCEPT ![f] = IF @ = Null THEN @ ELSE Requested(@, r)]
        /\ dirty' = dirty \cup {g \in {f} : flag[f] # loaded[r]}
        /\ Refers(copy)
    BY <1>2 DEF Save
  <2> SUFFICES ASSUME NEW g \in Flag \ dirty' PROVE flag'[g] = decided'[g]
    BY DEF OnlyStaleSavesUndo
  <2>2. flag[g] = decided[g]
    BY <2>1 DEF OnlyStaleSavesUndo
  <2>3. CASE g = f
    <3>1. decided[f] = loaded[r]
      BY <2>1, <2>2, <2>3
    <3>2. req[r].dto.projects # {} => found[r] = req[r].dto.projects \cap projects
      <4> SUFFICES ASSUME req[r].dto.projects # {}
                   PROVE  found[r] = req[r].dto.projects \cap projects
        OBVIOUS
      <4>1. copy.projects = found[r]
        BY DEF Assigned
      <4>2. found[r] \subseteq projects
        BY <2>1, <4>1 DEF Refers
      <4> QED  BY <1>0, <4>2 DEF HasRead
    <3>3. copy = Requested(loaded[r], r)
      BY <3>2 DEF Assigned, Requested
    <3>4. flag'[f] = copy /\ decided'[f] = Requested(loaded[r], r)
      BY <1>0, <2>1, <3>1 DEF TypeOK
    <3> QED  BY <2>3, <3>3, <3>4
  <2>4. CASE g # f
    BY <1>0, <2>1, <2>2, <2>4 DEF TypeOK
  <2> QED  BY <2>3, <2>4
<1> QED  BY <1>1, <1>2

\* create: likewise, for a body all fields of which are there.
LEMMA InsertAsDecided ==
    ASSUME IInv, OnlyStaleSavesUndo, NEW r \in Request, InsertFlag(r)
    PROVE  OnlyStaleSavesUndo'
<1> DEFINE new == [code |-> req[r].dto.code, projects |-> found[r],
                   values |-> [e \in Environment |-> "none"]]
<1>0. /\ TypeOK /\ HasRead(r) /\ pc[r] = "insert" /\ Asks(r) /\ req[r].kind = "create"
  BY DEF IInv, InsertFlag, Holds, Place
<1>1. CASE Fail(r)
  BY <1>1 DEF Fail, OnlyStaleSavesUndo, tables, history
<1>2. CASE ~ Fail(r)
  <2>1. PICK f \in Flag : /\ flag' = [flag EXCEPT ![f] = new]
                          /\ decided' = [decided EXCEPT ![f] = Requested(Blank, r)]
                          /\ dirty' = dirty
                          /\ Refers(new)
    BY <1>2 DEF InsertFlag
  <2>2. found[r] = req[r].dto.projects \cap projects
    <3>1. found[r] \subseteq projects
      BY <2>1 DEF Refers
    <3> QED  BY <1>0, <3>1 DEF HasRead, Asks
  <2>3. new = Requested(Blank, r)
    BY <1>0, <2>2 DEF Requested, Blank, Asks
  <2> QED  BY <1>0, <2>1, <2>3 DEF OnlyStaleSavesUndo, TypeOK
<1> QED  BY <1>1, <1>2

\* Every step keeps what is stored as it was decided, but for the flags it marks.
LEMMA StepAsDecided == IInv /\ OnlyStaleSavesUndo /\ [Next]_vars => OnlyStaleSavesUndo'
<1> SUFFICES ASSUME IInv, OnlyStaleSavesUndo, [Next]_vars PROVE OnlyStaleSavesUndo'
  OBVIOUS
<1>0. TypeOK
  BY DEF IInv
<1>1. CASE UNCHANGED <<flag, decided, dirty>>
  BY <1>1 DEF OnlyStaleSavesUndo
<1>2. ASSUME NEW r \in Request, Moves(r) PROVE OnlyStaleSavesUndo'
  <2>1. CASE \E kind, f, dto, step : Arrives(r, kind, f, dto, step)
    BY <1>1, <2>1 DEF Arrives, Arrive, tables
  <2>2. CASE Fail(r) \/ Load(r) \/ ResolveProjects(r) \/ SyncFind(r) \/ Reload(r)
             \/ ToggleFind(r) \/ Audit(r)
    BY <1>1, <2>2 DEF Fail, Load, ResolveProjects, SyncFind, Reload, ToggleFind, Audit,
                      tables, history
  <2>3. CASE SyncSave(r) \/ ToggleSave(r)
    <3>1. pc[r] \in {"sync", "toggle"} /\ entry[r] # Null
      BY <2>3 DEF SyncSave, ToggleSave
    <3>2. req[r].flag \in Flag /\ entry[r].env \in Environment
      BY <3>1, EntryOK
    <3>3. CASE ~ Fail(r)
      <4>1. /\ MayWrite(req[r].flag, entry[r].env, entry[r].old)
            /\ WriteValue(r, req[r].flag, entry[r].env, req[r].dto.values[entry[r].env])
        BY <2>3, <3>3 DEF SyncSave, ToggleSave
      <4> QED  BY <1>0, <3>2, <4>1, WrittenToARow, WriteAsDecided
    <3> QED  BY <2>2, <3>3
  <2>4. CASE DeleteFlag(r)
    BY <1>0, <2>4 DEF DeleteFlag, OnlyStaleSavesUndo, TypeOK
  <2> QED
    BY <1>2, <2>1, <2>2, <2>3, <2>4, SaveAsDecided, InsertAsDecided DEF Moves, Step, Abort
<1>3. ASSUME NEW p \in Project, RemoveProject(p) PROVE OnlyStaleSavesUndo'
  BY <1>3 DEF RemoveProject, OnlyStaleSavesUndo
<1>4. ASSUME NEW e \in Environment, RemoveEnvironment(e) PROVE OnlyStaleSavesUndo'
  BY <1>1, <1>4 DEF RemoveEnvironment, history
<1> QED  BY <1>1, <1>2, <1>3, <1>4, NextMoves DEF vars, tables, history

\* create, update, updateEnvironmentValue and remove, against each other and
\* against the removal of projects: each column, link and value of a flag is what
\* the requests asked for, unless a save went over a row that was no longer the
\* one it had loaded.
THEOREM AsDecided == Spec => []OnlyStaleSavesUndo
<1>1. Init => OnlyStaleSavesUndo
  BY DEF Init, OnlyStaleSavesUndo
<1> QED  BY <1>1, TypeCorrect, StepAsDecided, PTL DEF Spec

(***************************************************************************)
(* Removals.  Recorded only grows, and whoever goes to delete a flag knows *)
(* its removal recorded: by its own hand, or, where it found no row, by    *)
(* the request that had deleted it.                                        *)
(***************************************************************************)
Recorded == {f \in Flag : \E r \in audited : req[r].kind = "remove" /\ req[r].flag = f}

KeysInv ==
    /\ Existing \subseteq born
    /\ born \ Existing \subseteq Recorded
    /\ \A r \in Request : req[r].flag \in born \cup {Null}
    /\ \A r \in Request : pc[r] = "delete" => req[r].flag \in Recorded

\* Records are not taken back, nor is what they were about.
LEMMA RecordsStay ==
    ASSUME IInv, NEW r \in Request, Moves(r)
    PROVE  /\ Recorded \subseteq Recorded'
           /\ req'[r] # req[r] => r \notin audited /\ pc[r] \in {"idle", "insert"}
<1>0. TypeOK /\ Holds(r)
  BY DEF IInv
<1>1. req'[r] # req[r] => r \notin audited /\ pc[r] \in {"idle", "insert"}
  BY <1>0 DEF Moves, Arrives, Arrive, Step, Abort, Fail, Load, ResolveProjects, InsertFlag, Save,
              SyncFind, SyncSave, Reload, ToggleFind, ToggleSave, Audit, DeleteFlag, local,
              Holds, Place
<1>2. audited \subseteq audited' /\ \A q \in audited : req'[q] = req[q]
  BY <1>0, <1>1, OwnPartOnly DEF TypeOK
<1> QED  BY <1>1, <1>2 DEF Recorded

\* The keys of a step: what it adds to the table, and what it is about.
LEMMA StepKeys == IInv /\ KeysInv /\ [Next]_vars => KeysInv'
<1> SUFFICES ASSUME IInv, KeysInv, [Next]_vars PROVE KeysInv'
  OBVIOUS
<1>0. TypeOK /\ \A r \in Request : Holds(r)
  BY DEF IInv
<1>1. ASSUME NEW r \in Request, Moves(r) PROVE KeysInv'
  <2>0. /\ \A q \in Request \ {r} : pc'[q] = pc[q] /\ req'[q] = req[q]
        /\ born \subseteq born' /\ Recorded \subseteq Recorded'
    BY <1>0, <1>1, OwnPartOnly, RecordsStay
  <2> SUFFICES /\ Existing' \subseteq born'
               /\ born' \ Existing' \subseteq Recorded'
               /\ req'[r].flag \in born' \cup {Null}
               /\ pc'[r] = "delete" => req'[r].flag \in Recorded'
    BY <2>0 DEF KeysInv
  <2>1. CASE \E kind, f, dto, step : Arrives(r, kind, f, dto, step)
    <3>1. PICK kind, f, dto, step : Arrives(r, kind, f, dto, step)
      BY <2>1
    <3>2. /\ req'[r].flag = f /\ pc'[r] = step /\ step # "delete" /\ f \in Existing \cup {Null}
          /\ UNCHANGED <<flag, born, audited>>
      BY <1>0, <3>1 DEF Arrives, Arrive, TypeOK, tables
    <3> QED  BY <2>0, <3>2 DEF KeysInv, Existing
  <2>2. CASE Load(r)
    <3>1. /\ UNCHANGED <<flag, born, req>>
          /\ req[r].flag \in Flag
          /\ pc'[r] = "delete" => flag[req[r].flag] = Null
      <4>1. req[r].flag \in Flag /\ UNCHANGED <<flag, born, req>>
        BY <1>0, <2>2 DEF Load, Fail, tables, local, Holds, Place, Asks
      <4>2. CASE Fail(r)
        BY <1>0, <4>1, <4>2 DEF Fail, TypeOK
      <4>3. CASE ~ Fail(r)
        BY <1>0, <2>2, <4>1, <4>3 DEF Load, TypeOK
      <4> QED  BY <4>2, <4>3
    <3> QED  BY <2>0, <3>1, NullAssumption DEF KeysInv, Existing
  <2>3. CASE Fail(r) \/ ResolveProjects(r) \/ SyncFind(r) \/ Reload(r) \/ ToggleFind(r)
    <3>1. UNCHANGED <<flag, born, req>> /\ pc'[r] # "delete"
      BY <1>0, <2>3 DEF Fail, ResolveProjects, SyncFind, Reload, ToggleFind, TypeOK, tables, local
    <3> QED  BY <2>0, <3>1 DEF KeysInv, Existing
  <2>4. CASE InsertFlag(r) /\ ~ Fail(r)
    <3> DEFINE new == [code |-> req[r].dto.code, projects |-> found[r],
                       values |-> [e \in Environment |-> "none"]]
    <3>1. PICK f \in Flag \ born :
            /\ flag' = [flag EXCEPT ![f] = new]
            /\ born' = born \cup {f}
            /\ req' = [req EXCEPT ![r] = [kind |-> "create", flag |-> f, dto |-> req[r].dto]]
            /\ ThenSync(r)
      BY <2>4 DEF InsertFlag
    <3>2. new # Null
      <4>1. new \in Row
        BY <1>0, <2>4 DEF InsertFlag, Holds, Place, Asks, TypeOK, Dto, Row, Value
      <4> QED  BY <4>1, NullAssumption
    <3>3. \A g \in Flag : flag'[g] = IF g = f THEN new ELSE flag[g]
      BY <1>0, <3>1 DEF TypeOK
    <3>4. Existing' = Existing \cup {f}
      BY <3>2, <3>3 DEF Existing
    <3>5. req'[r].flag = f /\ pc'[r] # "delete"
      BY <1>0, <3>1 DEF TypeOK, ThenSync
    <3> QED  BY <2>0, <3>1, <3>4, <3>5 DEF KeysInv
  <2>5. CASE (Save(r) \/ SyncSave(r) \/ ToggleSave(r)) /\ ~ Fail(r)
    <3> DEFINE f == req[r].flag
    <3>1. f \in Flag
      BY <1>0, <2>5, EntryOK DEF Save, SyncSave, ToggleSave, Holds, Place, Asks
    <3>2. \A g \in Flag \ {f} : flag'[g] = flag[g]
      BY <1>0, <2>5, <3>1 DEF Save, SyncSave, ToggleSave, WriteValue, TypeOK
    <3>3. UNCHANGED <<born, req>> /\ pc'[r] # "delete"
      BY <1>0, <2>5 DEF Save, SyncSave, ToggleSave, ThenSync, TypeOK, local
    <3>4. flag'[f] # Null
      <4>1. CASE Save(r)
        <5>1. loaded[r] \in Row
          BY <1>0, <4>1 DEF Save, Holds, Place, HasRead, TypeOK
        <5>2. Assigned(loaded[r], r) \in Row /\ flag'[f] = Assigned(loaded[r], r)
          BY <1>0, <2>5, <3>1, <4>1, <5>1, AssignedIsRow DEF Save, TypeOK
        <5> QED  BY <5>2, NullAssumption
      <4>2. CASE SyncSave(r) \/ ToggleSave(r)
        <5>1. pc[r] \in {"sync", "toggle"} /\ entry[r] # Null
          BY <4>2 DEF SyncSave, ToggleSave
        <5>2. entry[r].env \in Environment /\ req[r].dto.values[entry[r].env] \in Value
          BY <5>1, EntryOK
        <5>3. /\ MayWrite(f, entry[r].env, entry[r].old)
              /\ flag'[f] = SetValue(flag[f], entry[r].env, req[r].dto.values[entry[r].env])
          BY <1>0, <2>5, <3>1, <4>2 DEF SyncSave, ToggleSave, WriteValue, TypeOK
        <5>4. flag[f] \in Row
          BY <1>0, <3>1, <5>2, <5>3, WrittenToARow DEF TypeOK
        <5> QED  BY <5>2, <5>3, <5>4, SetValueIsRow, NullAssumption
      <4> QED  BY <2>5, <4>1, <4>2
    <3>5. f \in born
      BY <3>1, NullAssumption DEF KeysInv
    <3>6. Existing' = Existing \cup {f}
      BY <3>1, <3>2, <3>4 DEF Existing
    <3> QED  BY <2>0, <3>3, <3>5, <3>6 DEF KeysInv
  <2>6. CASE Audit(r)
    <3>1. /\ UNCHANGED <<flag, born, req>> /\ audited' = audited \cup {r}
          /\ pc'[r] = "delete" => req[r].kind = "remove" /\ req[r].flag \in Flag
      BY <1>0, <2>6 DEF Audit, TypeOK, local, Holds, Place
    <3> QED  BY <2>0, <3>1 DEF KeysInv, Existing, Recorded
  <2>7. CASE DeleteFlag(r)
    <3>1. /\ flag' = [flag EXCEPT ![req[r].flag] = Null]
          /\ UNCHANGED <<born, req>> /\ pc'[r] # "delete" /\ pc[r] = "delete"
      BY <1>0, <2>7 DEF DeleteFlag, TypeOK, local
    <3>2. Existing' = Existing \ {req[r].flag}
      BY <1>0, <3>1 DEF Existing, TypeOK
    <3> QED  BY <2>0, <3>1, <3>2 DEF KeysInv
  <2> QED  BY <1>1, <2>1, <2>2, <2>3, <2>4, <2>5, <2>6, <2>7 DEF Moves, Step, Abort
<1>2. ASSUME NEW p \in Project, RemoveProject(p) PROVE KeysInv'
  <2>1. \A f \in Flag : flag'[f] = Null <=> flag[f] = Null
    <3>1. ASSUME NEW row \in Row PROVE Unlinked(row, p) # Null
      <4>1. Unlinked(row, p) = [code |-> row.code, projects |-> row.projects \ {p},
                                values |-> row.values]
        BY NullAssumption DEF Unlinked
      <4>2. Unlinked(row, p) \in Row
        BY <4>1 DEF Row
      <4> QED  BY <4>2, NullAssumption
    <3> QED  BY <1>0, <1>2, <3>1 DEF RemoveProject, Unlinked, TypeOK
  <2> QED  BY <1>2, <2>1 DEF RemoveProject, local, KeysInv, Existing, Recorded
<1>3. CASE UNCHANGED <<flag, born, req, pc, audited>>
  BY <1>3 DEF KeysInv, Existing, Recorded
<1>4. ASSUME NEW e \in Environment, RemoveEnvironment(e) PROVE KeysInv'
  BY <1>3, <1>4 DEF RemoveEnvironment, local
<1> QED  BY <1>1, <1>2, <1>3, <1>4, NextMoves DEF vars, tables, local

\* So it is in every reachable state.
LEMMA AlwaysKeys == Spec => []KeysInv
<1>1. Init => KeysInv
  BY DEF Init, KeysInv, Existing
<1> QED  BY <1>1, TypeCorrect, StepKeys, PTL DEF Spec

\* remove, which records before it deletes, and is not refused where another
\* removal came first: a flag that is gone has a record of its removal.
THEOREM GoneIsRecorded == Spec => []RemovalsAreRecorded
<1>1. KeysInv => RemovalsAreRecorded
  BY DEF KeysInv, RemovalsAreRecorded, Recorded
<1> QED  BY <1>1, AlwaysKeys, PTL

(***************************************************************************)
(* Records of switches.  The record of an update compares the flag it      *)
(* loaded with the flag as it is at the end, the record of a toggle the    *)
(* value it read with the value asked for: for a request that had its flag *)
(* to itself, the difference is what it wrote.                             *)
(***************************************************************************)
\* Requests handled at the same time know of each other.
MetInv ==
    /\ \A r \in InFlight : \A q \in InFlight \ {r} : q \in met[r]
    /\ \A r \in Request : \A q \in met[r] : pc[q] # "idle"

Lone(r) == \A q \in met[r] : req[q].flag # req[r].flag

\* The flag of a lone update: there, and as it was loaded but for what the update
\* has written; one that switched something shows it.
Shows(r) ==
    LET f == req[r].flag IN
    /\ flag[f] # Null
    /\ \A e \in Environment \ written[r] : flag[f].values[e] = loaded[r].values[e]
    /\ r \in flipped =>
         \E e \in Environment : ~ (flag[f].values[e] = "on" <=> loaded[r].values[e] = "on")

LoneInv(r) ==
    /\ r \in flipped => req[r].kind # "remove"
    /\ req[r].kind = "create" /\ pc[r] = "done" => r \in audited
    /\ req[r].kind = "update" /\ pc[r] \in {"resolve", "save", "sync", "reload"} /\ Lone(r) =>
         Shows(r)
    /\ pc[r] = "toggle" /\ entry[r] # Null /\ Lone(r) =>
         entry[r].old = CurrentValue(req[r].flag, entry[r].env)
    /\ req[r].kind \in {"update", "toggle"} /\ pc[r] = "done" /\ r \in flipped /\ Lone(r) =>
         r \in audited \/ Indistinct(r)

\* Arrivals alone make requests meet, and they make all in flight meet.
LEMMA StepMet == IInv /\ MetInv /\ [Next]_vars => MetInv'
<1> SUFFICES ASSUME IInv, MetInv, [Next]_vars PROVE MetInv'
  OBVIOUS
<1>0. TypeOK
  BY DEF IInv
<1>1. ASSUME NEW r \in Request, Moves(r) PROVE MetInv'
  <2>0. \A q \in Request \ {r} : pc'[q] = pc[q]
    BY <1>0, <1>1, OwnPartOnly
  <2>1. CASE \E kind, f, dto, step : Arrives(r, kind, f, dto, step)
    <3>1. /\ pc[r] = "idle" /\ pc'[r] # "idle"
          /\ met' = [q \in Request |-> IF q = r THEN InFlight
                                       ELSE met[q] \cup {a \in {r} : q \in InFlight}]
      BY <1>0, <2>1 DEF Arrives, Arrive, TypeOK
    <3>2. InFlight \subseteq Request /\ r \notin InFlight
          /\ InFlight' \subseteq InFlight \cup {r}
      BY <2>0, <3>1 DEF InFlight, Steps
    <3>3. ASSUME NEW o \in InFlight', NEW q \in InFlight' \ {o} PROVE q \in met'[o]
      BY <1>0, <3>1, <3>2, <3>3 DEF MetInv, TypeOK
    <3>4. ASSUME NEW o \in Request, NEW q \in met'[o] PROVE pc'[q] # "idle"
      BY <1>0, <2>0, <3>1, <3>2, <3>4 DEF MetInv, TypeOK, InFlight, Steps
    <3> QED  BY <3>3, <3>4 DEF MetInv
  <2>2. CASE Step(r) \/ Abort(r)
    <3>1. met' = met /\ pc[r] \in Steps /\ pc'[r] # "idle"
      BY <1>0, <2>2 DEF Step, Abort, Fail, Load, ResolveProjects, InsertFlag, Save, ThenSync,
                        SyncFind, SyncSave, Reload, ToggleFind, ToggleSave, WriteValue, Audit,
                        DeleteFlag, TypeOK, history, Steps
    <3>2. InFlight' \subseteq InFlight
      BY <2>0, <3>1 DEF InFlight
    <3>3. ASSUME NEW o \in Request, NEW q \in met[o] PROVE pc'[q] # "idle"
      BY <1>0, <2>0, <3>1 DEF MetInv, TypeOK
    <3> QED  BY <3>1, <3>2, <3>3 DEF MetInv
  <2> QED  BY <1>1, <2>1, <2>2 DEF Moves
<1>2. CASE UNCHANGED <<pc, met>>
  BY <1>2 DEF MetInv, InFlight
<1>3. ASSUME NEW p \in Project, RemoveProject(p) PROVE MetInv'
  BY <1>2, <1>3 DEF RemoveProject
<1>4. ASSUME NEW e \in Environment, RemoveEnvironment(e) PROVE MetInv'
  BY <1>2, <1>4 DEF RemoveEnvironment, history
<1> QED  BY <1>1, <1>2, <1>3, <1>4, NextMoves DEF vars, history

\* Who turns out to have been alone was so all along: a flag that is created
\* meanwhile has a key of its own.
LEMMA LoneBefore ==
    ASSUME IInv, KeysInv, MetInv, NEW r \in Request, Moves(r),
           NEW o \in Request, pc[o] # "idle", req[o].kind # "create", Lone(o)'
    PROVE  Lone(o)
<1>0. TypeOK /\ (\A q \in Request : Holds(q)) /\ Asks(o) /\ req[o].flag \in Flag
  BY DEF IInv, Holds, Asks
<1>1. req'[o] = req[o]
  BY <1>0, <1>0, OwnPartOnly, RecordsStay DEF Holds, Place
<1>2. met[o] \subseteq met'[o] /\ met[o] \subseteq Request
  <2>1. CASE \E kind, f, dto, step : Arrives(r, kind, f, dto, step)
    BY <1>0, <2>1 DEF Arrives, Arrive, TypeOK
  <2>2. CASE Step(r) \/ Abort(r)
    BY <1>0, <2>2 DEF Step, Abort, Fail, Load, ResolveProjects, InsertFlag, Save, SyncFind, SyncSave,
                      Reload, ToggleFind, ToggleSave, WriteValue, Audit, DeleteFlag, TypeOK, history
  <2> QED  BY <2>1, <2>2 DEF Moves
<1>3. ASSUME NEW q \in met[o] PROVE req[q].flag # req[o].flag
  <2>1. req'[q].flag # req[o].flag /\ q \in Request /\ pc[q] # "idle"
    BY <1>1, <1>2, <1>3 DEF Lone, MetInv
  <2>2. CASE req'[q] = req[q]
    BY <2>1, <2>2
  <2>3. CASE req'[q] # req[q]
    <3>1. q = r
      BY <1>0, <2>1, <2>3, OwnPartOnly
    <3>2. pc[q] = "insert"
      BY <2>1, <2>3, <3>1, RecordsStay
    <3> QED  BY <1>0, <2>1, <3>2, NullAssumption DEF Holds, Place
  <2> QED  BY <2>2, <2>3
<1> QED  BY <1>3 DEF Lone

\* Nobody else touches the flag of a lone request.
LEMMA Undisturbed ==
    ASSUME IInv, KeysInv, MetInv, NEW r \in Request, Moves(r),
           NEW o \in InFlight \ {r}, req[o].kind # "create", Lone(o)
    PROVE  flag'[req[o].flag] = flag[req[o].flag]
<1> DEFINE f == req[o].flag
<1>0. /\ TypeOK /\ (\A q \in Request : Holds(q)) /\ o \in Request /\ pc[o] # "idle"
      /\ f \in Flag /\ f \in born
  BY NullAssumption DEF IInv, Holds, Asks, InFlight, Steps, KeysInv
<1>1. CASE flag' = flag
  BY <1>1
<1>2. CASE flag' # flag
  <2>1. /\ pc[r] \in {"insert", "save", "sync", "toggle", "delete"}
        /\ \/ \E g \in Flag \ born : \E value : flag' = [flag EXCEPT ![g] = value]
           \/ \E value : flag' = [flag EXCEPT ![req[r].flag] = value]
    BY <1>2 DEF Moves, Arrives, Arrive, Step, Abort, Fail, Load, ResolveProjects, InsertFlag, Save,
                SyncFind, SyncSave, Reload, ToggleFind, ToggleSave, WriteValue, Audit, DeleteFlag,
                tables
  <2>2. r \in InFlight
    BY <2>1 DEF InFlight, Steps
  <2>3. req[r].flag # f
    BY <2>2 DEF MetInv, Lone
  <2> QED  BY <1>0, <2>1, <2>3 DEF TypeOK
<1> QED  BY <1>1, <1>2

\* What another request, or the removal of a project, leaves of LoneInv: all.
LEMMA OthersLone ==
    ASSUME NEW o \in Request, Holds(o), LoneInv(o),
           pc'[o] = pc[o] /\ req'[o] = req[o] /\ loaded'[o] = loaded[o] /\ entry'[o] = entry[o],
           written'[o] = written[o], shown'[o] = shown[o],
           o \in flipped' <=> o \in flipped, o \in audited' <=> o \in audited,
           o \in renamed' <=> o \in renamed,
           pc[o] # "idle" /\ req[o].kind # "create" /\ Lone(o)' =>
             /\ Lone(o)
             /\ o \in InFlight => /\ flag'[req[o].flag] = Null <=> flag[req[o].flag] = Null
                                  /\ flag'[req[o].flag].values = flag[req[o].flag].values
    PROVE  LoneInv(o)'
<1> DEFINE f == req[o].flag
<1>1. pc[o] \in {"resolve", "save", "sync", "reload", "toggle"} => o \in InFlight
  BY DEF InFlight, Steps
<1>2. ASSUME req[o].kind = "update", pc[o] \in {"resolve", "save", "sync", "reload"}, Lone(o)'
      PROVE  Shows(o)'
  BY <1>1, <1>2 DEF LoneInv, Shows
<1>3. ASSUME pc[o] = "toggle", entry[o] # Null, Lone(o)'
      PROVE  entry'[o].old = CurrentValue(req[o].flag, entry[o].env)'
  BY <1>1, <1>3 DEF LoneInv, CurrentValue, Holds, Place
<1> QED  BY <1>2, <1>3 DEF LoneInv, Indistinct

\* There are as many of a set on either side of a switch of one, unless the switch
\* was seen.
LEMMA OneMoreOrLess ==
    ASSUME NEW A, NEW B, NEW x, IsFiniteSet(A), IsFiniteSet(B),
           A \ {x} = B \ {x}, ~ (x \in A <=> x \in B)
    PROVE  Bijection(A, B) = {}
<1> SUFFICES ASSUME Bijection(A, B) # {} PROVE FALSE
  OBVIOUS
<1>1. Cardinality(A) = Cardinality(B)
  BY FS_Bijection DEF ExistsBijection
<1>2. Cardinality(A \ {x}) # Cardinality(B \ {x})
  BY <1>1, FS_RemoveElement, FS_CardinalityType
<1> QED  BY <1>2

\* Two of the environments W have one name, or names are not what they were.
Blurred(W, before, after) ==
    \E e, g \in W : e # g /\ (before[e] = before[g] \/ after # before)

\* computeAuditDiff: two maps of values, equal outside the environments W, of which
\* one is switched on or off, look alike only if W has two environments, and two of
\* one name or names that changed.
LEMMA AlikeIsBlurred ==
    ASSUME NEW old \in [Environment -> Value], NEW new \in [Environment -> Value],
           NEW before, NEW after, NEW W \in SUBSET Environment,
           NEW x \in Environment, ~ (new[x] = "on" <=> old[x] = "on"),
           \A e \in Environment \ W : new[e] = old[e],
           LookAlike(old, before, new, after)
    PROVE  Blurred(W, before, after)
<1> SUFFICES ASSUME \A e, g \in W : e # g => before[e] # before[g] /\ after = before
             PROVE  FALSE
  BY DEF Blurred
<1>1. x \in W
  OBVIOUS
<1>2. PICK m \in Bijection(Named(old), Named(new)) :
        \A e \in Named(old) : before[e] = after[m[e]] /\ old[e] = new[m[e]]
  BY DEF LookAlike
<1> DEFINE Kin == {e \in Environment : W = {x} \/ before[e] = before[x]}
           A == {e \in Kin : old[e] = "on"}
           B == {e \in Kin : new[e] = "on"}
           k == [e \in A |-> m[e]]
<1>3. x \in Kin /\ \A e \in Kin : e \in W => e = x
  OBVIOUS
<1>4. /\ IsFiniteSet(A) /\ IsFiniteSet(B)
      /\ A \ {x} = B \ {x} /\ ~ (x \in A <=> x \in B)
  <2>1. A \subseteq Environment /\ B \subseteq Environment
    OBVIOUS
  <2>2. IsFiniteSet(A) /\ IsFiniteSet(B)
    BY <2>1, EnvironmentAssumption, FS_Subset
  <2>3. \A e \in Kin \ {x} : old[e] = new[e]
    BY <1>3
  <2> QED  BY <1>1, <1>3, <2>2, <2>3
<1>5. A \subseteq Named(old) /\ B \subseteq Named(new)
  BY DEF Named
<1>6. /\ m \in [Named(old) -> Named(new)]
      /\ \A e, g \in Named(old) : m[e] = m[g] => e = g
      /\ \A g \in Named(new) : \E e \in Named(old) : m[e] = g
  BY <1>2 DEF Bijection, Injection, Surjection, IsInjective
<1>7. \A e \in Named(old) : m[e] \in B <=> e \in A
  <2> SUFFICES ASSUME NEW e \in Named(old) PROVE m[e] \in B <=> e \in A
    OBVIOUS
  <2>1. e \in Environment /\ m[e] \in Environment
    BY <1>6 DEF Named
  <2>2. old[e] = new[m[e]] /\ before[e] = after[m[e]]
    BY <1>2
  <2>3. W = {x} \/ after = before
    BY <1>1
  <2> QED  BY <2>1, <2>2, <2>3
<1>8. k \in Bijection(A, B)
  <2>1. k \in [A -> B]
    BY <1>5, <1>7
  <2>2. \A e, g \in A : k[e] = k[g] => e = g
    BY <1>5, <1>6
  <2>3. \A g \in B : \E e \in A : k[e] = g
    BY <1>5, <1>6, <1>7
  <2> QED  BY <2>1, <2>2, <2>3 DEF Bijection, Injection, Surjection, IsInjective
<1> QED  BY <1>4, <1>8, OneMoreOrLess

\* The steps of an update.
LEMMA UpdateLone ==
    ASSUME IInv, NEW r \in Request, Step(r), ~ Fail(r), req[r].kind = "update",
           LoneInv(r), Lone(r)' => Lone(r)
    PROVE  LoneInv(r)'
<1> DEFINE f == req[r].flag
<1> USE DEF tables, local, history
<1>0. /\ TypeOK /\ Holds(r) /\ pc[r] \in {"load", "resolve", "save", "sync", "reload", "audit"}
      /\ f \in Flag
  BY DEF IInv, Step, Holds, Place, Asks, Load, ResolveProjects, InsertFlag, Save, SyncFind, SyncSave,
         Reload, ToggleFind, ToggleSave, Audit, DeleteFlag
<1>1. ASSUME req'[r] = req[r], pc'[r] \in {"resolve", "save", "sync", "reload"},
             Lone(r)' => Shows(r)'
      PROVE  LoneInv(r)'
  BY <1>1 DEF LoneInv
<1>2. CASE Load(r)
  <2>1. /\ flag[f] # Null /\ loaded'[r] = flag[f] /\ pc'[r] \in {"resolve", "save"}
        /\ UNCHANGED <<flag, req, written, flipped>>
    BY <1>0, <1>2 DEF Load, TypeOK
  <2>2. r \notin flipped
    BY <1>0, <1>2 DEF Load, Holds, HasWritten
  <2> QED  BY <1>1, <2>1, <2>2 DEF Shows
<1>3. CASE ResolveProjects(r) \/ SyncFind(r)
  <2>1. /\ pc'[r] \in {"save", "sync"} /\ pc[r] \in {"resolve", "sync"}
        /\ UNCHANGED <<flag, req, loaded, written, flipped>>
    BY <1>0, <1>3 DEF ResolveProjects, SyncFind, TypeOK
  <2> QED  BY <1>1, <2>1 DEF LoneInv, Shows
<1>4. CASE Save(r)
  <2>1. /\ flag' = [flag EXCEPT ![f] = Assigned(loaded[r], r)]
        /\ ThenSync(r)
        /\ UNCHANGED <<req, loaded, written, flipped>>
    BY <1>4 DEF Save
  <2>2. loaded[r] \in Row /\ r \notin flipped
    BY <1>0, <1>4 DEF Save, Holds, HasRead, HasWritten, TypeOK
  <2>3. /\ Assigned(loaded[r], r) \in Row
        /\ Assigned(loaded[r], r).values = loaded[r].values
    BY <1>0, <2>2, AssignedIsRow DEF Assigned
  <2>4. flag'[f] = Assigned(loaded[r], r) /\ pc'[r] \in {"sync", "reload"}
    BY <1>0, <2>1 DEF ThenSync, TypeOK
  <2> QED  BY <1>1, <2>1, <2>2, <2>3, <2>4, NullAssumption DEF Shows
<1>5. CASE SyncSave(r)
  <2> DEFINE e == entry[r].env
             value == req[r].dto.values[e]
  <2>0. /\ pc[r] = "sync" /\ entry[r] # Null /\ e \in Environment /\ value \in Value
        /\ e \in todo[r] /\ e \notin written[r]
    BY <1>0, <1>5, EntryOK DEF SyncSave, Holds, HasWritten
  <2>1. /\ MayWrite(f, e, entry[r].old) /\ WriteValue(r, f, e, value)
        /\ pc'[r] \in {"sync", "reload"}
        /\ UNCHANGED <<req, loaded>>
    BY <1>0, <1>5 DEF SyncSave, TypeOK
  <2>2. flag[f] \in Row
    BY <1>0, <2>0, <2>1, WrittenToARow DEF TypeOK
  <2>3. /\ flag'[f] \in Row
        /\ flag'[f].values = [flag[f].values EXCEPT ![e] = value]
        /\ written'[r] = written[r] \cup {e}
    <3>1. flag'[f] = SetValue(flag[f], e, value)
      BY <1>0, <2>1 DEF WriteValue, TypeOK
    <3>2. SetValue(flag[f], e, value) \in Row
      BY <2>0, <2>2, SetValueIsRow
    <3> QED  BY <1>0, <2>1, <3>1, <3>2 DEF SetValue, WriteValue, TypeOK
  <2>4. /\ flag[f].values \in [Environment -> Value]
        /\ flag'[f].values[e] = value
        /\ \A g \in Environment \ {e} : flag'[f].values[g] = flag[f].values[g]
    BY <2>0, <2>2, <2>3 DEF Row
  <2>5. ASSUME Lone(r)' PROVE Shows(r)'
    <3>1. Shows(r)
      BY <2>0, <2>5 DEF LoneInv
    <3>2. flag[f].values[e] = loaded[r].values[e]
      BY <2>0, <3>1 DEF Shows
    <3>3. ASSUME r \in flipped'
          PROVE  \E g \in Environment :
                   ~ (flag'[f].values[g] = "on" <=> loaded[r].values[g] = "on")
      <4>1. CASE r \in flipped
        <5>1. PICK g \in Environment :
                ~ (flag[f].values[g] = "on" <=> loaded[r].values[g] = "on")
          BY <3>1, <4>1 DEF Shows
        <5>2. g # e
          BY <3>2, <5>1
        <5> QED  BY <2>4, <5>1, <5>2
      <4>2. CASE r \notin flipped
        <5>1. ~ (CurrentValue(f, e) = "on" <=> value = "on")
          BY <2>1, <3>3, <4>2 DEF WriteValue
        <5>2. CurrentValue(f, e) = flag[f].values[e]
          BY <2>2, NullAssumption DEF CurrentValue
        <5> QED  BY <2>0, <2>4, <3>2, <5>1, <5>2
      <4> QED  BY <4>1, <4>2
    <3>4. \A g \in Environment \ written'[r] : flag'[f].values[g] = loaded[r].values[g]
      BY <2>3, <2>4, <3>1 DEF Shows
    <3> QED  BY <2>1, <2>3, <3>3, <3>4, NullAssumption DEF Shows
  <2> QED  BY <1>1, <2>1, <2>5
<1>6. CASE Reload(r)
  <2>1. /\ pc'[r] \in {"audit", "done"} /\ pc[r] = "reload"
        /\ UNCHANGED <<req, flipped, written, shown>>
    BY <1>0, <1>6 DEF Reload, TypeOK
  <2>2. ASSUME pc'[r] = "done", r \in flipped, Lone(r)' PROVE Indistinct(r)'
    <3>1. PICK names \in [Environment -> Title] :
            /\ MayLookAlike(loaded[r], shown[r], flag[f], names)
            /\ renamed' = renamed \cup {q \in {r} : names # shown[r]}
      BY <1>0, <1>6, <2>2 DEF Reload, TypeOK
    <3>2. Shows(r)
      BY <2>1, <2>2 DEF LoneInv
    <3> DEFINE old == loaded[r].values
               new == flag[f].values
    <3>3. /\ old \in [Environment -> Value] /\ new \in [Environment -> Value]
          /\ written[r] \in SUBSET Environment
      BY <1>0, <3>1, <3>2 DEF TypeOK, Shows, MayLookAlike, Row
    <3>4. /\ \A e \in Environment \ written[r] : new[e] = old[e]
          /\ LookAlike(old, shown[r], new, names)
      BY <2>2, <3>1, <3>2 DEF Shows, MayLookAlike
    <3>5. PICK x \in Environment : ~ (new[x] = "on" <=> old[x] = "on")
      BY <2>2, <3>2 DEF Shows
    <3>6. Blurred(written[r], shown[r], names)
      <4> HIDE DEF old, new
      <4> QED  BY <3>3, <3>4, <3>5, AlikeIsBlurred
    <3> QED  BY <2>1, <3>1, <3>6 DEF Indistinct, Blurred
  <2> QED  BY <2>1, <2>2 DEF LoneInv
<1>7. CASE Audit(r)
  <2>1. pc'[r] = "done" /\ r \in audited' /\ UNCHANGED req
    BY <1>0, <1>7 DEF Audit, TypeOK
  <2> QED  BY <2>1 DEF LoneInv
<1> QED
  BY <1>0, <1>2, <1>3, <1>4, <1>5, <1>6, <1>7
     DEF Step, InsertFlag, ToggleFind, ToggleSave, DeleteFlag

\* The steps of a toggle.
LEMMA ToggleLone ==
    ASSUME IInv, NEW r \in Request, Step(r), ~ Fail(r), req[r].kind = "toggle",
           LoneInv(r), Lone(r)' => Lone(r)
    PROVE  LoneInv(r)'
<1> DEFINE f == req[r].flag
           e == entry[r].env
           value == req[r].dto.values[e]
<1> USE DEF tables, local, history
<1>0. TypeOK /\ Holds(r) /\ pc[r] \in {"toggle", "audit"} /\ f \in Flag
  BY DEF IInv, Step, Holds, Place, Asks, Load, ResolveProjects, InsertFlag, Save, SyncFind, SyncSave,
         Reload, ToggleFind, ToggleSave, Audit, DeleteFlag
<1>1. CASE ToggleFind(r)
  <2>1. PICK g \in Named(req[r].dto.values) :
          /\ entry' = [entry EXCEPT ![r] = [env |-> g, old |-> CurrentValue(f, g)]]
          /\ UNCHANGED <<flag, pc, req, flipped, audited>>
    BY <1>1 DEF ToggleFind
  <2>2. entry'[r] = [env |-> g, old |-> CurrentValue(f, g)] /\ pc[r] = "toggle"
    BY <1>0, <1>1, <2>1 DEF TypeOK, ToggleFind
  <2> QED  BY <2>1, <2>2 DEF LoneInv, CurrentValue
<1>2. CASE ToggleSave(r)
  <2>1. /\ WriteValue(r, f, e, value)
        /\ pc'[r] = (IF (entry[r].old = "on") = (value = "on") THEN "done" ELSE "audit")
        /\ pc[r] = "toggle" /\ entry[r] # Null
        /\ UNCHANGED <<req, audited>>
    BY <1>0, <1>2 DEF ToggleSave, TypeOK
  <2>2. r \notin flipped
    BY <1>0, <2>1 DEF Holds, HasWritten
  <2>3. r \in flipped' => ~ (CurrentValue(f, e) = "on" <=> value = "on")
    BY <2>1, <2>2 DEF WriteValue
  <2>4. r \in flipped' /\ Lone(r)' => pc'[r] = "audit"
    <3>1. Lone(r)' => entry[r].old = CurrentValue(f, e)
      BY <2>1 DEF LoneInv
    <3> QED  BY <2>1, <2>3, <3>1
  <2> QED  BY <2>1, <2>4 DEF LoneInv
<1>3. CASE Audit(r)
  <2>1. pc'[r] = "done" /\ r \in audited' /\ UNCHANGED req
    BY <1>0, <1>3 DEF Audit, TypeOK
  <2> QED  BY <2>1 DEF LoneInv
<1> QED
  BY <1>0, <1>1, <1>2, <1>3
     DEF Step, Load, ResolveProjects, InsertFlag, Save, SyncFind, SyncSave, Reload, DeleteFlag

\* Every step of a request keeps its own LoneInv: a create always has something to
\* record, a remove switches nothing.
LEMMA OwnLone ==
    ASSUME IInv, KeysInv, MetInv, NEW r \in Request, Moves(r), LoneInv(r)
    PROVE  LoneInv(r)'
<1> USE DEF tables, local, history
<1>0. TypeOK /\ Holds(r)
  BY DEF IInv
<1>1. CASE \E kind, f, dto, step : Arrives(r, kind, f, dto, step)
  <2>1. /\ pc'[r] \in {"resolve", "toggle", "load"} /\ entry'[r] = Null /\ r \notin flipped'
        /\ pc'[r] = "resolve" => req'[r].kind = "create"
    BY <1>0, <1>1 DEF Arrives, Arrive, TypeOK, Holds, HasWritten
  <2> QED  BY <2>1 DEF LoneInv
<1>2. CASE Fail(r)
  <2>1. pc'[r] = "failed" /\ UNCHANGED <<req, flipped>>
    BY <1>0, <1>2 DEF Fail, TypeOK
  <2>2. CASE r \in flipped
    BY <1>0, <2>1, <2>2 DEF LoneInv
  <2> QED  BY <2>1, <2>2 DEF LoneInv
<1>3. CASE Step(r) /\ ~ Fail(r)
  <2>0. pc[r] # "idle"
    BY <1>3 DEF Step, Load, ResolveProjects, InsertFlag, Save, SyncFind, SyncSave, Reload,
                ToggleFind, ToggleSave, Audit, DeleteFlag
  <2>1. CASE req[r].kind = "update"
    BY <1>3, <2>0, <2>1, LoneBefore, UpdateLone
  <2>2. CASE req[r].kind = "toggle"
    BY <1>3, <2>0, <2>2, LoneBefore, ToggleLone
  <2>3. CASE req[r].kind = "create"
    <3>1. req'[r].kind = "create" /\ pc'[r] # "toggle"
      BY <1>0, <1>3, <2>3 DEF Step, Holds, Place, Load, ResolveProjects, InsertFlag, ThenSync, Save,
           SyncFind, SyncSave, Reload, ToggleFind, ToggleSave, Audit, DeleteFlag, TypeOK
    <3>2. pc'[r] = "done" => r \in audited'
      <4>1. CASE Audit(r)
        BY <4>1 DEF Audit
      <4>2. CASE Reload(r)
        BY <1>0, <1>3, <2>3, <4>2 DEF Reload, MayLookAlike, Holds, HasRead, TypeOK
      <4>3. CASE ~ Audit(r) /\ ~ Reload(r)
        BY <1>0, <1>3, <2>3, <4>3 DEF Step, Holds, Place, Load, ResolveProjects, InsertFlag,
             ThenSync, Save, SyncFind, SyncSave, ToggleFind, ToggleSave, DeleteFlag, TypeOK
      <4> QED  BY <4>1, <4>2, <4>3
    <3> QED  BY <3>1, <3>2 DEF LoneInv
  <2>4. CASE req[r].kind = "remove"
    <3>1. req'[r].kind = "remove" /\ pc'[r] # "toggle" /\ flipped' = flipped
      <4>1. Load(r) \/ Audit(r) \/ DeleteFlag(r)
        BY <1>0, <1>3, <2>4 DEF Step, Holds, Place, ResolveProjects, InsertFlag, Save,
             SyncFind, SyncSave, Reload, ToggleFind, ToggleSave
      <4> QED  BY <1>0, <1>3, <2>4, <4>1 DEF Load, Audit, DeleteFlag, TypeOK
    <3> QED  BY <3>1, <2>4 DEF LoneInv
  <2> QED  BY <1>0, <2>0, <2>1, <2>2, <2>3, <2>4 DEF Holds, Asks, Kinds
<1> QED  BY <1>1, <1>2, <1>3 DEF Moves, Abort

\* Every step keeps the records of lone requests.
LEMMA StepLone ==
    ASSUME IInv, KeysInv, MetInv, \A r \in Request : LoneInv(r), [Next]_vars
    PROVE  \A r \in Request : LoneInv(r)'
<1> SUFFICES ASSUME NEW o \in Request PROVE LoneInv(o)'
  OBVIOUS
<1>0. TypeOK /\ Holds(o) /\ LoneInv(o)
  BY DEF IInv
<1>1. ASSUME NEW r \in Request, Moves(r) PROVE LoneInv(o)'
  <2>1. CASE o = r
    BY <1>1, <2>1, OwnLone
  <2>2. CASE o # r
    <3>1. pc[o] # "idle" /\ req[o].kind # "create" /\ Lone(o)' =>
            Lone(o) /\ (o \in InFlight => flag'[req[o].flag] = flag[req[o].flag])
      BY <1>1, <2>2, LoneBefore, Undisturbed
    <3> QED  BY <1>0, <1>1, <2>2, <3>1, OwnPartOnly, OthersLone
  <2> QED  BY <2>1, <2>2
<1>2. ASSUME UNCHANGED <<pc, req, loaded, shown, entry, written, flipped, renamed, audited, met>>,
             \A f \in Flag : /\ flag'[f] = Null <=> flag[f] = Null
                             /\ flag[f] # Null => flag'[f].values = flag[f].values
      PROVE  LoneInv(o)'
  <2> DEFINE f == req[o].flag
  <2>1. Lone(o)' => Lone(o)
    BY <1>2 DEF Lone
  <2>2. pc[o] \in {"resolve", "save", "sync", "reload", "toggle"} /\ req[o].kind # "create" =>
          f \in Flag
    BY <1>0 DEF Holds, Asks
  <2>3. req[o].kind = "update" /\ pc[o] \in {"resolve", "save", "sync", "reload"} /\ Lone(o)' =>
          Shows(o)'
    BY <1>0, <1>2, <2>1, <2>2 DEF LoneInv, Shows
  <2>4. pc[o] = "toggle" /\ entry[o] # Null /\ Lone(o)' =>
          entry[o].old = CurrentValue(f, entry[o].env)'
    BY <1>0, <1>2, <2>1, <2>2 DEF LoneInv, CurrentValue, Holds, Place
  <2> QED  BY <1>0, <1>2, <2>1, <2>3, <2>4 DEF LoneInv, Indistinct
<1>3. ASSUME NEW p \in Project, RemoveProject(p) PROVE LoneInv(o)'
  <2>1. ASSUME NEW f \in Flag
        PROVE  /\ flag'[f] = Null <=> flag[f] = Null
               /\ flag[f] # Null => flag'[f].values = flag[f].values
    <3>1. flag'[f] = Unlinked(flag[f], p)
      BY <1>3 DEF RemoveProject
    <3>2. CASE flag[f] # Null
      <4> DEFINE row == flag[f]
                 left == [code |-> row.code, projects |-> row.projects \ {p},
                          values |-> row.values]
      <4>1. row \in Row /\ Unlinked(row, p) = left
        BY <1>0, <3>2 DEF TypeOK, Unlinked
      <4>2. left \in Row
        BY <4>1 DEF Row
      <4> QED  BY <3>1, <3>2, <4>1, <4>2, NullAssumption
    <3>3. CASE flag[f] = Null
      BY <3>1, <3>3 DEF Unlinked
    <3> QED  BY <3>2, <3>3
  <2> QED  BY <1>2, <1>3, <2>1 DEF RemoveProject, local
<1>4. ASSUME NEW e \in Environment, RemoveEnvironment(e) PROVE LoneInv(o)'
  BY <1>2, <1>4 DEF RemoveEnvironment, local, history
<1>5. CASE UNCHANGED vars
  BY <1>2, <1>5 DEF vars, tables, local, history
<1> QED  BY <1>1, <1>3, <1>4, <1>5, NextMoves

\* update and updateEnvironmentValue, which compare two reads to tell whether there
\* is something to record: a request that switched a flag nobody else was about
\* meanwhile has left its record, whatever names environments have and are given,
\* unless it wrote two environments of one name, or two while names changed.
THEOREM LoneIsRecorded == Spec => []LoneSwitchesAreRecorded
<1> DEFINE AllLone == \A r \in Request : LoneInv(r)
<1>1. Init => MetInv /\ AllLone
  BY DEF Init, MetInv, InFlight, Steps, LoneInv
<1>2. IInv /\ KeysInv /\ MetInv /\ AllLone /\ [Next]_vars => AllLone'
  BY StepLone
<1>3. IInv /\ AllLone => LoneSwitchesAreRecorded
  <2> SUFFICES ASSUME IInv, AllLone, NEW r \in flipped, pc[r] = "done", r \notin audited, ~ Indistinct(r)
               PROVE  \E q \in met[r] : req[q].flag = req[r].flag
    BY DEF LoneSwitchesAreRecorded
  <2>1. r \in Request /\ req[r].kind \in Kinds
    BY DEF IInv, TypeOK, Holds, Asks
  <2>2. ~ Lone(r)
    BY <2>1 DEF LoneInv, Kinds
  <2> QED  BY <2>2 DEF Lone
<1> HIDE DEF AllLone
<1> QED  BY <1>1, <1>2, <1>3, TypeCorrect, AlwaysKeys, StepMet, PTL DEF Spec
=============================================================================
