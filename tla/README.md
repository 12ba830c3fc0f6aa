# A formal model of inshop-crm-api-nest

The repository is the back end of a feature-flag service: a NestJS application
over PostgreSQL (TypeORM), with an admin API behind JWTs and roles, and a client
API behind API tokens. This directory holds TLA+ modules of its components, the
TLC configurations that check them, and proofs checked by TLAPS.

Paths below are relative to the repository's root.

## The system

All state that outlives a request is in PostgreSQL. The server is one Node
process: handlers interleave at every `await`, that is, at every query, and no
handler opens a transaction around more than one `save`. An error at any query
leaves the handler; what it wrote stays. A process may die at any point and its
supervisor restarts it (`restart: unless-stopped` in docker-compose.prod.yml);
nothing in the code keeps two processes from sharing a database.

| Component | State | Operations | Talks to |
|---|---|---|---|
| Admin sessions (`permissions/services/auth.service.ts`, `user-token.service.ts`, `guards/token.guard.ts`, `user-token-cleanup.service.ts`) | `user_tokens` | login, refresh, logout, change-password; TokenGuard in front of every admin endpoint; nightly cleanup | users (isActive, existence), audit log |
| Users and groups (`users.service.ts`, `groups.service.ts`, `guards/roles.guard.ts`) | `user`, `group`, `groups_roles` | create, update, remove, list; RolesGuard | audit log; foreign keys from tokens, audit records, flags, API tokens |
| Catalogue of modules and roles (`roles-sync.service.ts`) | `module`, `role`, the group `admin`, the default user | sync, at every start | groups, users |
| Feature flags, admin (`feature-flags.service.ts`) | `feature_flag`, its values per environment, its links to projects | create, update, toggle, remove, list | projects, environments, audit log |
| Feature flags, client (`feature-flags-client.controller.ts`) | none | bootstrap, single value | API tokens, projects, flags |
| API tokens (`api-tokens.service.ts`, `guards/api-token.guard.ts`) | `api_tokens` | create, update, regenerate, remove; ApiTokenGuard | environments, audit log |
| Projects, environments | `project`, `environment` | create, update, remove, list | flags, API tokens, audit log |
| Audit log (`audit.service.ts`, `core/utils/audit-sanitize.ts`) | `audit_logs` | one record per change, login, logout; list | every service |
| Validators, pipes, list filters (`core/`) | none | body validation (`Exists`, `IsUnique`), filter parsing | every controller |

What is hard in it, and what makes each component correct:

- **Admin sessions.** A token is checked in two queries and used later; refresh
  and logout revoke, list and issue in separate statements; the cleanup deletes
  rows under them. Correct when a dead token (revoked, expired, purged) is never
  accepted and never revived, a refresh spends its token, a logout kills the
  access tokens it promises to kill and no one else's, deactivated users are not
  served, and old rows go in the end.
- **Feature flags.** Handlers load a flag with all its relations, change the
  copy and save it whole; values are written one by one; records are made from
  what was read at the start. Correct when what clients see is what
  administrators last decided field by field, when an acknowledged request has
  written all it named, and when every switch leaves a record.
- **Catalogue.** Find-then-insert without unique constraints, several tables, a
  crash anywhere, errors swallowed, a new release over an old database. Correct
  when a sync that ends well leaves every role in its module and the admin group
  with all of them, never twice, and a rerun changes nothing.
- **API tokens.** As flags: `update` saves the row it loaded, hash included.
  Correct when the secret shown last is the one that works, and only in its
  environment and while the token is active.
- **Users and groups.** `changePassword` and `update` save the user they loaded
  (isActive included); `GroupsService.update` saves the body as it came. Correct
  when an acknowledged deactivation or role change stays in force.
- **Audit log.** Correct when the set of records tells every acknowledged
  change; the diff compares labels, so two entities with one name look alike.
- **Client side, filters, validators.** Pure functions of the tables: a flag is
  on exactly when linked, enabled and not expired; filters select what they name.

## Modules

| Module | What it is |
|---|---|
| `TokenLifecycle` | Abstract specification: the life of a token. |
| `AuthSessions` | login, refresh, logout, TokenGuard, the cleanup, over `user_tokens`. |
| `AuthSessionsProofs`, and `...Proofs` of `ApiTokens`, `Scopes`, `ClientFlags`, `Accounts`, `FeatureFlags`, `RolesSync` | Theorems about the module and their proofs. |
| `MCAuthSessions` | A start after a login, a view of the state without its history, and symmetry. |
| `FeatureFlags` | create, update, toggle, remove of flags, while projects and environments go and environments are renamed. |
| `MCFeatureFlags` | The sets of request bodies, a view that forgets what handlers that ended had in memory, and symmetry. |
| `ApiTokens` | create, update, regenerate, remove of API tokens, and the guard's decision. |
| `MCApiTokens` | Symmetry for TLC. |
| `Accounts` | create, update, remove of users and groups, change-password, behind TokenGuard and RolesGuard. |
| `MCAccounts` | One role, the bodies, small tables to start from, and symmetry. |
| `Scopes` | create, update, remove of projects and environments; composed by `ClientFlags`. |
| `FlagLists` | The two translations of a filter of the flag list, as operators on a table. |
| `ClientFlags` | The client endpoints over the tables of `Scopes` and those of flags and tokens. |
| `MCClientFlags` | The flag rows, bodies and filters, small tables to start from, and symmetry. |
| `RolesSync` | The sync at startup, with crashes, restarts, and administrators who write groups and the default user. |
| `MCRolesSync` | Two small catalogues, and symmetry. |

Each detailed module follows one pattern. A request (or a server) is a program
counter `pc` and the handler's local variables; an action is one database round
trip and the synchronous code after it. Two reads in a row are one action where
no other step can tell them apart. `Abort` ends a handler at any await. Inputs
come from small sets. Definitions named "Faulty variant" in a comment are not
part of the model: each is a plausible slip in the definition that follows it,
and the property it is meant for is checked to notice it.

### AuthSessions

- `userToken` is the table, keyed by what stands for the jti: a handler draws a
  fresh UUID per token and issues at most one of each type, so the request and
  the type name it. A JWT's signature and payload are abstract; presenting a
  token means presenting one the server delivered.
- `Arrive` is the arrival at the controller; `Login` includes its one query,
  after which isActive and password are checked without another.
- `CheckToken` and `CheckUser` are the two queries of `verifyToken`;
  `InvalidateFind` and `InvalidateSave` those of `invalidateToken`;
  `GetAccessTokens` the list of logout; `IssueAccess` and `IssueRefresh` the
  inserts; `AuditAuth` the audit record; `Reply` the answer.
- `issueToken` fixes the expiry before it waits for the signature and for the
  insert. `Sign` notes that moment in `signedAt`, in the step that leads to the
  insert, and the row gets its expiry from there: it may be stored any time
  later, even when it has lapsed. `TokenLifecycle` therefore lets a token be
  issued live or lapsed, and starts from tokens in any state, since the table
  outlives the server.
- `SetActive`, `RemoveUser` are what `UsersService` does to the columns read
  here; `CleanupExpiredTokens` is the cron job's one DELETE; `Tick` the clock.
- `start` and `seenActive` are history: no action's guard reads them.

The `exp` claim equals the row's `expiresAt` up to rounding, so `verifyAsync`
refuses nothing that `isTokenValid` would let through; it is not modelled apart.

### FeatureFlags

- A flag with its links and values is one row. Its scalar columns are written
  alike and stand as one, `code`, which is unique besides.
- `Save` is TypeORM's: it compares the copy in memory with the row as it is now
  and writes all that differs; a row that is gone is inserted again; a value row
  the copy does not have would be orphaned, which its NOT NULL column refuses.
  These rules are read from the entities (`cascade`, `nullable`, `onDelete`) and
  the way the service uses them.
- `decided` is history: each flag as if every write had changed only what its
  request named. The properties compare the table with it. So are `dirty` (the
  flags a stale save wrote over), `flipped` (the requests that switched
  something) and `met` (which requests were handled together).
- An update's record is skipped when `computeAuditDiff` sees no difference
  between the rows its two queries returned (`Reload`). It compares what it
  prints of them: of a value the name of its environment and whether it is
  enabled, sorted. Names of environments are not unique and may change at any
  time, so a query returns any names (`shown`, and those of the second one), and
  `LookAlike` says that the values of two rows can be matched one to one with the
  same print. Of the projects only their number tells for sure (`MayLookAlike`):
  with as many projects there may be a record or none. `renamed` is history: the
  updates between whose queries some name changed.

### ApiTokens

- `token` is the table. A secret is named by the request that drew it, or by the
  token that came with it; hash and prefix stand for their secret, and the name
  of a token is written like its active state and left out.
- `Load`, `Save`, `Reload`, `Audit`, `Delete` are the queries of the handlers;
  the environment a body names is read in the step that writes.
- The diff of an update shows the environment by its name, which another may
  have: a token that was only moved may leave a record or none (`MayLookAlike`).
- `CanActivate` is the ApiTokenGuard: one query and a comparison. A client
  request writes nothing, so the guard is a predicate of the table.
- `decided`, `dirty` as in `FeatureFlags`; `withdrawn` holds the secrets that a
  regenerate or a removal took out of use.

### RolesSync

- Names are not unique in `module`, `role` and `group`. A row of a module or role
  is a name and a copy number; of a group its roles are kept, and whether its
  name is "admin" (`admins`). `findOne` returns any of the rows of a name.
- `Init` is what an earlier release and its administrators left: any part of the
  catalogue without duplicates, roles in any module, any groups with any roles,
  any of them named "admin", and the default user in any group, or absent.
- `Abort` is an error, caught by `onModuleInit`, after which the server serves
  with what there is; `Crash` ends the process, `Start` starts it again.
- `CreateGroup`, `UpdateGroup` and `RemoveGroup` are what `GroupsService` does to
  groups: any name, any roles, so that a second "admin" group may come, or the
  first be renamed or removed. `AddAdmin`, `MoveAdmin` and `DropAdmin` are what
  `UsersService` does to the user with the seeded e-mail. The handlers save in one
  step what the body has; how they load and save is in `Accounts`.
- Administrators need a server that serves, and a server listens only when its
  sync has ended, so with one server no edit falls into a sync. `edited` is
  history.

### Accounts

- A user and a group are handled by the same sequence of queries, so one table
  `row` and one set of actions stand for both; where they differ (what `save` is
  given, what is recorded) there are actions of their own: `SaveUser` saves the
  loaded copy, `SaveGroup` the body, `SavePassword` a copy without its group.
- `Arrive` is what the guards do: `verifyToken` loads the actor with its group
  and the group's roles in one query, and `MayAct` is the decision of both. A
  user is `signedIn` once a token of theirs is stored; its foreign key then
  refuses the removal of the user.
- `View` and `Noticeable` are what `computeAuditDiff` sees: a user's group by
  its label, which is its name, and a password by its hash.
- `decided`, `dirty` as in `FeatureFlags`; `altered` holds the requests whose
  save an auditor would notice, `met` which requests were handled together.

### Scopes, FlagLists and ClientFlags

- `scope` holds the tables project and environment, which have one shape and
  are served by the same code twice. `Load`, `Save`, `Audit` and `Delete` are its
  queries. Which rows foreign keys protect is a parameter of `Delete`, given by
  `ClientFlags` (`Referred`): an environment with a value or a token. The links
  of a project go with it.
- `logUpdateIf` compares the loaded row with the object that was saved, not
  with the table (`AfterSave`).
- `stale` is history: the requests that saved over a row written since they had
  loaded it. `Dirty` are the rows of these requests.
- `Guard`, `ResolveProject`, `FindFlag` and `Evaluate` are the queries of a
  client request, in order. `asOf` is the moment the code takes before the last
  of them. `bootstrap` skips `FindFlag`.
- `WriteFlag` and `WriteToken` are any one statement of `FeatureFlags` and
  `ApiTokens`, taken to leave any row that the constraints allow: which rows
  their handlers write is checked there.
- `seen` is history: how many writes there were since a request arrived, and
  the answers that were exact before and after. `Exact` is written from what the
  endpoints promise, apart from `On`, which is the query.
- `FlagLists` takes the flag table as an argument. `ByFind` is the list without
  env_ filters, `ByQuery` the one with them; a filter is what `ParseFilterPipe`
  lets through, a value that is not a number among it.

## What the runs check

| Run | Bounds | Shows |
|---|---|---|
| `AuthSessions` | 2 users, 3 requests, 2 overlapping, clock to 2 (access 1, refresh 2, retention 0) | `TypeOK`, `RevokedNeverAccepted`, `RefreshSpendsItsToken`, `LogoutEndsEarlierAccess`, `DeactivatedNeverServed`, `OthersKeepTheirSession`, `OneRefreshPerToken`, `OnlyOverlapsOutliveLogout` |
| `AuthLiveness` | 1 user, 3 requests, of which one is a login that has been answered, 2 overlapping, clock to 3 (access 1, refresh 2, retention 1), fair | `EveryRequestEnds`, `OldRowsArePurged`, and `ImplementsLifecycle` (every step is one of `TokenLifecycle`) |
| `AuthLogoutRace` | 3 requests, 2 overlapping | violates `SessionEndedByLogout` |
| `FlagsOverlap` | 2 flags, at most one at the start, 2 codes, 2 environments with 2 names, 1 project, 2 overlapping requests | `TypeOK`, `OnlyStaleSavesUndo`, `AcknowledgedIsWritten`, `LoneSwitchesAreRecorded`, `RemovalsAreRecorded` |
| `FlagsLostToggle` | 2 overlapping requests | violates `TogglesStick` |
| `FlagsUnrecorded` | 2 overlapping requests | violates `SwitchesAreRecorded` |
| `ApiTokens` | 1 token, 2 environments, 3 overlapping requests | `TypeOK`, `GuardAsDecided`, `ShownSecretIsStored`, `RemovalsAreRecorded` |
| `ApiTokensStaleUpdate` | 1 token, 2 overlapping requests | violates `UpdateKeepsSecret` |
| `RolesRestarts` | 1 server, 2 modules, 3 roles, 2 groups, 2 users, any number of starts, crashes, edits | `TypeOK`, `SyncedIsComplete`, `NoDuplicates`, `IdempotentOnRerun` |
| `RolesTwoServers` | 2 servers at once, 1 module, 2 roles, 2 groups, no edits | `SyncedIsComplete` |
| `Accounts` | 2 users, active at the start, 2 groups, 2 names, 1 role, 2 overlapping requests | `TypeOK`, `OnlyStaleSavesUndo`, `ServedAsDecided`, `LoneChangesAreRecorded`, `RemovalsAreRecorded` |
| `ClientFlags` | 1 flag, 1 token, 1 project, 2 environments, 2 codes, clock to 1, 1 client request with one writer, or 2 administrators overlapping | `TypeOK`, `OneWriteIsSeenWholeOrNotAtAll`, `EnvFilterSplitsTheList`, `OnlyStaleSavesUndo`, `ChangesAreRecorded`, `ScopeRemovalsAreRecorded` |

Why the bounds are enough. A hazard of the token endpoints involves a session
(one login, which is over before its tokens are used) and two requests that use
it, hence three requests of which two overlap: a login and two refreshes, or a
login, a refresh and a logout. What a chain of refreshes does to a logout takes
four requests (a refresh that races the logout, and a refresh of what it
returned): `OnlyOverlapsOutliveLogout` is therefore not left to the run, but
proved for every number of them. The clock passes the end of an
access and of a refresh token. With retention 0 a row may be purged as soon as
it has expired, the harshest case for a handler that still holds it;
`AuthLiveness` has a longer one.

`AuthLiveness` begins where one login has been answered, a state that is
reachable, so that its two requests may both come after it: a second login or a
refresh, and a logout that finds two access tokens to revoke. What comes before is
covered by the two requests themselves, which may be logins. It tells states
apart by all variables but `start` and `seenActive`, which no guard reads and no
property of that run mentions: two states that differ in these alone have the
same behaviours in all the rest.

Flags are changed by pairs of handlers, from any table of one flag, so that two
requests stand for a later moment of any longer history; `FlagsOverlap` has a
create compete with the flag that is there, or with another create, for a code.
The flag is linked to the project at the start, and loses the link when the
project goes or a body leaves it out. Bodies name a code and the project or
neither, and no environment or both, switched on or off as they please: so one
body may exchange the switches of two environments. Two names, of two
environments, are alike or not. The run tells states apart by all that a handler
in flight or a property can still read: what an answered or failed handler had
loaded is not among it. Tokens have nothing in common but the environments they
name, so one stands for all, with three requests. In `RolesSync` a duplicate
needs two servers, and starts are not bounded; two groups are one and another
that is named alike or not.

`Accounts` starts from any two groups and any users that are active (a request
deactivates them), so that a stale save and a request of the one it let in may
follow each other. Two names, of two groups, are alike or not. Bodies name one
field, or all that a create needs. One role opens all endpoints: a required
role is one the actor's group has or has not.

`ClientFlags` states its property for at most one write during a request, so one
write of each kind suffices; with two, an answer may be one that no moment had.
What came before is an initial table; what comes after an answer cannot change
it. Bounds in the guards keep out orders that nothing can tell apart: an
administrator's request that is sent before a client's, flag and token writes
that no client waits for. The flag rows differ in one respect from one that is
on. Two environments are needed for the guard's comparison, two codes for
renames. Inside `Scopes` two requests overlap on a row, as in `FeatureFlags`.

What does not hold, and where the code and its documents part:

- `SessionEndedByLogout` under overlap. A refresh that has verified its token
  when the logout lists the tokens to revoke stores a new pair afterwards, so the
  README's "Invalidate session" is not kept. `OnlyOverlapsOutliveLogout` says
  what is: every token of the session is dead unless a refresh raced the logout
  for the token it presented, or two refreshes of the session raced each other.
  A token that outlives the logout need not be of the refresh that raced it: a
  later refresh, which arrived after the logout's token had been revoked, may
  have carried the session on. A run of three requests cannot show this. In the same way `OneRefreshPerToken` excepts two
  refreshes that were sent before either was answered; no document says
  otherwise.
- `TogglesStick` under overlap. `update` writes back every value it loaded.
- `UpdateKeepsSecret`. The body of an update names no secret, but `update` saves
  the whole token it loaded: a regenerate in between is undone.
- `SwitchesAreRecorded` under overlap. The record of a toggle compares with a
  value read before the save. Nor does it hold of one update that switches an
  environment on and another of the same name off: the two rows print alike.
  `LoneSwitchesAreRecorded` says what holds.
- `ChangesAreRecorded` has one exception. A save over a row that was written since
  it was loaded, by a body that names nothing new to what was loaded, undoes what
  was written, and its record compares two objects that are the same.
- Nothing stops an administrator from creating a second group "admin", or renaming
  one to it. The next sync takes either of the two, gives it all roles and moves
  the default user there. So `NoDuplicates` does not say that names are unique
  among groups, but that the sync adds no name that is there, and
  `IdempotentOnRerun` is about a `Settled` catalogue, in which `findOne` has one
  full group to return. No document speaks of such groups.
- `Accounts` and `Scopes` save what they loaded, as flags do: `OnlyStaleSavesUndo`
  holds with the rows excepted that such a save wrote over. No document promises
  more of them, so no run is kept to show it. A user who moves to a group of the
  same name is not recorded either.
- The list of flags with `projectId` that is no number is an error without env_
  filters and ignores it with them; `EnvFilterSplitsTheList` excepts it.
- With two servers starting together `NoDuplicates` fails, and if an
  administrator then changes one of two admin groups, the default user may end
  in a group without all roles: `RolesTwoServers` therefore has no edits. No
  document speaks of several servers.

Fairness. Only what the runtime owes: the event loop resumes a handler whose
query has returned, the driver answers or fails every query, the cron job runs
every night, the clock advances (`Fairness` in AuthSessions). Clients and
administrators owe nothing, and no failure is ever due. Liveness is stated of
the sessions alone: the other handlers have no loop that could go on (a turn of
the one in flags takes an environment off a finite list). All runs but those of
`RolesSync` disable the deadlock check: requests are used once, and when they
are used up the model stops. `RolesSync` never stops, and is checked for deadlock.

## What is proved

All theorems hold for every value of the constants that the named assumptions of
the modules allow: any number of users, requests, flags, tokens, servers and
rows, any lifetimes, and any bound on the requests in flight. The assumptions
say that `Null` and the like are none of the other values, that lifetimes are
positive, that environments are finitely many, and that the sets of bodies, rows and filters a small instance draws
from are of the right types. Every safety invariant of the runs is proved, with
`NoDuplicates`, `IdempotentOnRerun` and two refinements.

| Module | Theorem | Says |
|---|---|---|
| `AuthSessionsProofs` | `TypeCorrect` | `Spec => []IInv /\ []TypeOK` |
| | `DeadTokensAreRefused` | `Spec => []RevokedNeverAccepted` |
| | `RefreshRotates` | `Spec => []RefreshSpendsItsToken` |
| | `RefreshTokensAreSingleUse` | `Spec => []OneRefreshPerToken` |
| | `DeactivatedAreRefused` | `Spec => []DeactivatedNeverServed` |
| | `OnlyOwnersRevoke` | `Spec => []OthersKeepTheirSession` |
| | `LogoutRevokesAccess` | `Spec => []LogoutEndsEarlierAccess` |
| | `OnlyRacesOutlive` | `Spec => []OnlyOverlapsOutliveLogout` |
| | `RegistryImplementsLifecycle` | `Spec => ImplementsLifecycle` |
| `ApiTokensProofs` | `TypeCorrect` | `Spec => []IInv /\ []TypeOK` |
| | `Stored`, `GuardFollowsDecisions` | `StoredAsDecided`, and so `GuardAsDecided` |
| | `ShownSecretsWork` | `ShownSecretIsStored` |
| | `GoneIsRecorded` | `RemovalsAreRecorded` |
| `ScopesProofs` | `ScopesTypeCorrect` | types and `Holds`, of `ScopeSpec` |
| | `ScopesAsDecided` | `OnlyStaleSavesUndo` |
| | `ScopeChangesRecorded` | `ChangesAreRecorded` |
| | `ScopeRemovalsRecorded` | `ScopeRemovalsAreRecorded` |
| | `CodesAreUnique` | `UniqueCodes` |
| `ClientFlagsProofs` | `ImplementsScopes` | `Spec => ScopeSpec` |
| | `ScopesHere` | all theorems about `ScopeSpec`, of `Spec` |
| | `TypeCorrect` | `Spec => []Inv /\ []TypeOK` |
| | `ListsSplitHere` | `EnvFilterSplitsTheList` |
| | `OneWriteIsWhole` | `OneWriteIsSeenWholeOrNotAtAll` |
| `AccountsProofs` | `TypeCorrect` | `Spec => []IInv /\ []TypeOK` |
| | `AsDecided` | `OnlyStaleSavesUndo` |
| | `GuardsFollowDecisions` | `ServedAsDecided` |
| | `GoneIsRecorded` | `RemovalsAreRecorded` |
| | `LoneIsRecorded` | `LoneChangesAreRecorded` |
| `FeatureFlagsProofs` | `TypeCorrect` | `Spec => []IInv /\ []TypeOK` |
| | `AcknowledgedHasWritten` | `AcknowledgedIsWritten` |
| | `AsDecided` | `OnlyStaleSavesUndo` |
| | `GoneIsRecorded` | `RemovalsAreRecorded` |
| | `LoneIsRecorded` | `LoneSwitchesAreRecorded` |
| `RolesSyncProofs` | `TypeCorrect` | `Spec => []IInv /\ []TypeOK` |
| | `SyncedHasAll` | `SyncedIsComplete`, if `Undivided` |
| | `NothingTwice` | `NoDuplicates`, if `OneServer` |
| | `RerunWritesNothing` | `IdempotentOnRerun`, if `OneServer` |

### Sessions

The properties are not inductive. `IInv` adds `Shape`: what a request asked for
is there once it has arrived (`Asked`), the handler of each kind is only where
its code can be and its local variables fit (`OnPath`), a token exists only
after its handler got that far (`IssuedOnTime`), and a row is that of an issued
token and of the user of the request that issued it (`RowOfIssued`). On it rests
`DeadStaysDead`: no step takes a token out of the set of the dead. Without
`IssuedOnTime` an insert could overwrite a revoked row; without `OnPath` a save
could write an unrelated one. Each safety property then follows from an
invariant of its own: that what was dead at a request's arrival is dead still
(`DeadAtStart`) and has not been accepted (`AcceptedWasAlive`); that a refresh
past its revocation has a dead token (`SpentBeforeIssuing`); that the token of
an answered refresh was dead when any later request arrived, so that the later
one cannot have been let through (`RefreshedWereSpent`); that a request in
flight whose user is active has been noted as seen with an active user
(`SeenWhileActive`); that the tokens a logout goes through are of its own user,
and every revoked row has a request that may have revoked it (`ListsAreOwn`,
`RevokedByOwner`); that what a logout has not killed is on its list
(`LogoutOnItsWay`). The refinement maps each action to one of `TokenLifecycle`
or to a stutter.

`OnlyRacesOutlive` needs the history of a whole session. `Sessions` says that
who presents a token belongs to its session and its user. `Chained` says that
the refresh tokens handed out in a session without a race form a chain: all but
one were spent by an answered refresh, and the one `Reply` that adds to the
session spends the last (`ReplySpends`). So when a logout arrives with a token
that nobody else gets to spend, it holds the end of the chain, and nothing is
handed out in its session afterwards (`NothingAfterLogout`). Access tokens were
then all there when it arrived, and `LogoutRevokesAccess` has them; the refresh
tokens were spent, and `UsedIsDead` has them.

### Handlers that load, save and record

`ApiTokens`, `Scopes`, `Accounts` and `FeatureFlags` are argued alike.

- `IInv` adds `Holds`, what a handler has read and written by the place it has
  reached. In `FeatureFlags` this is the list of values yet to write and those
  written: the loop ends with all that the body named, which is
  `AcknowledgedIsWritten`.
- `OnlyStaleSavesUndo` (in `ApiTokens` `StoredAsDecided`) is inductive over
  `IInv`: a save of a copy that equals the row changes what the body named and
  nothing else, and any other save puts the row among the dirty ones. What the
  guards decide (`GuardAsDecided`, `ServedAsDecided`) follows from the rows.
- `RemovalsAreRecorded` needs `KeysInv`: a handler works on a row that was there
  once, and one that has come to its delete has its record (`RecordsStay`). So
  it does not matter which of several removals deletes, or what was inserted
  again in between.
- `LoneChangesAreRecorded` and `LoneSwitchesAreRecorded` need `MetInv`, that
  requests handled together know of each other: the row a lone request loaded is
  the one it saves over, and reloads. Each has an invariant of what such a
  request sees at each place (`LoneInv`; `Shows` in `FeatureFlags`), by which
  the difference its record is made from is the one it made. That a switch shows
  in what the diff prints is a matter of counting (`AlikeIsBlurred`): if the
  environments the update wrote have names of their own that did not change,
  then of the values that print like the switched one there is one more on one
  side, or one less, so they cannot be matched (`OneMoreOrLess`).
- `ChangesAreRecorded` needs no `met`: the record compares two objects in memory,
  the loaded row and the copy. Only a stale save can change the table when these
  two are alike, and that is the exception it makes.

### The client side

`ClientFlags` is composed of `Scopes` and more. Its every step is one of
`ScopeNext` or leaves the tables of `Scopes` alone (`ImplementsScopes`, by
`ReferredAreScopes`: what the foreign keys protect are rows of these tables), so
the theorems about `ScopeSpec` need no second proof.

`EnvFilterSplitsTheList` is a fact about the two translations of a filter,
proved for any table and filter of the right types. `OneWriteIsWhole` rests on
`AnswerInv`, about the answer to come: what a request would be answered if the
queries it has left all ran now. Its own steps do not change that. As long as
nothing was written it is the exact answer, because what the request has found
still holds. The first write either changes what it has found, and then the
answer to come is what it was, or it does not, and then the answer to come is
the one that is exact from now on. `CodesAreUnique`
is needed for the answer to name one project, `LinksExist` for a flag not to be
on in a project that has gone.

### The catalogue

`CatalogueInv` says that the loops of the sync skip nothing (`Loops`: what is off
the list is done or in hand, and a role on the list still has its module's turn
to come), and that a role in the wrong module is the only row of its name
(`WrongIsAlone`): `findOne` returns any row, so a second one beside it could be
found in its stead for ever. `GroupInv` says of a server nobody has edited behind
that the group it works on keeps the roles it has been given (`Unspoilt`); it
rests on administrators not editing while two servers start. That hypothesis,
`Undivided`, cannot be dropped. TLC shows why with two servers, one module and
one role: both start together and each inserts an admin group; the first dies;
an administrator empties the second's group before the user step; the first
starts again, completes with its own group and moves the default user there; the
second then saves the user into the group that was emptied. The first has ended
well, nobody edited since, and the default user has no role.

With one server `SoloInv` holds: no module or role is there twice (`Single`), and
what a step is about to insert is not there, what it has found still is as it was
(`InHand`), since no edit falls into the sync. `NoDuplicates`, a property of the
sync's steps, follows. So does `RerunWritesNothing`, by `SettledIsKept`: in a
settled catalogue every find finds the one row there is, and every save saves
what is there.

### Only model-checked

`EveryRequestEnds` and `OldRowsArePurged`: liveness under fairness is out of the
prover's reach. The properties of the runs that expect a violation are false. With several
servers only `SyncedIsComplete` and the types are proved of `RolesSync`:
`NoDuplicates` is false there, and `IdempotentOnRerun` is stated for one.

## Not modelled

- Signing and verifying JWTs, bcrypt, SHA-256, HTTP, serialisation, Swagger:
  libraries, taken to do what they say.
- Details, paging, and the lists other than that of flags: they change nothing,
  and each has one translation of its filter (`buildListWhere`).
- The text of an audit record. Whether there is one is modelled, and with it what
  the labels of groups and environments hide. What the names of a flag's projects
  hide is left open (`MayLookAlike`): there may be a record or none.
- Formats and lengths that the DTOs demand.
- `main.ts`, `app.module.ts`, configuration: wiring.
- Isolation inside one `save`: PostgreSQL runs it in a transaction, and it is
  one action here.

## Plan

In this order:

1. An abstract specification of a row (each field set by whoever named it last)
   that `Scopes` and `FeatureFlags` implement as long as no save is stale, and
   the refinement proved.
2. `AuditDiff`, the comparison of two entities as a pure algorithm for all types
   of entities, of which `LookAlike` is the part about values: the names of the
   projects of a flag, and the order they are listed in, included.
3. Action properties of the tables: which request may write which row, and that
   a client request writes none.
