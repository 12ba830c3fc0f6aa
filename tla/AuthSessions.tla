---------------------------- MODULE AuthSessions ----------------------------
(***************************************************************************)
(* The token endpoints of the admin API (login, refresh, logout) and the   *)
(* TokenGuard of every other admin endpoint, over the user_tokens table.   *)
(*                                                                         *)
(* The server handles many requests at once and no handler runs in a       *)
(* transaction: a request is a program counter, and one action is one      *)
(* database round trip together with the synchronous code that follows it, *)
(* up to the next await.  Any request may fail at any await (Abort): the   *)
(* database refuses the statement, the process dies, the answer is lost.   *)
(* What it already wrote stays written.                                    *)
(*                                                                         *)
(* A token is named by the request that issues it and its type: a handler  *)
(* draws a fresh UUID as jti, and issues at most one token of each type.   *)
(* Signature and payload of the JWT are abstract: presenting a token means *)
(* presenting one the server handed out, and its user is the issuer's.     *)
(***************************************************************************)
EXTENDS Naturals, FiniteSets

CONSTANTS
    User,           \* rows the user table may hold
    Request,        \* HTTP requests, each used once
    Null,           \* no row, no token
    AccessTtl,      \* lifetime of an access token  (1 hour in the code)
    RefreshTtl,     \* lifetime of a refresh token  (7 days)
    Retention,      \* how long an expired row is kept (365 days)
    MaxTime,        \* bound: the clock stops here
    MaxInFlight     \* bound: requests being handled at the same time

TokenType == {"access", "refresh"}
Jti == [by : Request, type : TokenType]
Row == [user : User, expiresAt : Nat, revoked : BOOLEAN]

ASSUME NullAssumption == Null \notin Row /\ Null \notin Jti /\ Null \notin Request
ASSUME TtlAssumption == AccessTtl \in Nat \ {0} /\ RefreshTtl \in Nat \ {0}
ASSUME RetentionAssumption == Retention \in Nat
ASSUME UserAssumption == User # {}

VARIABLES
    now,        \* the database's and the server's clock
    account,    \* the user table: [User -> {"active", "inactive", "absent"}]
    userToken,  \* the user_tokens table: [Jti -> Row or Null]
    issued,     \* the tokens signed so far
    pc,         \* [Request -> where the handler is]
    req,        \* [Request -> what was asked: kind, user, token]
    todo,       \* [Request -> tokens the handler has yet to invalidate]
    entry,      \* [Request -> the row invalidateToken loaded, by its jti]
    signedAt,   \* [Request -> when issueToken fixed the expiry of the token
                \*             it is about to insert]
    audited,    \* requests whose auth event is in audit_logs
    start,      \* history, read by properties only: what was true when the
                \* request arrived, and the login its session began with
    seenActive  \* history: the requests whose user was active at some time
                \* since they arrived

vars == <<now, account, userToken, issued, pc, req, todo, entry, signedAt, audited,
          start, seenActive>>
table == <<account, userToken, issued, audited>>
local == <<req, todo, entry, signedAt, start, seenActive>>

Steps == {"checkToken", "checkUser", "revokeRefresh", "issueAccess",
          "issueRefresh", "listAccess", "revokeAccess", "audit", "reply"}
Ends == {"done", "rejected", "failed"}
Kinds == {"login", "refresh", "logout", "guarded"}

InFlight == {r \in Request : pc[r] \in Steps}

\* The tokens some client holds: those of the answers that were delivered.
Handed == {t \in issued : pc[t.by] = "done"}

Expired(t) == userToken[t].expiresAt <= now

\* Tokens the registry must never accept again.
Dead == {t \in issued : userToken[t] = Null \/ userToken[t].revoked \/ Expired(t)}

Init ==
    /\ now = 0
    /\ account \in [User -> {"active", "inactive"}]
    /\ userToken = [t \in Jti |-> Null]
    /\ issued = {}
    /\ pc = [r \in Request |-> "idle"]
    /\ req = [r \in Request |-> [kind |-> "none", user |-> Null, token |-> Null]]
    /\ todo = [r \in Request |-> {}]
    /\ entry = [r \in Request |-> Null]
    /\ signedAt = [r \in Request |-> 0]
    /\ audited = {}
    /\ start = [r \in Request |->
                  [dead |-> {}, handed |-> {}, session |-> Null]]
    /\ seenActive = {}

(***************************************************************************)
(* The arrival of a request.                                               *)
(***************************************************************************)
Arrive(r, kind, u, t, session) ==
    /\ pc[r] = "idle"
    /\ Cardinality(InFlight) < MaxInFlight
    /\ req' = [req EXCEPT ![r] = [kind |-> kind, user |-> u, token |-> t]]
    /\ start' = [start EXCEPT ![r] = [dead |-> Dead, handed |-> Handed,
                                      session |-> session]]
    /\ seenActive' = seenActive \cup {a \in {r} : account[u] = "active"}

\* issueToken takes the time before it awaits the signature and the insert.
Sign(r) ==
    signedAt' = [signedAt EXCEPT ![r] =
                   IF pc'[r] \in {"issueAccess", "issueRefresh"} THEN now ELSE 0]

\* POST login: the user is looked up by e-mail, then isActive and the
\* password are checked, all on what the one query returned.
Login(r, u, passwordMatches) ==
    /\ Arrive(r, "login", u, Null, r)
    /\ pc' = [pc EXCEPT ![r] = IF account[u] = "active" /\ passwordMatches
                               THEN "issueAccess" ELSE "rejected"]
    /\ Sign(r)
    /\ UNCHANGED <<now, todo, entry, table>>

\* POST refresh and logout with a token in the body, and any endpoint behind
\* TokenGuard with a token in the header.  verifyAsync has checked the
\* signature and the exp claim when the first query is sent.
Present(r, kind, t) ==
    /\ Arrive(r, kind, req[t.by].user, t, start[t.by].session)
    /\ pc' = [pc EXCEPT ![r] = "checkToken"]
    /\ UNCHANGED <<now, todo, entry, signedAt, table>>

(***************************************************************************)
(* verifyToken: two queries, the token's row and then its user.            *)
(***************************************************************************)
ExpectedType(kind) == IF kind = "guarded" THEN "access" ELSE "refresh"

\* Faulty variant: the row's revokedAt is not looked at.
IsTokenValidUnlessRevoked(t, expectedType) ==
    userToken[t] # Null /\ ~ Expired(t) /\ t.type = expectedType

IsTokenValid(t, expectedType) ==
    /\ userToken[t] # Null
    /\ ~ userToken[t].revoked
    /\ ~ Expired(t)
    /\ t.type = expectedType

CheckToken(r) ==
    /\ pc[r] = "checkToken"
    /\ pc' = [pc EXCEPT ![r] = IF IsTokenValid(req[r].token, ExpectedType(req[r].kind))
                               THEN "checkUser" ELSE "rejected"]
    /\ UNCHANGED <<now, table, local>>

\* Faulty variant: any existing account will do.
UserExists(u) == account[u] # "absent"

UserMayProceed(u) == account[u] = "active"

\* Faulty variant: the verified refresh token is not invalidated.
CheckUserWithoutRotation(r) ==
    /\ pc[r] = "checkUser"
    /\ pc' = [pc EXCEPT ![r] =
                IF ~ UserMayProceed(req[r].user) THEN "rejected"
                ELSE CASE req[r].kind = "guarded" -> "reply"
                       [] req[r].kind = "refresh" -> "issueAccess"
                       [] req[r].kind = "logout" -> "listAccess"]
    /\ Sign(r)
    /\ UNCHANGED <<now, table, todo, req, entry, start, seenActive>>

CheckUser(r) ==
    /\ pc[r] = "checkUser"
    /\ IF UserMayProceed(req[r].user)
       THEN IF req[r].kind = "guarded"
            THEN pc' = [pc EXCEPT ![r] = "reply"] /\ UNCHANGED todo
            ELSE /\ pc' = [pc EXCEPT ![r] = "revokeRefresh"]
                 /\ todo' = [todo EXCEPT ![r] = {req[r].token}]
       ELSE pc' = [pc EXCEPT ![r] = "rejected"] /\ UNCHANGED todo
    /\ UNCHANGED <<now, table, req, entry, signedAt, start, seenActive>>

(***************************************************************************)
(* invalidateToken: load the row by jti, set revokedAt, save.              *)
(***************************************************************************)
\* Where the handler goes when it has invalidated all it had to.
AfterInvalidating(r) ==
    IF pc[r] = "revokeAccess" THEN "audit"
    ELSE IF req[r].kind = "refresh" THEN "issueAccess" ELSE "listAccess"

\* Faulty variant: the loop over the access tokens ends after the first.
InvalidatedFirstOnly(r, t) ==
    /\ todo' = [todo EXCEPT ![r] = {}]
    /\ pc' = [pc EXCEPT ![r] = AfterInvalidating(r)]
    /\ Sign(r)

\* Faulty variant: the loop goes on until no token is listed, revoked or not.
InvalidatedUntilNoneLeft(r, t) == UNCHANGED <<todo, pc, signedAt>>

\* The await of invalidateToken(t) returns: the loop goes on with the rest.
Invalidated(r, t) ==
    /\ todo' = [todo EXCEPT ![r] = @ \ {t}]
    /\ pc' = [pc EXCEPT ![r] = IF todo[r] = {t} THEN AfterInvalidating(r) ELSE @]
    /\ Sign(r)

\* No row: invalidateToken returns at once.  The list of a logout has no
\* ORDER BY, so any of its tokens may be the next.
InvalidateFind(r) ==
    /\ pc[r] \in {"revokeRefresh", "revokeAccess"}
    /\ entry[r] = Null
    /\ \E t \in todo[r] :
         IF userToken[t] = Null
         THEN Invalidated(r, t) /\ UNCHANGED entry
         ELSE entry' = [entry EXCEPT ![r] = t] /\ UNCHANGED <<todo, pc, signedAt>>
    /\ UNCHANGED <<now, table, req, start, seenActive>>

Revoked(row) == [user |-> row.user, expiresAt |-> row.expiresAt, revoked |-> TRUE]

\* save writes the one changed column of a row that is still there.  Had the
\* row gone, save would insert it again, which the NOT NULL user column (not
\* loaded by findOne) refuses: the request fails.
InvalidateSave(r) ==
    /\ entry[r] # Null
    /\ entry' = [entry EXCEPT ![r] = Null]
    /\ IF userToken[entry[r]] # Null
       THEN /\ userToken' = [userToken EXCEPT ![entry[r]] = Revoked(@)]
            /\ Invalidated(r, entry[r])
       ELSE /\ pc' = [pc EXCEPT ![r] = "failed"]
            /\ todo' = [todo EXCEPT ![r] = {}]
            /\ UNCHANGED <<userToken, signedAt>>
    /\ UNCHANGED <<now, account, issued, audited, req, start, seenActive>>

\* The rows that refer to u.  As a faulty variant of the next definition, the
\* query that has lost its filter on the type.
TokensOf(u) == {t \in Jti : userToken[t] # Null /\ userToken[t].user = u}

\* logout reads the access tokens of the user once, and revokes those.
AccessTokens(u) == {t \in TokensOf(u) : t.type = "access"}

GetAccessTokens(r) ==
    /\ pc[r] = "listAccess"
    /\ todo' = [todo EXCEPT ![r] = AccessTokens(req[r].user)]
    /\ pc' = [pc EXCEPT ![r] = IF AccessTokens(req[r].user) = {}
                               THEN "audit" ELSE "revokeAccess"]
    /\ UNCHANGED <<now, table, req, entry, signedAt, start, seenActive>>

(***************************************************************************)
(* issueToken: the expiry was fixed before the token was signed, and       *)
(* createToken inserts the row, by then perhaps of a token that has        *)
(* expired.  The insert fails when the user is gone (foreign key).         *)
(***************************************************************************)
Ttl(type) == IF type = "access" THEN AccessTtl ELSE RefreshTtl

\* Faulty variant: createToken's optional expiresAt is left out.
IssueTokenWithoutExpiry(r, type, next) ==
    /\ userToken' = [userToken EXCEPT ![[by |-> r, type |-> type]] =
                       [user |-> req[r].user, expiresAt |-> Null, revoked |-> FALSE]]
    /\ issued' = issued \cup {[by |-> r, type |-> type]}
    /\ pc' = [pc EXCEPT ![r] = next]
    /\ Sign(r)
    /\ UNCHANGED <<now, account, audited, req, todo, entry, start, seenActive>>

IssueToken(r, type, next) ==
    LET t == [by |-> r, type |-> type] IN
    /\ IF account[req[r].user] # "absent"
       THEN /\ userToken' = [userToken EXCEPT
                 ![t] = [user |-> req[r].user, expiresAt |-> signedAt[r] + Ttl(type),
                         revoked |-> FALSE]]
            /\ issued' = issued \cup {t}
            /\ pc' = [pc EXCEPT ![r] = next]
       ELSE pc' = [pc EXCEPT ![r] = "failed"] /\ UNCHANGED <<userToken, issued>>
    /\ Sign(r)
    /\ UNCHANGED <<now, account, audited, req, todo, entry, start, seenActive>>

IssueAccess(r) == pc[r] = "issueAccess" /\ IssueToken(r, "access", "issueRefresh")

IssueRefresh(r) ==
    /\ pc[r] = "issueRefresh"
    /\ IssueToken(r, "refresh", IF req[r].kind = "login" THEN "audit" ELSE "reply")

\* logLogin and logLogout insert an audit_logs row that refers to the user.
AuditAuth(r) ==
    /\ pc[r] = "audit"
    /\ IF account[req[r].user] # "absent"
       THEN audited' = audited \cup {r} /\ pc' = [pc EXCEPT ![r] = "reply"]
       ELSE pc' = [pc EXCEPT ![r] = "failed"] /\ UNCHANGED audited
    /\ UNCHANGED <<now, account, userToken, issued, local>>

\* The answer reaches the client, with the tokens it carries.
Reply(r) ==
    /\ pc[r] = "reply"
    /\ pc' = [pc EXCEPT ![r] = "done"]
    /\ UNCHANGED <<now, table, local>>

Abort(r) ==
    /\ pc[r] \in Steps
    /\ pc' = [pc EXCEPT ![r] = "failed"]
    /\ todo' = [todo EXCEPT ![r] = {}]
    /\ entry' = [entry EXCEPT ![r] = Null]
    /\ Sign(r)
    /\ UNCHANGED <<now, table, req, start, seenActive>>

(***************************************************************************)
(* Around the requests: user administration, the nightly cleanup, time.    *)
(***************************************************************************)
\* UsersService.update, of which only isActive matters here.
SetActive(u, status) ==
    /\ account[u] \notin {"absent", status}
    /\ account' = [account EXCEPT ![u] = status]
    /\ seenActive' = seenActive \cup
                       {r \in InFlight : status = "active" /\ req[r].user = u}
    /\ UNCHANGED <<now, userToken, issued, audited, pc, req, todo, entry, signedAt, start>>

\* UsersService.remove: the delete is refused while a token or an audit row
\* refers to the user.
RemoveUser(u) ==
    /\ account[u] # "absent"
    /\ TokensOf(u) = {}
    /\ \A r \in audited : req[r].user # u
    /\ account' = [account EXCEPT ![u] = "absent"]
    /\ UNCHANGED <<now, userToken, issued, audited, pc, local>>

\* Faulty variant: the comparison is turned round.
NotLongExpired(t) == userToken[t] # Null /\ userToken[t].expiresAt + Retention > now

\* Faulty variant: only what was revoked is deleted.
LongExpiredAndRevoked(t) ==
    /\ userToken[t] # Null
    /\ userToken[t].revoked
    /\ userToken[t].expiresAt + Retention < now

LongExpired(t) == userToken[t] # Null /\ userToken[t].expiresAt + Retention < now

\* The cron job: one DELETE for all the rows past their retention.
CleanupExpiredTokens ==
    /\ \E t \in issued : LongExpired(t)
    /\ userToken' = [t \in Jti |-> IF LongExpired(t) THEN Null ELSE userToken[t]]
    /\ UNCHANGED <<now, account, issued, audited, pc, local>>

Tick ==
    /\ now < MaxTime
    /\ now' = now + 1
    /\ UNCHANGED <<table, pc, local>>

\* The next await of r returns.
Step(r) ==
    \/ CheckToken(r) \/ CheckUser(r)
    \/ InvalidateFind(r) \/ InvalidateSave(r) \/ GetAccessTokens(r)
    \/ IssueAccess(r) \/ IssueRefresh(r)
    \/ AuditAuth(r) \/ Reply(r)

Next ==
    \/ \E r \in Request :
         \/ \E u \in User, ok \in BOOLEAN : Login(r, u, ok)
         \/ \E kind \in Kinds \ {"login"}, t \in Handed : Present(r, kind, t)
         \/ Step(r)
         \/ Abort(r)
    \/ \E u \in User, status \in {"active", "inactive"} : SetActive(u, status)
    \/ \E u \in User : RemoveUser(u)
    \/ CleanupExpiredTokens
    \/ Tick

Spec == Init /\ [][Next]_vars

\* Node's event loop resumes every pending await and the driver answers or
\* fails every query; the cron job runs every midnight; the clock advances.
\* Nothing obliges a client or an administrator to do anything.
Fairness ==
    /\ \A r \in Request : WF_vars(Step(r))
    /\ WF_vars(CleanupExpiredTokens)
    /\ WF_vars(Tick)

FairSpec == Spec /\ Fairness

(***************************************************************************)
(* Properties.                                                             *)
(***************************************************************************)
TypeOK ==
    /\ now \in Nat
    /\ account \in [User -> {"active", "inactive", "absent"}]
    /\ userToken \in [Jti -> Row \cup {Null}]
    /\ issued \subseteq Jti
    /\ pc \in [Request -> {"idle"} \cup Steps \cup Ends]
    /\ req \in [Request -> [kind : Kinds \cup {"none"}, user : User \cup {Null},
                            token : Jti \cup {Null}]]
    /\ todo \in [Request -> SUBSET Jti]
    /\ entry \in [Request -> Jti \cup {Null}]
    /\ signedAt \in [Request -> Nat]
    /\ audited \subseteq Request
    /\ start \in [Request -> [dead : SUBSET Jti, handed : SUBSET Jti,
                              session : Request \cup {Null}]]
    /\ seenActive \subseteq Request

\* The handler of r has got past verifyToken.
Verified(r) == pc[r] \in (Steps \ {"checkToken", "checkUser"}) \cup {"done"}

\* verifyToken: whatever runs concurrently, a token that was revoked, expired
\* or forgotten when the request that presents it arrived does not get past
\* verifyToken.
RevokedNeverAccepted ==
    \A r \in Request :
        Verified(r) /\ req[r].kind # "login" => req[r].token \notin start[r].dead

\* login and verifyToken: a request whose user was deactivated all the while
\* is not served, and is issued no token.
DeactivatedNeverServed ==
    \A r \in Request :
        Verified(r) \/ (\E t \in issued : t.by = r) => r \in seenActive

\* refresh: before a new token exists, the one it was asked for with is dead,
\* also when the refresh then fails.
RefreshSpendsItsToken ==
    \A t \in issued :
        req[t.by].kind = "refresh" => req[t.by].token \in Dead

\* logout: when it has answered, every access token the user held when the
\* logout arrived is dead, those of the user's other sessions included.
LogoutEndsEarlierAccess ==
    \A r \in Request :
        pc[r] = "done" /\ req[r].kind = "logout" =>
            \A t \in start[r].handed :
                t.type = "access" /\ req[t.by].user = req[r].user => t \in Dead

\* refresh and logout: a refresh token is revoked only by a request that
\* presented it, so a logout leaves the refresh tokens of the user's other
\* sessions alone; an access token only by a logout of its own user.
OthersKeepTheirSession ==
    \A t \in issued :
        userToken[t] # Null /\ userToken[t].revoked =>
            \E r \in Request :
                IF t.type = "refresh"
                THEN req[r].kind \in {"refresh", "logout"} /\ req[r].token = t
                ELSE req[r].kind = "logout" /\ req[r].user = req[t.by].user

\* refresh: a refresh token is good for one new pair of tokens, unless both
\* refreshes were sent before either was answered.
OneRefreshPerToken ==
    \A t, u \in Handed :
        /\ t.by # u.by
        /\ req[t.by].kind = "refresh" /\ req[u.by].kind = "refresh"
        /\ req[t.by].token = req[u.by].token
        => t \notin start[u.by].handed /\ u \notin start[t.by].handed

\* logout, as README.md puts it, "Invalidate session": when it has answered,
\* no client holds a usable token of that session.
SessionEndedByLogout ==
    \A r \in Request :
        pc[r] = "done" /\ req[r].kind = "logout" =>
            \A t \in Handed : start[t.by].session = start[r].session => t \in Dead

\* The refreshes of a session that were answered.
Refreshes(session) ==
    {q \in Request : /\ pc[q] = "done" /\ req[q].kind = "refresh"
                     /\ start[q].session = session}

\* Both presented one token, and neither arrived after the other, or anything
\* else, had ended it.
Raced(q, r) ==
    /\ q # r /\ req[q].token = req[r].token
    /\ req[q].token \notin start[q].dead \cup start[r].dead

\* logout: SessionEndedByLogout, unless a refresh raced the logout for its
\* token, or two refreshes of the session raced each other.
OnlyOverlapsOutliveLogout ==
    \A r \in Request :
        pc[r] = "done" /\ req[r].kind = "logout" =>
            \/ \A t \in Handed : start[t.by].session = start[r].session => t \in Dead
            \/ \E q \in Refreshes(start[r].session),
                  p \in Refreshes(start[r].session) \cup {r} : Raced(q, p)

\* The registry keeps the promise of TokenLifecycle: a token that was revoked,
\* expired or forgotten never becomes usable again, and cleanup forgets no
\* usable one.
TokenStatus ==
    [t \in Jti |->
        IF t \notin issued THEN "unissued"
        ELSE IF userToken[t] = Null THEN "purged"
        ELSE IF userToken[t].revoked THEN "revoked"
        ELSE IF Expired(t) THEN "lapsed" ELSE "live"]

Lifecycle == INSTANCE TokenLifecycle WITH Token <- Jti, status <- TokenStatus

ImplementsLifecycle == Lifecycle!Spec

\* logout's loop, and the queries of the others: every request ends, a logout with
\* several tokens to revoke among them, whatever the cleanup does to their rows.
EveryRequestEnds == \A r \in Request : pc[r] \in Steps ~> pc[r] \in Ends

\* handleCron: a row past its retention is deleted in the end, whether it was
\* revoked or not.
OldRowsArePurged ==
    \A t \in Jti :
        userToken[t] # Null /\ userToken[t].expiresAt + Retention < MaxTime
            ~> userToken[t] = Null
=============================================================================
