--------------------------- MODULE MCAuthSessions ---------------------------
(* Small instances of AuthSessions for TLC.                                *)
EXTENDS AuthSessions, TLC

\* The requests are interchangeable, and so are the users.
Symmetry == Permutations(Request) \cup Permutations(User)

CONSTANT Logins     \* the requests that were answered before the run begins

\* A state the program is in soon after its start: each of Logins was a login of
\* a user, and its two tokens are on record and handed out.
AfterLogins ==
    LET user == CHOOSE u \in User : TRUE
        tokens == [by : Logins, type : TokenType]
    IN
    /\ now = 0
    /\ account = [u \in User |-> "active"]
    /\ userToken = [t \in Jti |->
                      IF t \in tokens
                      THEN [user |-> user, expiresAt |-> Ttl(t.type), revoked |-> FALSE]
                      ELSE Null]
    /\ issued = tokens
    /\ pc = [r \in Request |-> IF r \in Logins THEN "done" ELSE "idle"]
    /\ req = [r \in Request |->
                IF r \in Logins
                THEN [kind |-> "login", user |-> user, token |-> Null]
                ELSE [kind |-> "none", user |-> Null, token |-> Null]]
    /\ todo = [r \in Request |-> {}]
    /\ entry = [r \in Request |-> Null]
    /\ signedAt = [r \in Request |-> 0]
    /\ audited = Logins
    /\ start = [r \in Request |->
                  [dead |-> {}, handed |-> {},
                   session |-> IF r \in Logins THEN r ELSE Null]]
    /\ seenActive = Logins

FairSpecAfterLogins == AfterLogins /\ [][Next]_vars /\ Fairness

\* All but the history, which no action and no liveness property reads.
PresentState ==
    <<now, account, userToken, issued, pc, req, todo, entry, signedAt, audited>>
=============================================================================
