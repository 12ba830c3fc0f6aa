--------------------------- MODULE TokenLifecycle ---------------------------
(***************************************************************************)
(* What the token registry promises to the rest of the system: the life of *)
(* one token, with no request, no clock and no table in sight.  A token is *)
(* issued once; it is usable ("live") until its lifetime runs out          *)
(* ("lapsed") or it is revoked; only a token that is no longer usable is   *)
(* ever forgotten ("purged"), and nothing makes an unusable token usable   *)
(* again, nor brings a forgotten one back.                                 *)
(***************************************************************************)
CONSTANT Token

VARIABLE status

Status == {"unissued", "live", "lapsed", "revoked", "purged"}

\* The registry outlives the server, which may start over tokens in any state.
Init == status \in [Token -> Status]

\* Its lifetime counts from before it is on record, and may be over by then.
Issue(t) ==
    /\ status[t] = "unissued"
    /\ \E s \in {"live", "lapsed"} : status' = [status EXCEPT ![t] = s]

\* A lapsed token may still be revoked: a logout revokes all it finds.
Revoke(t) ==
    /\ status[t] \in {"live", "lapsed"}
    /\ status' = [status EXCEPT ![t] = "revoked"]

\* Time passes: any number of live tokens lapse together.
Lapse ==
    \E S \in SUBSET {t \in Token : status[t] = "live"} :
        status' = [t \in Token |-> IF t \in S THEN "lapsed" ELSE status[t]]

\* The registry forgets any number of unusable tokens together.
Purge ==
    \E S \in SUBSET {t \in Token : status[t] \in {"lapsed", "revoked"}} :
        status' = [t \in Token |-> IF t \in S THEN "purged" ELSE status[t]]

Next == \/ \E t \in Token : Issue(t) \/ Revoke(t)
        \/ Lapse
        \/ Purge

Spec == Init /\ [][Next]_status
=============================================================================
