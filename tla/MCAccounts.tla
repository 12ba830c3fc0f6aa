---------------------------- MODULE MCAccounts ------------------------------
(* Small instances of Accounts for TLC.                                    *)
EXTENDS Accounts, TLC

CONSTANTS ra

\* One role opens all the endpoints.
OneRole == [kind \in UserKinds \cup GroupKinds |-> ra]

\* Updates that name one field, and creates, which serve as updates too.
SingleUserBodies ==
    {[password |-> TRUE, status |-> Null, group |-> Null]}
        \cup {[password |-> FALSE, status |-> s, group |-> Null] : s \in Status}
        \cup {[password |-> FALSE, status |-> Null, group |-> g] : g \in Group}
        \cup {[password |-> TRUE, status |-> "active", group |-> g] : g \in Group}
GroupBodies ==
    {b \in GroupBody : b.roles # Null /\ (b.name # Null => b.roles = {ra})}
FewBodies == SingleUserBodies \cup GroupBodies

\* Start with active users: they are deactivated by a request.
StartSmall == \A u \in User : row[u] # Null => row[u].status = "active"
SmallInit == Init /\ StartSmall
SmallSpec == SmallInit /\ [][Next]_vars

\* Nothing tells the members of a set apart.
Symmetry == Permutations(User) \cup Permutations(Group) \cup Permutations(Name)
                \cup Permutations(Request)
=============================================================================
