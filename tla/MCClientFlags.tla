--------------------------- MODULE MCClientFlags ----------------------------
(* Small instances of ClientFlags for TLC.                                 *)
EXTENDS ClientFlags, TLC

\* Bodies with one field, and all that a create may send.
FewBodies == {dto \in Dto : dto.code = Null \/ dto.active # FALSE} \ {Blank}

\* Flags that are on in one environment for all projects, and flags that differ
\* from those in one respect.
Values(e, value) == [x \in Environment |-> IF x = e THEN value ELSE "none"]
FewRows ==
    UNION {LET full == [code |-> c, projects |-> Project, values |-> Values(e, "on"),
                        expires |-> Null]
           IN {full,
               [full EXCEPT !.projects = {}],
               [full EXCEPT !.values = Values(e, "off")],
               [full EXCEPT !.expires = 0],
               [full EXCEPT !.expires = 1]} : c \in Code, e \in Environment}

\* Filters on at most one field, and on environments besides.
NoEnv == [e \in Environment |-> Absent]
Plain == [id |-> Absent, code |-> Absent, projects |-> Absent, projectId |-> Absent,
          expiresAt |-> Absent, stray |-> FALSE, env |-> NoEnv]
OneField ==
    {Plain, [Plain EXCEPT !.stray = TRUE]}
        \cup {[Plain EXCEPT !.id = v] : v \in Flag \cup {NotANumber}}
        \cup {[Plain EXCEPT !.code = v] : v \in Code}
        \cup {[Plain EXCEPT !.projects = v] : v \in Project \cup {NotANumber}}
        \cup {[Plain EXCEPT !.projectId = v] : v \in Project}
        \cup {[Plain EXCEPT !.expiresAt = v] : v \in Time \cup {NotANumber}}

\* The token is there and active at the start; a project or an environment may be
\* missing.
StartSmall ==
    /\ \A x \in Existing : scope[x].active
    /\ \A t \in Token : token[t] # Null /\ token[t].active
SmallInit == Init /\ StartSmall
SmallSpec == SmallInit /\ [][Next]_vars

\* Nothing tells the members of a set apart.
Symmetry == Permutations(Flag) \cup Permutations(Environment) \cup Permutations(Code) \cup Permutations(Request)
=============================================================================
