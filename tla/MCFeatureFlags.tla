--------------------------- MODULE MCFeatureFlags ---------------------------
(* Small instances of FeatureFlags for TLC.                                *)
EXTENDS FeatureFlags, TLC

\* Bodies that name all environments alike, or none; any code and projects.
UniformBodies == {dto \in Dto : \A e, g \in Environment : dto.values[e] = dto.values[g]}

\* No environment named, or some switched on and the others off.
Mixed(values) ==
    \A v \in {"off", "on"} : Named(values) = {} \/ \E e \in Environment : values[e] = v

\* Bodies of that kind that name a code and all projects, or neither.
MixedBodies ==
    {dto \in Dto : Mixed(dto.values)
                   /\ dto.projects = IF dto.code = Null THEN {} ELSE Project}

\* Start with at most one flag, linked to all projects: a second one comes of a
\* create, and links go with their projects.
StartSmall ==
    /\ Cardinality(Existing) <= 1
    /\ \A f \in Existing : flag[f].projects = Project /\ Mixed(flag[f].values)
SmallInit == Init /\ StartSmall

SmallSpec == SmallInit /\ [][Next]_vars

\* Nothing tells the members of a set apart.
Symmetry == Permutations(Flag) \cup Permutations(Request) \cup Permutations(Code)
                \cup Permutations(Project) \cup Permutations(Environment)
                \cup Permutations(Title)

\* What a handler in flight has in memory, and of one that was answered what the
\* properties read.
Memory(r) ==
    CASE pc[r] \in Steps -> <<loaded[r], shown[r], found[r], todo[r], entry[r], written[r],
                              r \in flipped, r \in renamed>>
      [] pc[r] = "done" -> <<written[r], r \in flipped, Indistinct(r)>>
      [] OTHER -> <<>>

\* All that a handler or a property can still read.
PresentState ==
    <<projects, environments, flag, pc, req, audited, born, decided, dirty, met,
      [r \in Request |-> Memory(r)]>>
=============================================================================
