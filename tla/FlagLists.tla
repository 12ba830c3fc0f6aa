----------------------------- MODULE FlagLists ------------------------------
(***************************************************************************)
(* FeatureFlagsService.findAll: which flags a list with a filter shows.    *)
(* Without env_ filters the list is a find with a where clause (ByFind);   *)
(* with one it is a query builder with its own translation of the same     *)
(* filter (ByQuery).  Paging is left out: both order by id.                *)
(*                                                                         *)
(* A filter is what ParseFilterPipe lets through, field by field; Absent   *)
(* stands for a field that is not there, or empty, or not a string.  A     *)
(* numeric value is the key that Number() makes of it and NotANumber any   *)
(* other.  name and createdBy are translated as code and id are, in both   *)
(* ways, and left out; a text is found in a code or not.                   *)
(***************************************************************************)
EXTENDS Naturals

CONSTANTS Absent, NotANumber

\* f satisfies a condition on its id, its projects, its code or its expiry.
IdIs(f, value) == value \in {Absent, NotANumber} \/ f = value
LinkedTo(row, value) == value \in {Absent, NotANumber} \/ value \in row.projects
CodeLike(row, text) == text = Absent \/ row.code = text

\* expiresAt <= end of the day is not true of NULL; a value that is no date is
\* no condition.
ExpiresBy(row, day, never) ==
    day \in {Absent, NotANumber} \/ (row.expires # never /\ row.expires <= day)

\* buildFeatureFlagWhere.  projectId takes the place of projects, and is not
\* looked at before it is sent: NaN is no integer and the database refuses it.
ByFind(Rows, q, never) ==
    {f \in DOMAIN Rows :
        /\ Rows[f] # never
        /\ IdIs(f, q.id) /\ CodeLike(Rows[f], q.code)
        /\ LinkedTo(Rows[f], IF q.projectId # Absent THEN q.projectId ELSE q.projects)
        /\ ExpiresBy(Rows[f], q.expiresAt, never)}

FindRefused(q) == q.projectId = NotANumber

\* Faulty variant: disabled is taken for a value that is there and off.
EnvironmentIsRow(row, e, value) ==
    /\ value = "true" => row.values[e] = "on"
    /\ value = "false" => row.values[e] = "off"

\* EXISTS, or NOT EXISTS, a value of e that is enabled.  Other values are no
\* condition.
EnvironmentIs(row, e, value) ==
    /\ value = "true" => row.values[e] = "on"
    /\ value = "false" => row.values[e] # "on"

\* applyListFilterToQueryBuilder and applyEnvFiltersToQueryBuilder.
ByQuery(Rows, q, never) ==
    {f \in DOMAIN Rows :
        /\ Rows[f] # never
        /\ q.id \in {Absent, NotANumber} \/ f = q.id
        /\ q.code # Absent => Rows[f].code = q.code
        /\ ExpiresBy(Rows[f], q.expiresAt, never)
        /\ LET projectId == IF q.projectId = Absent THEN q.projects ELSE q.projectId IN
           projectId \in {Absent, NotANumber} \/ projectId \in Rows[f].projects
        /\ \A e \in DOMAIN q.env : EnvironmentIs(Rows[f], e, q.env[e])}

\* An env_ key that is not a number is an env_ filter too, without a condition.
HasEnvFilters(q) == q.stray \/ \E e \in DOMAIN q.env : q.env[e] # Absent

FindAll(Rows, q, never) ==
    IF HasEnvFilters(q) THEN ByQuery(Rows, q, never) ELSE ByFind(Rows, q, never)
=============================================================================
