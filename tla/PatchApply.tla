------------------------------ MODULE PatchApply ------------------------------
(***************************************************************************)
(* How the engine's three entry points are used together: a client keeps  *)
(* the configuration it last applied, the user edits the configuration,   *)
(* other writers change the live object, and an apply sends the patch     *)
(* CreateThreeWayMergePatch(last applied, configuration, live) and has     *)
(* the server apply it with StrategicMergeMapPatch.  The caller is not    *)
(* part of this repository; it is modelled from section 4.2.6 of the spec. *)
(***************************************************************************)
EXTENDS StrategicMergePatch

CONSTANTS
  Docs,       \* the documents the user and the other writers produce
  Overwrite   \* the overwrite argument of the apply

VARIABLES
  live,       \* the object on the server
  applied,    \* the configuration of the last successful apply
  config      \* the user's configuration

vars == <<live, applied, config>>

\* The object is created from a configuration.
Init ==
  \E d \in Docs : live = d /\ applied = d /\ config = d

\* The user edits the configuration.
Edit ==
  /\ \E d \in Docs : config' = d
  /\ UNCHANGED <<live, applied>>

\* Another writer changes the live object.
Drift ==
  /\ \E d \in Docs : live' = d
  /\ UNCHANGED <<applied, config>>

\* An apply: the three-way patch, applied by the server in one of Go's map
\* iteration orders; an error changes nothing.
Apply ==
  LET patch == CreateThreeWayMergePatch(applied, config, live, Overwrite) IN
  /\ ~Failed(patch)
  /\ \E delFirst \in BOOLEAN :
       LET result == StrategicMergeMapPatch(live, patch.c, delFirst) IN
       /\ ~Failed(result)
       /\ live' = result.c
       /\ applied' = config
       /\ UNCHANGED config

Next == Edit \/ Drift \/ Apply

Spec == Init /\ [][Next]_vars

-----------------------------------------------------------------------------
\* A field of a document, "absent" where it has none.
Field(d, k) == IF k \in DOMAIN d THEN d[k] ELSE Str("absent")

\* The elements of a merge list of objects with merge key value v.
WithKey(q, mk, v) == {i \in DOMAIN q : mk \in DOMAIN q[i].c /\ q[i].c[mk] = v}

(* The document d holds everything the configuration m sets: objects      *)
(* recursively, merge lists of scalars their elements, merge lists of     *)
(* objects an element with each merge key value m's list has, holding     *)
(* that element; anything else as m has it.                                *)
RECURSIVE Holds(_, _, _)
Holds(d, m, t) ==
  \A k \in DOMAIN m :
    LET md == LookupPatchMetadata(t, k) IN
    /\ k \in DOMAIN d
    /\ IF d[k].k # m[k].k \/ md.err THEN d[k] = m[k]
       ELSE IF m[k].k = "obj" /\ md.strategy # "replace" THEN Holds(d[k].c, m[k].c, md.type)
       ELSE IF m[k].k = "list" /\ md.strategy = "merge" /\ md.mergeKey = ""
            THEN \A i \in DOMAIN m[k].c : \E j \in DOMAIN d[k].c : d[k].c[j] = m[k].c[i]
       ELSE IF m[k].k = "list" /\ md.strategy = "merge"
            THEN \A i \in DOMAIN m[k].c :
                   \E j \in WithKey(d[k].c, md.mergeKey, m[k].c[i].c[md.mergeKey]) :
                      Holds(d[k].c[j].c, m[k].c[i].c, md.type)
       ELSE d[k] = m[k]

(* Nothing of what the configuration o set and m no longer sets is left   *)
(* in d: a removed field is gone, a removed scalar of a merge list or a    *)
(* removed element of a merge list of objects is not in d's list.         *)
RECURSIVE Dropped(_, _, _, _)
Dropped(d, o, m, t) ==
  \A k \in DOMAIN o :
    LET md == LookupPatchMetadata(t, k) IN
    IF k \notin DOMAIN m THEN k \notin DOMAIN d
    ELSE IF k \notin DOMAIN d \/ md.err \/ o[k].k # m[k].k \/ d[k].k # m[k].k THEN TRUE
    ELSE IF m[k].k = "obj" /\ md.strategy # "replace" THEN Dropped(d[k].c, o[k].c, m[k].c, md.type)
    ELSE IF m[k].k = "list" /\ md.strategy = "merge" /\ md.mergeKey = ""
         THEN \A i \in DOMAIN o[k].c :
                (\A j \in DOMAIN m[k].c : m[k].c[j] # o[k].c[i])
                  => \A j \in DOMAIN d[k].c : d[k].c[j] # o[k].c[i]
    ELSE IF m[k].k = "list" /\ md.strategy = "merge"
         THEN \A i \in DOMAIN o[k].c :
                LET v == o[k].c[i].c[md.mergeKey] IN
                WithKey(m[k].c, md.mergeKey, v) = {} => WithKey(d[k].c, md.mergeKey, v) = {}
    ELSE TRUE

(* A well-formed document of type t (spec section 4.2): fields the type   *)
(* declares, no directive, every list of one kind and of no lists or      *)
(* nulls, every element of a merge list of objects with its merge key.    *)
RECURSIVE IsDocument(_, _)
IsDocument(d, t) ==
  \A k \in DOMAIN d :
    LET md == LookupPatchMetadata(t, k) IN
    /\ ~md.err
    /\ d[k].k = "obj" => IsDocument(d[k].c, md.type)
    /\ d[k].k = "list" =>
         \A i \in DOMAIN d[k].c :
           /\ d[k].c[i].k = d[k].c[1].k
           /\ d[k].c[i].k \notin {"list", "null"}
           /\ d[k].c[i].k = "obj" => IsDocument(d[k].c[i].c, md.type)
           /\ d[k].c[i].k = "obj" /\ md.strategy = "merge" => md.mergeKey \in DOMAIN d[k].c[i].c

\* A document as the tests compare them: merge lists sorted.
Normalized(d) == sortMergeListsByNameMap(d, Root)


-----------------------------------------------------------------------------
\* The live object stays a document: no deletion list key, no null (a null
\* in the patch deletes the field) and no failure survives an apply.
TypeOK ==
  /\ applied \in Docs
  /\ config \in Docs
  /\ DOMAIN live \subseteq Fields
  /\ \A k \in DOMAIN live : live[k].k \in {"str", "num", "obj", "list"}

\* The round-trip law of the two-way patch (spec section 8): for well-formed
\* documents a and b, the patch CreateTwoWayMergeMapPatch(a, b) applied by
\* StrategicMergeMapPatch makes b of a, up to the order of merge lists,
\* whatever order mergeMap meets the patch's keys in.
RoundTrip ==
  IsDocument(live, Root) /\ IsDocument(config, Root) =>
  \A delFirst \in BOOLEAN :
    LET p == CreateTwoWayMergeMapPatch(live, config)
        r == StrategicMergeMapPatch(live, p.c, delFirst)
    IN /\ ~Failed(p)
       /\ ~Failed(r)
       /\ Normalized(r.c) = Normalized(config)

\* An apply (CreateThreeWayMergePatch, then StrategicMergeMapPatch) leaves
\* the live object holding everything the configuration sets, whatever
\* other writers did to it since the last apply.
ApplyEstablishesConfig == [][Apply => Holds(live', config, Root)]_vars

\* An apply removes from the live object what the user removed from the
\* configuration since the last apply (the deletions of section 4.2.6).
ApplyRemovesDeleted == [][Apply => Dropped(live', applied, config, Root)]_vars

\* The fields of the root type with no patch strategy and scalar values or
\* elements: a change to one by both sides is a conflict.
AtomicFields ==
  {k \in DOMAIN Schema[Root] : Schema[Root][k].strategy = "" /\ Schema[Root][k].type = "scalar"}

\* A field's value as the conflict check compares it: a list of scalars by
\* the scalars it holds, slicesHaveConflicts sorting both sides.
Canon(v) == [k |-> v.k, s |-> v.s, e |-> IF v.k = "list" THEN {v.c[i] : i \in DOMAIN v.c} ELSE {}]

\* Without overwrite, an apply never replaces an atomic field that another
\* writer changed since the last apply and that the user changed to a
\* different value: MergingMapsHaveConflicts(patch, changed) reports it.
NoSilentOverwrite ==
  [][Apply /\ ~Overwrite =>
       \A k \in AtomicFields :
         LET a == Canon(Field(applied, k))
             l == Canon(Field(live, k))
             m == Canon(Field(config, k))
         IN (l # a /\ m # a /\ m # l) => Field(live', k) = Field(live, k)]_vars

\* Conflict symmetry (spec section 8): MergingMapsHaveConflicts(L, R) and
\* MergingMapsHaveConflicts(R, L) agree, a panic included.
Outcome(v) == IF v.k = "panic" THEN "panic" ELSE IF Conflict(v) THEN "yes" ELSE "no"
ConflictSymmetry ==
  Outcome(MergingMapsHaveConflicts(live, config)) = Outcome(MergingMapsHaveConflicts(config, live))

=============================================================================
