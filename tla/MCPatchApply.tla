----------------------------- MODULE MCPatchApply -----------------------------
(* Small instances of PatchApply for TLC: a root type Top with a scalar    *)
(* field x, a merge list c of Elem objects keyed by name, a merge list f   *)
(* of scalars, an atomic list g of scalars and a replace-strategy Elem    *)
(* object r; Elem has the scalar fields name and v.                       *)
EXTENDS PatchApply

F(strategy, mk, type) == [strategy |-> strategy, mergeKey |-> mk, type |-> type]

MCSchema ==
  [Top |-> [x |-> F("", "", "scalar"), c |-> F("merge", "name", "Elem"),
            f |-> F("merge", "", "scalar"), g |-> F("", "", "scalar"),
            r |-> F("replace", "", "Elem")],
   Elem |-> [name |-> F("", "", "scalar"), v |-> F("", "", "scalar")]]

MCFields == {"x", "c", "f", "g", "r", "name", "v"}

\* Go orders the texts byte-wise: digits, then "<", then letters.
MCStrOrder == <<"1", "2", "<nil>", "a", "b">>

\* A document from a choice per field, None leaving the field out.
None == [k |-> "none", s |-> "", c |-> <<>>]
MkDoc(ch) == [k \in {k \in DOMAIN ch : ch[k] # None} |-> ch[k]]

E1(n) == Obj("name" :> Str(n))
E2(n, v) == Obj(("name" :> Str(n)) @@ ("v" :> Str(v)))
S(x) == Str(x)

\* Merge lists with distinct merge keys and distinct scalars.  mergeMap
\* and diffMaps treat the keys of a map one at a time, so documents that
\* vary one field at a time, and one that sets both, are enough.
ListDocs ==
  {MkDoc(ch) : ch \in
     [c : {None, List(<<>>), List(<<E1("a")>>), List(<<E2("a", "1")>>),
           List(<<E1("a"), E1("b")>>), List(<<E2("b", "1"), E1("a")>>)},
      f : {None}]}
  \cup
  {MkDoc(ch) : ch \in
     [c : {None, List(<<E1("b")>>)},
      f : {List(<<>>), List(<<S("2"), S("1")>>)}]}
  \cup {MkDoc(("f" :> List(<<S("1")>>)))}

\* Atomic fields: the scalar x and the list g, without duplicates.
AtomicDocs ==
  {MkDoc(ch) : ch \in
     [x : {None, S("1"), S("2")},
      g : {None, List(<<S("1")>>), List(<<S("2"), S("1")>>)}]}

\* The atomic list g with a duplicate scalar.
DuplicateScalarDocs ==
  {MkDoc(ch) : ch \in
     [g : {None, List(<<S("1"), S("1")>>), List(<<S("1"), S("2")>>), List(<<S("2"), S("1")>>)}]}


\* The documents of the passing apply run: merge lists, atomic fields, and
\* the replace-strategy object r.
ApplyDocs ==
  ListDocs \cup AtomicDocs \cup {MkDoc(ch) : ch \in [r : {E1("a"), E2("a", "1")}]}

\* Merge key values of two JSON kinds with the same text: 1 and "1".
MixedKeyDocs ==
  {MkDoc(ch) : ch \in
     [c : {List(<<Obj("name" :> Num("1"))>>),
           List(<<Obj(("name" :> S("1")) @@ ("v" :> S("2")))>>)}]}

=============================================================================
