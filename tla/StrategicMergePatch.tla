-------------------------- MODULE StrategicMergePatch --------------------------
(***************************************************************************)
(* The strategic merge patch engine of src/unnamed/part_007 (package       *)
(* strategicpatch): diffMaps/diffLists build a patch from two documents,   *)
(* mergeMap/mergeSlice apply one, CreateThreeWayMergePatch reconciles a    *)
(* last-applied, a modified and a current document, and                   *)
(* MergingMapsHaveConflicts compares two patches.  The engine is pure, so  *)
(* every entry point is an operator; the module is for TLC only (it is    *)
(* recursive, and no proof module reaches it).                             *)
(*                                                                         *)
(* A JSON value is a record [k, s, c]: k its kind ("null", "str", "num",  *)
(* "obj", "list"), s the text fmt.Sprintf("%v") gives a scalar (the only   *)
(* thing the engine's sorting and list walks look at), c the contents of  *)
(* an object (a function from keys) or a list (a sequence).  An error or  *)
(* a runtime panic is a value of kind "err" or "panic" that every caller   *)
(* passes up, as the code returns err.                                     *)
(***************************************************************************)
EXTENDS Integers, Sequences, TLC

CONSTANTS
  Schema,    \* type -> field -> [strategy, mergeKey, type]: the patch metadata
  Root,      \* the type of the documents (the dataStruct)
  Fields,    \* every field name a document may carry
  StrOrder   \* the scalar texts in Go's byte-wise string order

Null == [k |-> "null", s |-> "<nil>", c |-> <<>>]
Str(x) == [k |-> "str", s |-> x, c |-> <<>>]
Num(x) == [k |-> "num", s |-> x, c |-> <<>>]
Obj(f) == [k |-> "obj", s |-> "map", c |-> f]
List(q) == [k |-> "list", s |-> "slice", c |-> q]
Err(why) == [k |-> "err", s |-> why, c |-> <<>>]
Panic(why) == [k |-> "panic", s |-> why, c |-> <<>>]
Failed(v) == v.k \in {"err", "panic"}

EmptyMap == [x \in {} |-> Null]

\* A map with key k set to v, and a map without key k.
Put(f, k, v) == (k :> v) @@ f
Remove(f, k) == [x \in DOMAIN f \ {k} |-> f[x]]

\* The union of maps with disjoint keys.
UnionOf(fs) == [x \in UNION {DOMAIN g : g \in fs} |-> (CHOOSE g \in fs : x \in DOMAIN g)[x]]

\* Of several results of a loop whose iteration order Go randomizes: a panic
\* if one of them may panic, else one failure, else none.
FirstFailure(rs) ==
  IF \E r \in rs : r.k = "panic" THEN CHOOSE r \in rs : r.k = "panic"
  ELSE CHOOSE r \in rs : Failed(r)

\* directiveMarker and the parallel deletion list keys.
Directive == "$patch"
DelKey(f) == "$deleteFromPrimitiveList/" \o f
DelKeys == {DelKey(f) : f \in Fields}
FieldOf(k) == CHOOSE f \in Fields : DelKey(f) = k

\* Go's string comparison, on the texts that occur.
Rank(x) == CHOOSE i \in DOMAIN StrOrder : StrOrder[i] = x
Before(x, y) == Rank(x) < Rank(y)

(* forkedjson.LookupPatchMetadata, the patch metadata provider (not in this *)
(* repository): the field's element or struct type, its patch strategy and *)
(* merge key, or an error for a field the type does not declare.           *)
LookupPatchMetadata(t, key) ==
  IF t \in DOMAIN Schema /\ key \in DOMAIN Schema[t]
  THEN [err |-> FALSE] @@ Schema[t][key]
  ELSE [err |-> TRUE, strategy |-> "", mergeKey |-> "", type |-> t]

-----------------------------------------------------------------------------
(* sort.Sort on fewer than 13 elements is insertionSort: data.Less(j, j-1) *)
(* moves element j down.  Less is sort.StringsAreSorted([]string{i, j}),   *)
(* i.e. i <= j, so equal elements are swapped too.                         *)
\* The text a sort compares: the element's own ("%v" stands for the scalar
\* itself), or, for SortableSliceOfMaps, that of its field, "<nil>" where
\* the field is missing.
sortKey(v, field) ==
  IF field = "%v" THEN v.s ELSE IF field \in DOMAIN v.c THEN v.c[field].s ELSE "<nil>"

RECURSIVE sinkDown(_, _, _)
sinkDown(s, j, field) ==
  IF j > 1 /\ Rank(sortKey(s[j], field)) <= Rank(sortKey(s[j - 1], field))
  THEN sinkDown([s EXCEPT ![j] = s[j - 1], ![j - 1] = s[j]], j - 1, field)
  ELSE s

RECURSIVE insertionSort(_, _, _)
insertionSort(s, i, field) ==
  IF i > Len(s) THEN s ELSE insertionSort(sinkDown(s, i, field), i + 1, field)

sortScalars(s) == insertionSort(s, 2, "%v")

sortMapsBasedOnField(m, field) == insertionSort(m, 2, field)

\* uniqifyScalars: a duplicate at j is overwritten by the last element and
\* the slice shortened; j is then examined again.
RECURSIVE uniqifyFrom(_, _, _)
uniqifyFrom(s, i, j) ==
  IF j > Len(s) THEN s
  ELSE IF s[i] = s[j]
       THEN uniqifyFrom(SubSeq([s EXCEPT ![j] = s[Len(s)]], 1, Len(s) - 1), i, j)
       ELSE uniqifyFrom(s, i, j + 1)

RECURSIVE uniqifyLoop(_, _)
uniqifyLoop(s, i) == IF i >= Len(s) THEN s ELSE uniqifyLoop(uniqifyFrom(s, i, i + 1), i + 1)

uniqifyScalars(s) == uniqifyLoop(s, 1)

uniqifyAndSortScalars(s) == sortScalars(uniqifyScalars(s))

\* sliceElementType over the concatenated slices: the first element stands
\* for the type.  A nil first element makes prevType.Kind() dereference a
\* nil reflect.Type.
sliceElementType(s) ==
  IF s = <<>> THEN Err("no elements in any of the given slices")
  ELSE IF s[1].k = "null" THEN Panic("nil pointer dereference")
  ELSE IF s[1].k = "list" THEN Err("no list of lists")
  ELSE IF \E i \in DOMAIN s : s[i].k # s[1].k THEN Err("list element types are not identical")
  ELSE s[1]

-----------------------------------------------------------------------------
(***************************************************************************)
(* Diffing.  ignoreChangesAndAdditions is iA, ignoreDeletions iD.          *)
(***************************************************************************)
RECURSIVE diffMaps(_, _, _, _, _), diffLists(_, _, _, _, _, _),
          diffListsOfMaps(_, _, _, _, _, _), sortMergeListsByNameMap(_, _),
          sortMergeListsByNameArray(_, _, _, _)

\* The sorted object of fields f, or the first failure among them.
sortedFields(f) ==
  IF \E k \in DOMAIN f : Failed(f[k]) THEN FirstFailure({f[k] : k \in DOMAIN f}) ELSE Obj(f)

\* The sorted list of elements elems, or the first failure among them.
sortedElements(elems, mk) ==
  IF \E i \in DOMAIN elems : Failed(elems[i])
  THEN FirstFailure({elems[i] : i \in DOMAIN elems})
  ELSE List(sortMapsBasedOnField(elems, mk))

\* The delete directive diffListsOfMaps emits for an element of original.
DeleteDirective(mk, v) == Obj((mk :> v) @@ (Directive :> Str("delete")))

\* The loop of diffListsOfScalars over the sorted lists: the result is
\* [k |-> "ok", add, del].
RECURSIVE scalarWalk(_, _, _, _, _, _, _, _)
scalarWalk(os, ms, i, j, add, del, iA, iD) ==
  LET oIn == i <= Len(os)
      mIn == j <= Len(ms)
  IN IF ~oIn /\ ~mIn THEN [k |-> "ok", add |-> add, del |-> del]
     ELSE IF oIn /\ mIn /\ os[i].s = ms[j].s
          THEN scalarWalk(os, ms, i + 1, j + 1, add, del, iA, iD)
     ELSE IF ~oIn \/ (mIn /\ Before(ms[j].s, os[i].s))
          THEN scalarWalk(os, ms, i, j + 1, IF iA THEN add ELSE Append(add, ms[j]), del, iA, iD)
     ELSE scalarWalk(os, ms, i + 1, j, add, IF iD THEN del ELSE Append(del, os[i]), iA, iD)

\* Mutant: modified is walked unsorted.
diffListsOfScalarsUnsorted(o, m, iA, iD) ==
  scalarWalk(sortScalars(o), m, 1, 1, <<>>, <<>>, iA, iD)

diffListsOfScalars(o, m, iA, iD) ==
  scalarWalk(sortScalars(o), sortScalars(m), 1, 1, <<>>, <<>>, iA, iD)

(* The loops of diffListsOfMaps (loopB and the loop over original inside   *)
(* it) on the sorted lists: equal merge keys recurse, a smaller original  *)
(* key is a deletion, a larger one means modified[j] was added.  When     *)
(* original runs out loopB breaks, and what is left of each list is       *)
(* deleted or added.                                                       *)
RECURSIVE mapsWalk(_, _, _, _, _, _, _, _, _), mapsContinue(_, _, _, _, _, _, _)
\* A step of the walk: the next indices and patch list, or a failure; d is
\* the diff of the two elements when their merge keys are equal.
mapsStep(os, ms, i, j, mk, iA, iD, p, d) ==
  LET ov == os[i].c[mk]
      mv == ms[j].c[mk]
  IN IF ov.s = mv.s
     THEN IF Failed(d) THEN d
          ELSE [k |-> "ok", i |-> i + 1, j |-> j + 1,
                p |-> IF d.c = EmptyMap THEN p ELSE Append(p, Obj(Put(d.c, mk, mv)))]
     ELSE IF Before(mv.s, ov.s)
     THEN [k |-> "ok", i |-> i, j |-> j + 1, p |-> IF iA THEN p ELSE Append(p, ms[j])]
     ELSE [k |-> "ok", i |-> i + 1, j |-> j,
           p |-> IF iD THEN p ELSE Append(p, DeleteDirective(mk, ov))]
mapsWalk(os, ms, i, j, t, mk, iA, iD, p) ==
  LET rest ==
        IF ~iD /\ \E i2 \in i..Len(os) : mk \notin DOMAIN os[i2].c
        THEN Err("map does not contain declared merge key")
        ELSE List(p \o (IF iD THEN <<>> ELSE [n \in 1..(Len(os) - i + 1) |->
                                                DeleteDirective(mk, os[i + n - 1].c[mk])])
                    \o (IF iA THEN <<>> ELSE SubSeq(ms, j, Len(ms))))
  IN
  IF j > Len(ms) THEN rest
  ELSE IF mk \notin DOMAIN ms[j].c THEN Err("map does not contain declared merge key")
  ELSE IF i > Len(os) THEN rest
  ELSE IF mk \notin DOMAIN os[i].c THEN Err("map does not contain declared merge key")
  ELSE mapsContinue(os, ms, t, mk, iA, iD,
         mapsStep(os, ms, i, j, mk, iA, iD, p,
                  IF os[i].c[mk].s = ms[j].c[mk].s
                  THEN diffMaps(os[i].c, ms[j].c, t, iA, iD) ELSE Null))
mapsContinue(os, ms, t, mk, iA, iD, st) ==
  IF Failed(st) THEN st ELSE mapsWalk(os, ms, st.i, st.j, t, mk, iA, iD, st.p)

\* The walk over the two lists once both are sorted.
walkSorted(os, ms, t, mk, iA, iD) ==
  IF Failed(os) THEN os ELSE IF Failed(ms) THEN ms
  ELSE mapsWalk(os.c, ms.c, 1, 1, t, mk, iA, iD, <<>>)

diffListsOfMaps(o, m, t, mk, iA, iD) ==
  walkSorted(sortMergeListsByNameArray(o, t, mk, FALSE),
             sortMergeListsByNameArray(m, t, mk, FALSE), t, mk, iA, iD)

\* The patch list of a merge list of objects; it has no deletion list.
mapsListDiff(p) == IF Failed(p) THEN p ELSE [k |-> "ok", add |-> p.c, del |-> <<>>]

\* [k |-> "ok", add, del] (the patch list and the parallel deletion list),
\* or a failure.
diffLists(o, m, t, mk, iA, iD) ==
  IF o = <<>>
  THEN [k |-> "ok", add |-> IF m = <<>> \/ iA THEN <<>> ELSE m, del |-> <<>>]
  ELSE LET et == sliceElementType(o \o m) IN
       IF Failed(et) THEN et
       ELSE IF et.k = "obj"
            THEN mapsListDiff(diffListsOfMaps(o, m, t, mk, iA, iD))
       ELSE diffListsOfScalars(o, m, iA, iD)

(* What diffMaps puts in the patch for a key whose values are maps: the  *)
(* nested patch d, if it is not empty (lines 179-187).                     *)
objectEntry(key, d) == IF Failed(d) \/ d.c = EmptyMap THEN d ELSE Obj(key :> d)

(* What diffMaps puts in the patch for a merge list: the list d.add and   *)
(* the parallel deletion list d.del, each if not empty (lines 203-218).   *)
listEntries(key, d) ==
  IF Failed(d) THEN d
  ELSE Obj((IF d.add = <<>> THEN EmptyMap ELSE key :> List(d.add))
           @@ (IF d.del = <<>> THEN EmptyMap ELSE DelKey(key) :> List(d.del)))

(* The body of diffMaps' loop for one key of modified: the patch entries  *)
(* it adds, as an object, or a failure.                                    *)
diffKey(o, m, t, iA, iD, key) ==
  LET mv == m[key]
      ov == o[key]
      md == LookupPatchMetadata(t, key)
      none == Obj(EmptyMap)
      put == IF iA THEN none ELSE Obj(key :> mv)
  IN
  IF key \notin DOMAIN o THEN put
  ELSE IF key = Directive
       THEN IF ov.k # "str" \/ mv.k # "str" THEN Err("invalid value for special key")
            ELSE IF ov # mv THEN Obj(key :> mv) ELSE none
  ELSE IF ov.k # mv.k THEN put
  ELSE IF ov.k \in {"obj", "list"} /\ md.err
       THEN IF ov = mv THEN none ELSE Err("unable to find api field")
  ELSE IF ov.k = "obj" /\ md.strategy = "replace" THEN put
  ELSE IF ov.k = "obj" THEN objectEntry(key, diffMaps(ov.c, mv.c, md.type, iA, iD))
  ELSE IF ov.k = "list" /\ md.strategy = "merge"
       THEN listEntries(key, diffLists(ov.c, mv.c, md.type, md.mergeKey, iA, iD))
  ELSE IF ~iA /\ ov # mv THEN Obj(key :> mv)
  ELSE none

\* The patch from the entries of every key of modified and the nils for the
\* deleted keys, or the first failure.
mapPatch(parts, dels) ==
  IF \E r \in parts : Failed(r) THEN FirstFailure(parts)
  ELSE Obj(UnionOf({r.c : r \in parts} \cup {dels}))

\* diffMaps: the entries of every key of modified, then nil for every key
\* only original has.
diffMaps(o, m, t, iA, iD) ==
  mapPatch({diffKey(o, m, t, iA, iD, key) : key \in DOMAIN m},
           IF iD THEN EmptyMap ELSE [key \in DOMAIN o \ DOMAIN m |-> Null])

(* sortMergeListsByNameMap: deletion lists uniqified and sorted, objects   *)
(* and merge lists sorted recursively; a field the type does not declare  *)
(* is an error.                                                            *)
sortMergeListsByNameMap(s, t) ==
  LET sorted(k) ==
        IF k \in DelKeys
        THEN IF s[k].k # "list" THEN Err("bad patch format for primitive list")
             ELSE List(uniqifyAndSortScalars(s[k].c))
        ELSE IF k = Directive THEN s[k]
        ELSE LET md == LookupPatchMetadata(t, k) IN
             IF md.err THEN Err("unable to find api field")
             ELSE IF s[k].k = "obj" THEN sortMergeListsByNameMap(s[k].c, md.type)
             ELSE IF s[k].k = "list" /\ md.strategy = "merge"
                  THEN sortMergeListsByNameArray(s[k].c, md.type, md.mergeKey, TRUE)
             ELSE s[k]
  IN sortedFields([k \in DOMAIN s |-> sorted(k)])

sortMergeListsByNameArray(s, t, mk, recurse) ==
  IF s = <<>> THEN List(s)
  ELSE LET et == sliceElementType(s) IN
       IF Failed(et) THEN et
       ELSE IF et.k # "obj" THEN List(uniqifyAndSortScalars(s))
       ELSE sortedElements(IF recurse THEN [i \in DOMAIN s |-> sortMergeListsByNameMap(s[i].c, t)]
                                      ELSE s, mk)

\* CreateTwoWayMergeMapPatch, with no preconditions.
CreateTwoWayMergeMapPatch(o, m) == diffMaps(o, m, Root, FALSE, FALSE)


-----------------------------------------------------------------------------
(***************************************************************************)
(* Applying a patch.  mergeDeleteList is mdl, ignoreUnmatchedNulls iun.    *)
(* Go ranges over a map in a random order, and mergeMap's result depends  *)
(* on it where a patch holds both k and $deleteFromPrimitiveList/k: delFirst*)
(* says which of the two the loop meets first.                             *)
(***************************************************************************)
RECURSIVE mergeMap(_, _, _, _, _, _), mergeSlice(_, _, _, _, _, _, _, _),
          mergeKeys(_, _, _, _, _, _, _)

\* deleteFromSlice's loop over the uniqified, sorted lists.
RECURSIVE deleteWalk(_, _, _, _, _)
deleteWalk(cs, ds, i, j, kept) ==
  IF i > Len(cs) THEN kept
  ELSE IF j > Len(ds) THEN kept \o SubSeq(cs, i, Len(cs))
  ELSE IF cs[i].s = ds[j].s THEN deleteWalk(cs, ds, i + 1, j, kept)
  ELSE IF Before(ds[j].s, cs[i].s) THEN deleteWalk(cs, ds, i, j + 1, kept)
  ELSE deleteWalk(cs, ds, i + 1, j, Append(kept, cs[i]))

deleteFromSlice(current, toDelete) ==
  deleteWalk(uniqifyAndSortScalars(current), uniqifyAndSortScalars(toDelete), 1, 1, <<>>)

\* The index of the first map in m whose key equals value (Go's ==), or 0.
findMapInSliceBasedOnKeyValue(m, key, value) ==
  LET hits == {i \in DOMAIN m : key \in DOMAIN m[i].c /\ m[i].c[key] = value} IN
  IF hits = {} THEN 0 ELSE CHOOSE i \in hits : \A i2 \in hits : i <= i2

\* Mutant: a null is skipped only when the key was there to delete.
mergeKeyNullOnlyIfPresent(o, p, k0, t, mdl, iun, delFirst) ==
  LET pv == p[k0]
      isDeleteList == k0 \in DelKeys
      k == IF isDeleteList THEN FieldOf(k0) ELSE k0
      md == LookupPatchMetadata(t, k)
  IN
  IF isDeleteList /\ ~mdl THEN Obj(Put(o, k0, pv))
  ELSE IF pv = Null /\ iun /\ k \in DOMAIN o THEN Obj(Remove(o, k))
  ELSE IF k \notin DOMAIN o \/ pv = Null \/ o[k].k # pv.k THEN Obj(Put(o, k, pv))
  ELSE IF md.err THEN Err("unable to find api field")
  ELSE IF pv.k = "obj" /\ md.strategy # "replace"
       THEN LET r == mergeMap(o[k].c, pv.c, md.type, mdl, iun, delFirst) IN
            IF Failed(r) THEN r ELSE Obj(Put(o, k, r))
  ELSE IF pv.k = "list" /\ md.strategy = "merge"
       THEN LET r == mergeSlice(o[k].c, pv.c, md.type, md.mergeKey, mdl, isDeleteList,
                                iun, delFirst) IN
            IF Failed(r) THEN r ELSE Obj(Put(o, k, r))
  ELSE Obj(Put(o, k, pv))

(* The loop of mergeMap for one key of the patch: the merged original, or *)
(* a failure.                                                              *)
mergeKey(o, p, k0, t, mdl, iun, delFirst) ==
  LET pv == p[k0]
      isDeleteList == k0 \in DelKeys
      k == IF isDeleteList THEN FieldOf(k0) ELSE k0
      md == LookupPatchMetadata(t, k)
  IN
  IF isDeleteList /\ ~mdl THEN Obj(Put(o, k0, pv))
  ELSE IF pv = Null /\ iun THEN Obj(Remove(o, k))
  ELSE IF k \notin DOMAIN o \/ pv = Null \/ o[k].k # pv.k THEN Obj(Put(o, k, pv))
  ELSE IF md.err THEN Err("unable to find api field")
  ELSE IF pv.k = "obj" /\ md.strategy # "replace"
       THEN LET r == mergeMap(o[k].c, pv.c, md.type, mdl, iun, delFirst) IN
            IF Failed(r) THEN r ELSE Obj(Put(o, k, r))
  ELSE IF pv.k = "list" /\ md.strategy = "merge"
       THEN LET r == mergeSlice(o[k].c, pv.c, md.type, md.mergeKey, mdl, isDeleteList,
                                iun, delFirst) IN
            IF Failed(r) THEN r ELSE Obj(Put(o, k, r))
  ELSE Obj(Put(o, k, pv))

\* mergeMap's loop over a set of the patch's keys, in any order.
mergeKeys(o, p, ks, t, mdl, iun, delFirst) ==
  IF ks = {} THEN Obj(o)
  ELSE LET k0 == CHOOSE k0 \in ks : TRUE
           r == mergeKey(o, p, k0, t, mdl, iun, delFirst)
       IN IF Failed(r) THEN r ELSE mergeKeys(r.c, p, ks \ {k0}, t, mdl, iun, delFirst)

mergeMap(o, p, t, mdl, iun, delFirst) ==
  IF Directive \in DOMAIN p
  THEN IF p[Directive] = Str("replace") THEN Obj(Remove(p, Directive))
       ELSE IF p[Directive] = Str("delete") THEN Obj(EmptyMap)
       ELSE Err("unknown patch type")
  ELSE LET dels == DOMAIN p \cap DelKeys
           first == IF delFirst THEN dels ELSE DOMAIN p \ dels
           r == mergeKeys(o, p, first, t, mdl, iun, delFirst)
       IN IF Failed(r) THEN r
          ELSE mergeKeys(r.c, p, DOMAIN p \ first, t, mdl, iun, delFirst)

\* mergeSlice's loop merging each patch element into the original element
\* with its merge key value, or appending it.
RECURSIVE mergeElements(_, _, _, _, _, _, _, _)
mergeElements(o, q, i, et, mk, mdl, iun, delFirst) ==
  IF i > Len(q) THEN List(o)
  ELSE IF mk \notin DOMAIN q[i].c THEN Err("map does not contain declared merge key")
  ELSE LET at == findMapInSliceBasedOnKeyValue(o, mk, q[i].c[mk]) IN
       IF at = 0 THEN mergeElements(Append(o, q[i]), q, i + 1, et, mk, mdl, iun, delFirst)
       ELSE LET r == mergeMap(o[at].c, q[i].c, et, mdl, iun, delFirst) IN
            IF Failed(r) THEN r
            ELSE mergeElements([o EXCEPT ![at] = r], q, i + 1, et, mk, mdl, iun, delFirst)

(* mergeSlice: scalars are concatenated and uniqified, or deleted; objects *)
(* first go through the $patch elements of the patch (delete every match, *)
(* replace the list, reject the rest), then are merged by merge key.      *)
mergeSlice(o, p, et, mk, mdl, isDeleteList, iun, delFirst) ==
  IF o = <<>> /\ p = <<>> THEN List(o)
  ELSE LET t == sliceElementType(o \o p)
           dirs == {i \in DOMAIN p : Directive \in DOMAIN p[i].c}
           dir(i) == p[i].c[Directive]
           deleted == {p[i].c[mk] : i \in {i \in dirs : dir(i) = Str("delete")}}
           kept == SelectSeq(o, LAMBDA e : ~(mk \in DOMAIN e.c /\ e.c[mk] \in deleted))
           plain == SelectSeq(p, LAMBDA e : Directive \notin DOMAIN e.c)
       IN
       IF Failed(t) THEN t
       ELSE IF t.k # "obj"
            THEN IF mdl /\ isDeleteList THEN List(deleteFromSlice(o, p))
                 ELSE List(uniqifyScalars(o \o p))
       ELSE IF mk = "" THEN Err("cannot merge lists without merge key")
       ELSE IF \E i \in dirs : dir(i) \notin {Str("delete"), Str("replace")}
                               \/ (dir(i) = Str("delete") /\ mk \notin DOMAIN p[i].c)
            THEN Err("bad $patch element")
       ELSE IF \E i \in dirs : dir(i) = Str("replace") THEN List(plain)
       ELSE mergeElements(kept, plain, 1, et, mk, mdl, iun, delFirst)

\* StrategicMergeMapPatch.
StrategicMergeMapPatch(o, p, delFirst) == mergeMap(o, p, Root, TRUE, TRUE, delFirst)


-----------------------------------------------------------------------------
(***************************************************************************)
(* Conflict detection.  A verdict is a value of kind "bool" (s "true" or  *)
(* "false"), or a failure, which the code reports as (true, err).         *)
(***************************************************************************)
RECURSIVE mergingMapFieldsHaveConflicts(_, _, _, _, _), slicesHaveConflicts(_, _, _, _, _)

Verdict(b) == [k |-> "bool", s |-> IF b THEN "true" ELSE "false", c |-> <<>>]
Conflict(v) == Failed(v) \/ v = Verdict(TRUE)

\* A loop that returns at the first of its verdicts that is a conflict, in
\* the random order of a Go map.
AnyConflict(vs) ==
  IF \E v \in vs : v.k = "panic" THEN CHOOSE v \in vs : v.k = "panic"
  ELSE IF \E v \in vs : Conflict(v) THEN CHOOSE v \in vs : Conflict(v)
  ELSE Verdict(FALSE)

\* mapsHaveConflicts: the keys both maps have, $patch aside.
mapsHaveConflicts(l, r, t) ==
  AnyConflict({LET md == LookupPatchMetadata(t, key) IN
                 IF md.err THEN Err("unable to find api field")
                 ELSE mergingMapFieldsHaveConflicts(l[key], r[key], md.type, md.strategy,
                                                    md.mergeKey)
               : key \in (DOMAIN l \cap DOMAIN r) \ {Directive}})

mapsOfMapsHaveConflicts(l, r, t) ==
  AnyConflict({mergingMapFieldsHaveConflicts(l[key], r[key], t, "", "")
               : key \in DOMAIN l \cap DOMAIN r})

\* sliceOfMapsToMapOfMaps: keyed by fmt.Sprintf("%s", mergeValue); of two
\* elements with the same key the later one stays.
sliceOfMapsToMapOfMaps(slice, mk) ==
  LET text(v) == IF v.k = "str" THEN v.s ELSE "%!s(" \o v.k \o "=" \o v.s \o ")"
      keys == {text(slice[i].c[mk]) : i \in DOMAIN slice}
      last(x) == CHOOSE i \in DOMAIN slice : text(slice[i].c[mk]) = x
                   /\ \A i2 \in DOMAIN slice : text(slice[i2].c[mk]) = x => i2 <= i
  IN IF \E i \in DOMAIN slice : slice[i].k # "obj" THEN Err("invalid element type in merging list")
     ELSE IF \E i \in DOMAIN slice : mk \notin DOMAIN slice[i].c
          THEN Err("cannot find merge key")
     ELSE Obj([x \in keys |-> slice[last(x)]])

(* slicesHaveConflicts: merge lists of objects are compared by merge key, *)
(* merge lists of scalars never conflict, other lists must have the same  *)
(* length and are compared element by element, scalars after uniqifying   *)
(* and sorting each side; the loop runs over the left side's indices.     *)
slicesHaveConflicts(l, r, vt, strategy, mk) ==
  LET et == sliceElementType(l \o r)
      lm == sliceOfMapsToMapOfMaps(l, mk)
      rm == sliceOfMapsToMapOfMaps(r, mk)
      ls == IF et.k # "obj" THEN uniqifyAndSortScalars(l) ELSE l
      rs == IF et.k # "obj" THEN uniqifyAndSortScalars(r) ELSE r
      at(i) == IF i > Len(rs) THEN Panic("index out of range")
               ELSE mergingMapFieldsHaveConflicts(ls[i], rs[i], vt, "", "")
      bad == {i \in DOMAIN ls : Conflict(at(i))}
  IN
  IF Failed(et) THEN et
  ELSE IF strategy = "merge"
       THEN IF et.k # "obj" THEN Verdict(FALSE)
            ELSE IF Failed(lm) THEN lm ELSE IF Failed(rm) THEN rm
            ELSE mapsOfMapsHaveConflicts(lm.c, rm.c, vt)
  ELSE IF Len(l) # Len(r) THEN Verdict(TRUE)
  ELSE IF bad = {} THEN Verdict(FALSE)
  ELSE at(CHOOSE i \in bad : \A i2 \in bad : i <= i2)

mergingMapFieldsHaveConflicts(l, r, ft, strategy, mk) ==
  CASE l.k = "obj" ->
         IF r.k # "obj" THEN Verdict(TRUE)
         ELSE IF (Directive \in DOMAIN l.c) # (Directive \in DOMAIN r.c) THEN Verdict(TRUE)
         ELSE IF Directive \in DOMAIN l.c /\ l.c[Directive] # r.c[Directive] THEN Verdict(TRUE)
         ELSE IF strategy = "replace" THEN Verdict(FALSE)
         ELSE mapsHaveConflicts(l.c, r.c, ft)
    [] l.k = "list" ->
         IF r.k # "list" THEN Verdict(TRUE) ELSE slicesHaveConflicts(l.c, r.c, ft, strategy, mk)
    [] OTHER -> Verdict(l # r)

MergingMapsHaveConflicts(l, r) == mergingMapFieldsHaveConflicts(Obj(l), Obj(r), Root, "", "")

(* The steps of CreateThreeWayMergePatch after its three diffs: the       *)
(* deletions and the additions merged, then, without overwrite, the       *)
(* conflict check against the changes in current.                          *)
threeWayVerdict(patch, conflicts) ==
  IF Failed(conflicts) THEN conflicts
  ELSE IF conflicts = Verdict(TRUE) THEN Err("conflict")
  ELSE patch
threeWayMerged(patch, changed, overwrite) ==
  IF Failed(patch) THEN patch
  ELSE IF overwrite THEN patch
  ELSE IF Failed(changed) THEN changed
  ELSE threeWayVerdict(patch, MergingMapsHaveConflicts(patch.c, changed.c))
threeWay(delta, deletions, changed, overwrite) ==
  IF Failed(delta) THEN delta
  ELSE IF Failed(deletions) THEN deletions
  ELSE threeWayMerged(mergeMap(deletions.c, delta.c, Root, FALSE, FALSE, FALSE), changed, overwrite)

\* Mutant: the additions are taken from original instead of current.
CreateThreeWayMergePatchFromOriginal(o, m, c, overwrite) ==
  threeWay(diffMaps(o, m, Root, FALSE, TRUE), diffMaps(o, m, Root, TRUE, FALSE),
           diffMaps(o, c, Root, FALSE, FALSE), overwrite)

\* Mutant: the changes in current ignore its deletions.
CreateThreeWayMergePatchKeepsDeletions(o, m, c, overwrite) ==
  threeWay(diffMaps(c, m, Root, FALSE, TRUE), diffMaps(o, m, Root, TRUE, FALSE),
           diffMaps(o, c, Root, FALSE, TRUE), overwrite)

(* CreateThreeWayMergePatch, with no preconditions: the additions from     *)
(* current to modified merged over the deletions from original to         *)
(* modified; without overwrite, a conflict with the changes from original *)
(* to current is an error.                                                 *)
CreateThreeWayMergePatch(o, m, c, overwrite) ==
  threeWay(diffMaps(c, m, Root, FALSE, TRUE), diffMaps(o, m, Root, TRUE, FALSE),
           diffMaps(o, c, Root, FALSE, FALSE), overwrite)

=============================================================================
