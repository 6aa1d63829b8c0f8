------------------------------ MODULE StringMap ------------------------------
(***************************************************************************)
(* utils/smap: nested maps whose keys may be paths.                        *)
(*                                                                         *)
(* Go maps are references: maps is the heap, and a value is a leaf, a list *)
(* of tags or the reference of a map, which may be in several maps at once *)
(* (Update, DeepUpdate, MapStrUnion and Put all store it as it is).  A key *)
(* is the sequence of its parts, so that <<"a", "b">> is both the key "a.b" *)
(* of one map and the path to "b" in the map at "a".                       *)
(*                                                                         *)
(* Callers are assumed to make no map contain itself, which would send     *)
(* Clone into an endless recursion, and to put no nil maps; lists of tags  *)
(* are values, their sharing of memory is left out.                        *)
(***************************************************************************)
EXTENDS Naturals, Sequences, SequencesExt

CONSTANTS
  Keys,    \* the keys: FieldsKey, others, and paths
  MaxOps   \* bound on the operations

VARIABLES
  maps,    \* the content of the maps, by reference
  held,    \* the two maps that callers hold and work on
  ops,     \* number of operations so far
  last,    \* the last operation: its target, key, value and error, and the
           \* maps before it
  clone    \* a clone somebody keeps, and what it was a clone of

smapVars == <<maps, held, ops, last, clone>>

FieldsKey == <<"fields">>
TagsKey == <<"tags">>
Leaf(n) == [kind |-> "leaf", is |-> n]
Ref(r) == [kind |-> "map", is |-> r]
Tags(s) == [kind |-> "tags", is |-> s]
Absent == [kind |-> "absent", is |-> 0]

toMapStr(v) == v.kind = "map"

\* m with v at key k.
With(m, k, v) == [x \in DOMAIN m \cup {k} |-> IF x = k THEN v ELSE m[x]]
Without(m, k) == [x \in DOMAIN m \ {k} |-> m[x]]
At(m, k) == IF k \in DOMAIN m THEN m[k] ELSE Absent
Set(heap, r, k, v) == [heap EXCEPT ![r] = With(@, k, v)]
NewMap(heap, content) == Append(heap, content)

\* The maps that map r leads to, itself included.
RECURSIVE Below(_, _, _)
Below(r, heap, depth) ==
  {r} \cup IF depth = 0 THEN {} ELSE
    UNION {Below(heap[r][k].is, heap, depth - 1) : k \in {x \in DOMAIN heap[r] : toMapStr(heap[r][x])}}

NoneInItself(heap) ==
  \A r \in DOMAIN heap : \A k \in DOMAIN heap[r] :
    toMapStr(heap[r][k]) => r \notin Below(heap[r][k].is, heap, Len(heap))

-----------------------------------------------------------------------------
(* Finding a key *)

\* The map and the key in it that a key leads to, and the heap with the maps
\* made on the way.  A key that is there as it is comes before a path.
RECURSIVE mapFind(_, _, _, _)
mapFind_LastToo(key, r, heap, createMissing) ==  \* seeded fault: the last part is made a map, too
  LET found == [k |-> key, map |-> r, err |-> FALSE, heap |-> heap]
      next == At(heap[r], <<Head(key)>>)
      made == Set(NewMap(heap, <<>>), r, <<Head(key)>>, Ref(Len(heap) + 1))
  IN  IF key \in DOMAIN heap[r] THEN found
      ELSE IF Len(key) = 1 THEN [found EXCEPT !.heap = IF createMissing THEN made ELSE heap]
      ELSE IF next = Absent /\ createMissing THEN mapFind(Tail(key), Len(made), made, TRUE)
      ELSE IF toMapStr(next) THEN mapFind(Tail(key), next.is, heap, createMissing)
      ELSE [found EXCEPT !.err = TRUE]

mapFind(key, r, heap, createMissing) ==
  LET m == heap[r]
      found == [k |-> key, map |-> r, err |-> FALSE, heap |-> heap]
      next == At(m, <<Head(key)>>)
      made == Set(NewMap(heap, <<>>), r, <<Head(key)>>, Ref(Len(heap) + 1))
  IN  IF key \in DOMAIN m \/ Len(key) = 1 THEN found
      ELSE IF next = Absent /\ createMissing THEN mapFind(Tail(key), Len(made), made, TRUE)
      ELSE IF toMapStr(next) THEN mapFind(Tail(key), next.is, heap, createMissing)
      ELSE [found EXCEPT !.err = TRUE]

\* What a key leads to, or Absent.  HasKey is whether it is not.
Get(r, key, heap) ==
  LET f == mapFind(key, r, heap, FALSE)
  IN  IF f.err THEN Absent ELSE At(heap[f.map], f.k)

-----------------------------------------------------------------------------
(* The operations: the heap after each.  One that fails takes nothing back. *)

Failed(heap) == [err |-> TRUE, heap |-> heap]
Done(heap) == [err |-> FALSE, heap |-> heap]

Put(r, key, v, heap) ==
  LET f == mapFind(key, r, heap, TRUE)
  IN  IF f.err THEN Failed(f.heap) ELSE Done(Set(f.heap, f.map, f.k, v))

Delete(r, key, heap) ==
  LET f == mapFind(key, r, heap, FALSE)
  IN  IF f.err \/ f.k \notin DOMAIN heap[f.map] THEN Failed(heap)
      ELSE Done([heap EXCEPT ![f.map] = Without(@, f.k)])

CopyFieldsTo(r, to, key, heap) ==
  IF Get(r, key, heap) = Absent THEN Failed(heap) ELSE Put(to, key, Get(r, key, heap), heap)

Update(r, d, heap) ==
  Done([heap EXCEPT ![r] = [k \in DOMAIN @ \cup DOMAIN heap[d] |->
                              IF k \in DOMAIN heap[d] THEN heap[d][k] ELSE @[k]]])

\* deepUpdateMap and deepUpdateValue, the keys being walked in this order: a map
\* meets a map and is updated in place, or takes the place of anything else.  (A
\* map that came to contain itself would be walked for ever.)
RECURSIVE deepUpdateMap(_, _, _, _, _)
deepUpdateMap(r, d, overwrite, order, heap) ==
  LET step(k, h) ==
        LET v == At(h[d], k)
            old == At(h[r], k)
        IN  IF v = Absent \/ ~ NoneInItself(h) THEN h
            ELSE IF toMapStr(v) /\ toMapStr(old) THEN deepUpdateMap(old.is, v.is, overwrite, order, h)
            ELSE IF toMapStr(v) \/ overwrite \/ old = Absent THEN Set(h, r, k, v)
            ELSE h
  IN  FoldLeft(LAMBDA h, k : step(k, h), heap, order)

DeepUpdate(r, d, overwrite, order, heap) == Done(deepUpdateMap(r, d, overwrite, order, heap))

\* Seeded fault: the maps inside are not cloned.
Clone_Shallow(r, heap) == NewMap(heap, heap[r])

\* A copy of map r and of the maps in it, which becomes the last map.
RECURSIVE Clone(_, _)
Clone(r, heap) ==
  LET inner == SetToSeq({k \in DOMAIN heap[r] : toMapStr(heap[r][k])})
      cloned == FoldLeft(LAMBDA x, k :
                  LET h == Clone(heap[r][k].is, x.heap)
                  IN  [heap |-> h, map |-> With(x.map, k, Ref(Len(h)))],
                  [heap |-> heap, map |-> heap[r]], inner)
  IN  NewMap(cloned.heap, cloned.map)

\* The leaves of map r under their whole paths.
RECURSIVE flatten(_, _, _)
flatten(prefix, r, heap) ==
  UNION {IF toMapStr(heap[r][k]) THEN flatten(prefix \o k, heap[r][k].is, heap)
         ELSE {<<prefix \o k, heap[r][k]>>} : k \in DOMAIN heap[r]}

\* Two leaves may have one path, if one is under a key with a dot; either wins.
Flattened(r, heap) ==
  LET leaves == flatten(<<>>, r, heap)
      paths == {p[1] : p \in leaves}
  IN  {m \in [paths -> {p[2] : p \in leaves}] : \A k \in paths : <<k, m[k]>> \in leaves}

MapStrUnion(r, d, heap) == Update(Len(heap) + 1, d, NewMap(heap, heap[r])).heap

\* MergeFields and MergeFieldsDeep: from is merged into target, or into the map
\* at its "fields", which is made if there is none.
MergeFields(target, from, underRoot, deep, order, heap) ==
  LET f == At(heap[target], FieldsKey)
      made == Set(NewMap(heap, <<>>), target, FieldsKey, Ref(Len(heap) + 1))
      Merge(dest, h) == IF deep THEN DeepUpdate(dest, from, TRUE, order, h) ELSE Update(dest, from, h)
  IN  IF DOMAIN heap[from] = {} THEN Done(heap)
      ELSE IF underRoot THEN Merge(target, heap)
      ELSE IF f = Absent THEN Merge(Len(made), made)
      ELSE IF toMapStr(f) THEN Merge(f.is, heap)
      ELSE Failed(heap)

AddTagsWithKey(r, key, tags, heap) ==
  LET f == mapFind(key, r, heap, TRUE)
      old == At(f.heap[f.map], f.k)
  IN  IF f.err \/ old.kind \in {"leaf", "map"} THEN Failed(f.heap)
      ELSE Done(Set(f.heap, f.map, f.k,
                    Tags(IF old = Absent THEN tags ELSE old.is \o tags)))

-----------------------------------------------------------------------------
(* Two callers, who hold a map each *)

Callers == 1 .. 2
Other(c) == 3 - c

NoClone == [map |-> 0, content |-> <<>>]
Nothing == [op |-> "none", map |-> 1, to |-> 1, key |-> FieldsKey, value |-> Absent,
            err |-> FALSE, before |-> <<>>]

\* The first has a map at "fields".
Init ==
  /\ maps = <<[k \in {FieldsKey} |-> Ref(3)], <<>>, [k \in {<<"a">>} |-> Leaf(1)]>>
  /\ held = [c \in Callers |-> c]
  /\ ops = 0 /\ last = Nothing /\ clone = NoClone

\* What map r holds, maps included.
RECURSIVE Content(_, _)
Content(r, heap) ==
  [k \in DOMAIN heap[r] |->
     IF toMapStr(heap[r][k]) THEN [kind |-> "content", is |-> Content(heap[r][k].is, heap)]
     ELSE heap[r][k]]

Operation == ops < MaxOps /\ ops' = ops + 1 /\ UNCHANGED clone

\* An operation on the map of a caller.
Method(op, c, key, v, result) ==
  /\ Operation
  /\ NoneInItself(result.heap)
  /\ maps' = result.heap
  /\ last' = [op |-> op, map |-> held[c], to |-> held[Other(c)], key |-> key, value |-> v,
              err |-> result.err, before |-> maps]
  /\ UNCHANGED held

\* A caller holds a new map from now on.
Holds(c, heap) ==
  /\ Operation
  /\ maps' = heap /\ held' = [held EXCEPT ![c] = Len(heap)]
  /\ last' = Nothing

Keep(c) ==
  /\ clone = NoClone /\ ops < MaxOps /\ ops' = ops + 1
  /\ maps' = Clone(held[c], maps)
  /\ clone' = [map |-> Len(maps'), content |-> Content(held[c], maps)]
  /\ last' = Nothing /\ UNCHANGED held

Next ==
  \/ \E c \in Callers, key \in Keys, v \in {Leaf(2), Ref(held[1]), Ref(held[2])} :
       Method("put", c, key, v, Put(held[c], key, v, maps))
  \/ \E c \in Callers, key \in Keys :
       Method("delete", c, key, Absent, Delete(held[c], key, maps))
  \/ \E c \in Callers, key \in Keys :
       Method("copy", c, key, Absent, CopyFieldsTo(held[c], held[Other(c)], key, maps))
  \/ \E c \in Callers, key \in Keys :
       Method("tags", c, key, Absent, AddTagsWithKey(held[c], key, <<1>>, maps))
  \/ \E c \in Callers :
       Method("update", c, FieldsKey, Absent, Update(held[c], held[Other(c)], maps))
  \/ \E c \in Callers, overwrite \in BOOLEAN, order \in SetToSeqs(Keys) :
       Method("deep", c, FieldsKey, Absent, DeepUpdate(held[c], held[Other(c)], overwrite, order, maps))
  \/ \E c \in Callers, underRoot, deep \in BOOLEAN, order \in SetToSeqs(Keys) :
       Method("merge", c, FieldsKey, Absent,
              MergeFields(held[c], held[Other(c)], underRoot, deep, order, maps))
  \/ \E c \in Callers : \E content \in Flattened(held[c], maps) : Holds(c, NewMap(maps, content))
  \/ \E c \in Callers : Holds(c, MapStrUnion(held[c], held[Other(c)], maps))
  \/ \E c \in Callers : Keep(c)

Spec == Init /\ [][Next]_smapVars

-----------------------------------------------------------------------------
(* Properties *)

\* A clone shares no map with anything: nothing that is done to the map it was
\* made of, or to the maps in it or around it, changes the clone.
CloneStands == clone # NoClone => Content(clone.map, maps) = clone.content

\* An operation that returns an error has changed no map at all, although Put
\* and AddTags keep the maps that mapFind makes before it comes to what may
\* fail (smap.go:384); what was put under a key without one is found there,
\* whether that is a key or a path, and what was copied is found in the other
\* map.
AllOrNothing ==
  /\ last.err => maps = last.before
  /\ ~ last.err /\ last.op = "put" => Get(last.map, last.key, maps) = last.value
  /\ ~ last.err /\ last.op = "copy" =>
       Get(last.to, last.key, maps) = Get(last.map, last.key, last.before)

=============================================================================
