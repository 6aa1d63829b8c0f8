----------------------------- MODULE MCToolkit -----------------------------
(***************************************************************************)
(* What programs build on, in small instances side by side: the subject of *)
(* a behaviour is one of them, and the others rest.                        *)
(*   router   Router: routers and entries that share slices                *)
(*   map      StringMap: nested maps that share maps                       *)
(*   form     FormBinding: the form of a request and the object it is for  *)
(***************************************************************************)
EXTENDS Router, SequencesExt, TLC

CONSTANTS
  MaxOps,
  MaxBinds

VARIABLES
  subject,
  maps, held, ops, last, clone,
  formType, object, bound

\* A key, the one that fields are merged under, and a path below that.
MapKeys == {<<"a">>, <<"fields">>, <<"fields", "a">>}

Map == INSTANCE StringMap WITH Keys <- MapKeys

\* Types of objects to bind to.
Kind(k) == [kind |-> k]
Ptr(t) == [kind |-> "ptr", elem |-> t]
Slice(t) == [kind |-> "slice", elem |-> t]
Struct(fields) == [kind |-> "struct", fields |-> fields]

Field(k, t) ==
  [ key |-> k, default |-> "no text", skip |-> FALSE, exported |-> TRUE,
    anonymous |-> FALSE, type |-> t ]

FormTypes ==
  { Struct(<<Field("p", Ptr(Struct(<<Field("a", Kind("int8")), Field("b", Slice(Kind("int8")))>>))),
             Field("c", Kind("unix"))>>),
    Struct(<<[Field("a", Kind("int8")) EXCEPT !.default = "1"],
             [Field("b", Struct(<<Field("c", Kind("string"))>>)) EXCEPT !.anonymous = TRUE,
                                                                       !.exported = FALSE],
             Field("b", [kind |-> "array", elem |-> Kind("int8"), len |-> 2])>>),
    Struct(<<[Field("a", Kind("int8")) EXCEPT !.skip = TRUE],
             Field("b", Slice(Kind("string"))),
             Field("c", Struct(<<Field("a", Ptr(Kind("int8"))), Field("b", Kind("int8")),
                                 [Field("b", Kind("time")) EXCEPT !.exported = FALSE]>>))>>),
    Struct(<<Field("b", Slice(Struct(<<Field("a", Kind("int8")), Field("b", Kind("int8"))>>))),
             Field("c", [kind |-> "map", elem |-> Kind("int8")])>>),
    Struct(<<Field("b", Slice(Slice(Kind("int8")))), Field("a", Kind("chan")),
             Field("c", Kind("time"))>>),
    Kind("map of lists"), Kind("map of strings") }

\* Forms with any of three keys: numbers too large and not, nothing, JSON.
Texts ==
  "a" :> {<<>>, <<"">>, <<"1">>, <<"300">>} @@
  "b" :> {<<"1">>, <<"2", "">>, <<"1", "300">>, <<"{b:1}", "{a:300,b:2}">>} @@
  "c" :> {<<"1", "2">>, <<"{}">>, <<"{b:1}">>, <<"{a:300,b:2}">>}

BenchForms ==
  UNION {{f \in [keys -> UNION {Texts[k] : k \in DOMAIN Texts}] : \A k \in keys : f[k] \in Texts[k]} :
           keys \in SUBSET DOMAIN Texts}

F == INSTANCE FormBinding WITH Types <- FormTypes, Forms <- BenchForms, type <- formType

mapVars == <<maps, held, ops, last, clone>>
formVars == <<formType, object, bound>>

BenchVars == <<subject, vars, mapVars, formVars>>

BenchInit ==
  /\ subject \in {"router", "map", "form"}
  /\ Init /\ Map!Init /\ F!Init

\* The steps of each subject.
OfRouter(A) == subject = "router" /\ A /\ UNCHANGED <<subject, mapVars, formVars>>

OfMap(A) == subject = "map" /\ A /\ UNCHANGED <<subject, vars, formVars>>

OfForm(A) == subject = "form" /\ A /\ UNCHANGED <<subject, vars, mapVars>>

RouterNext ==
  \/ \E r \in RouterIds : OfRouter(Use(r))
  \/ \E r \in RouterIds : OfRouter(Allow(r))
  \/ \E r \in RouterIds, n \in 1 .. 2 : OfRouter(SetLabel(r, n))
  \/ \E r \in RouterIds, f \in Flags : OfRouter(Enable(r, f, ~ routers[r].flags[f]))
  \/ OfRouter(newSubRouter)
  \/ \E r \in RouterIds, n \in 1 .. 2 : OfRouter(With(r, n))
  \/ \E r \in RouterIds, n \in 0 .. 2 : OfRouter(ResourceRouter(r, n))
  \/ \E r \in RouterIds, path \in Paths : OfRouter(BasePath(r, path))
  \/ \E r \in RouterIds, path \in Paths : OfRouter(Handle(r, <<path>>))
  \/ \E e \in EntryIds : OfRouter(SetAllow(e))
  \/ \E e \in EntryIds : OfRouter(AddLabel(e))
  \/ \E e \in EntryIds, f \in Flags : OfRouter(Decorate(e, f, ~ entries[e].flags[f]))

MapNext ==
  \/ \E c \in Map!Callers, key \in MapKeys,
        v \in {Map!Leaf(2), Map!Ref(held[1]), Map!Ref(held[2])} :
       OfMap(Map!Method("put", c, key, v, Map!Put(held[c], key, v, maps)))
  \/ \E c \in Map!Callers, key \in MapKeys :
       OfMap(Map!Method("delete", c, key, Map!Absent, Map!Delete(held[c], key, maps)))
  \/ \E c \in Map!Callers, key \in MapKeys :
       OfMap(Map!Method("copy", c, key, Map!Absent,
                        Map!CopyFieldsTo(held[c], held[Map!Other(c)], key, maps)))
  \/ \E c \in Map!Callers, key \in MapKeys :
       OfMap(Map!Method("tags", c, key, Map!Absent, Map!AddTagsWithKey(held[c], key, <<1>>, maps)))
  \/ \E c \in Map!Callers :
       OfMap(Map!Method("update", c, Map!FieldsKey, Map!Absent,
                        Map!Update(held[c], held[Map!Other(c)], maps)))
  \/ \E c \in Map!Callers, overwrite \in BOOLEAN, order \in SetToSeqs(MapKeys) :
       OfMap(Map!Method("deep", c, Map!FieldsKey, Map!Absent,
                        Map!DeepUpdate(held[c], held[Map!Other(c)], overwrite, order, maps)))
  \/ \E c \in Map!Callers, underRoot, deep \in BOOLEAN, order \in SetToSeqs(MapKeys) :
       OfMap(Map!Method("merge", c, Map!FieldsKey, Map!Absent,
                        Map!MergeFields(held[c], held[Map!Other(c)], underRoot, deep, order, maps)))
  \/ \E c \in Map!Callers : \E content \in Map!Flattened(held[c], maps) :
       OfMap(Map!Holds(c, Map!NewMap(maps, content)))
  \/ \E c \in Map!Callers : OfMap(Map!Holds(c, Map!MapStrUnion(held[c], held[Map!Other(c)], maps)))
  \/ \E c \in Map!Callers : OfMap(Map!Keep(c))

FormNext ==
  \/ \E t \in FormTypes : OfForm(F!New(t))
  \/ \E form \in BenchForms : OfForm(F!Bind(form))

BenchNext == RouterNext \/ MapNext \/ FormNext

BenchSpec == BenchInit /\ [][BenchNext]_BenchVars

\* Sound for the invariants only; no instance but Router knows of paths.
Symmetry == Permutations(Paths)

-----------------------------------------------------------------------------
(* The properties of the instances, as they are stated there *)

\* StringMap: a clone shares no map with anything.
CloneStands == Map!CloneStands

\* StringMap: an operation that fails changes no map.
AllOrNothing == Map!AllOrNothing

\* FormBinding: a binding sets what was asked for, and nothing half.
BindsWhatWasAsked == F!BindsWhatWasAsked
=============================================================================
