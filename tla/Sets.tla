-------------------------------- MODULE Sets --------------------------------
(***************************************************************************)
(* utils/set: sets as Go maps.  The package has one file per element type, *)
(* Byte, Int, Int32, Int64 and String, each a copy of the same methods;    *)
(* Byte alone differs, in Intersection.                                    *)
(*                                                                         *)
(* A set is a reference.  Callers have a few names for sets; Insert and    *)
(* Delete change the set and return it, so that two names may come to mean *)
(* one set, while the operations of two sets return a new one.             *)
(***************************************************************************)
EXTENDS Naturals, FiniteSets

CONSTANTS
  Names,    \* the names callers have for sets
  Members   \* the elements of sets, in an order that List sorts by

VARIABLES
  type,   \* the type of the sets
  held,   \* the set each name means
  sets,   \* the content of the sets; there are as many as names
  value   \* what the owner of each name may expect of it

setVars == <<type, held, sets, value>>

-----------------------------------------------------------------------------
(* The methods on contents *)

Len(s) == Cardinality(s)
Has(s, x) == x \in s
HasAll(s, items) == \A x \in items : Has(s, x)
HasAny(s, items) == \E x \in items : Has(s, x)
IsSuperset(s, s2) == \A x \in s2 : Has(s, x)
Equal(s, s2) == Len(s) = Len(s2) /\ IsSuperset(s, s2)
Difference(s, s2) == {x \in s : ~ Has(s2, x)}
Union(s, s2) == s \cup s2

\* The smaller one is walked.
Intersection(s, s2) ==
  LET walk == IF Len(s) < Len(s2) THEN s ELSE s2
      other == IF Len(s) < Len(s2) THEN s2 ELSE s
  IN  {x \in walk : Has(other, x)}

Method(name, s, s2) ==
  CASE name = "Insert" -> Union(s, s2)
    [] name = "Delete" -> Difference(s, s2)
    [] name = "Difference" -> Difference(s, s2)
    [] name = "Union" -> Union(s, s2)
    [] name = "Intersection" -> Intersection(s, s2)

\* The five files.
Int(name, s, s2) == Method(name, s, s2)
Int32(name, s, s2) == Method(name, s, s2)
Int64(name, s, s2) == Method(name, s, s2)
String(name, s, s2) == Method(name, s, s2)

\* A smaller set is not walked: the larger one is, and is looked up in itself.
Byte(name, s, s2) ==
  IF name = "Intersection" /\ Len(s) < Len(s2) THEN s2 ELSE Method(name, s, s2)

Types == {"Byte", "Int", "Int32", "Int64", "String"}
Do(name, s, s2) ==
  CASE type = "Byte" -> Byte(name, s, s2)
    [] type = "Int" -> Int(name, s, s2)
    [] type = "Int32" -> Int32(name, s, s2)
    [] type = "Int64" -> Int64(name, s, s2)
    [] type = "String" -> String(name, s, s2)

-----------------------------------------------------------------------------
(* The callers *)

Content(n) == sets[held[n]]
Live(means) == {means[n] : n \in Names}

\* Unnamed sets are gone.
Cleared(content, means) == [r \in Names |-> IF r \in Live(means) THEN content[r] ELSE {}]

Init ==
  /\ type = "none"
  /\ held = [n \in Names |-> n]
  /\ sets = [n \in Names |-> {}]
  /\ value = [n \in Names |-> {}]

Choose(t) ==
  /\ type = "none"
  /\ type' = t
  /\ UNCHANGED <<held, sets, value>>

\* Name to comes to mean a new set; New and KeySet make it of any elements.
Fresh(to, content) ==
  LET others == {held[n] : n \in Names \ {to}}
      r == CHOOSE x \in Names : x \notin others
  IN  /\ held' = [held EXCEPT ![to] = r]
      /\ sets' = Cleared([sets EXCEPT ![r] = content], held')

New(to, items) ==
  /\ type # "none"
  /\ Fresh(to, items)
  /\ value' = [value EXCEPT ![to] = items]
  /\ UNCHANGED type

\* to = from.Insert(items...) or Delete: to means the set of from.
Change(name, to, from, items) ==
  /\ type # "none"
  /\ held' = [held EXCEPT ![to] = held[from]]
  /\ sets' = Cleared([sets EXCEPT ![held[from]] = Do(name, @, items)], held')
  /\ value' = [n \in Names |->
       IF n = to \/ held[n] = held[from]
       THEN IF name = "Insert" THEN value[from] \cup items ELSE value[from] \ items
       ELSE value[n]]
  /\ UNCHANGED type

\* PopAny deletes some element, if there is one.
PopAny(from) ==
  /\ type # "none"
  /\ \E x \in Content(from) :
       /\ sets' = [sets EXCEPT ![held[from]] = Do("Delete", @, {x})]
       /\ value' = [n \in Names |-> IF held[n] = held[from] THEN value[n] \ {x} ELSE value[n]]
  /\ UNCHANGED <<type, held>>

Mathematical(name, s, s2) ==
  CASE name = "Difference" -> s \ s2
    [] name = "Union" -> s \cup s2
    [] name = "Intersection" -> s \cap s2

\* Seeded fault: the result is the receiver, changed.
Combine_InPlace(name, to, a, b) ==
  /\ type # "none"
  /\ held' = [held EXCEPT ![to] = held[a]]
  /\ sets' = Cleared([sets EXCEPT ![held[a]] = Do(name, @, Content(b))], held')
  /\ value' = [value EXCEPT ![to] = Mathematical(name, value[a], value[b])]
  /\ UNCHANGED type

\* to = a.Difference(b), a.Union(b) or a.Intersection(b).
Combine(name, to, a, b) ==
  /\ type # "none"
  /\ Fresh(to, Do(name, Content(a), Content(b)))
  /\ value' = [value EXCEPT ![to] = Mathematical(name, value[a], value[b])]
  /\ UNCHANGED type

Next ==
  \/ \E t \in Types : Choose(t)
  \/ \E to \in Names, items \in SUBSET Members : New(to, items)
  \/ \E name \in {"Insert", "Delete"}, to, from \in Names, items \in SUBSET Members :
       Change(name, to, from, items)
  \/ \E from \in Names : PopAny(from)
  \/ \E name \in {"Difference", "Union", "Intersection"}, to, a, b \in Names : Combine(name, to, a, b)

Spec == Init /\ [][Next]_setVars

-----------------------------------------------------------------------------
(* Properties *)

\* Every name's set is what its owner may expect: the result of an operation of
\* two sets is right and stands on its own, and a set changes only through names
\* that came to mean it; Equal, the superset and the Has tests see just that.
\* (Of Byte this holds without Intersection: byte.go:112-117.)
SetsAreTheirOwn ==
  type # "Byte" => \A n \in Names :
    /\ Content(n) = value[n]
    /\ \A m \in Names :
         /\ Equal(Content(n), Content(m)) <=> value[n] = value[m]
         /\ HasAll(Content(n), Content(m)) <=> value[m] \subseteq value[n]
         /\ HasAny(Content(n), Content(m)) <=> value[m] \cap value[n] # {}

=============================================================================
