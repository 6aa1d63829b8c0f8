----------------------------- MODULE FormBinding -----------------------------
(***************************************************************************)
(* http/build/form.mapping.go: binding the values of a form (or a path, or *)
(* a header) to the fields of an object, any number of times: a handler    *)
(* binds the path, then the query, to one object.                          *)
(*                                                                         *)
(* A text of the form is one of a few; what strconv, time and JSON make of *)
(* it (external) is Number and JSON below.  A type is a record of its kind *)
(* and of its elem (of a pointer, slice, array or map), len or fields.     *)
(* Slices, arrays and structs are tuples of values, a map is a function    *)
(* from names, nil or empty; a pointer is <<>> if it is nil and the tuple  *)
(* of what it points to if not.                                            *)
(***************************************************************************)
EXTENDS Naturals, Sequences, TLC

CONSTANTS
  Types,     \* the types of the objects bound to: structs, or maps
  Forms,     \* the forms: functions from keys to sequences of texts
  MaxBinds   \* bound on the bindings of one object

VARIABLES
  type,     \* the type of the object
  object,   \* its value
  bound     \* the bindings so far: form, object before, and error

formVars == <<type, object, bound>>

NoText == "no text"
Number == "1" :> 1 @@ "2" :> 2 @@ "300" :> 300   \* the texts that are numbers
MaxInt8 == 127

\* The texts that are JSON objects, whose members are numbers.  (One for a time
\* would end the decoding there; no type here has that.)
JSON == "{}" :> <<>> @@ "{b:1}" :> ("b" :> 1) @@ "{a:300,b:2}" :> ("a" :> 300 @@ "b" :> 2)

RECURSIVE Zero(_)
Zero(t) ==
  CASE t.kind \in {"int8", "time", "unix"} -> 0
    [] t.kind = "string" -> ""
    [] t.kind \in {"slice", "ptr", "map"} -> <<>>
    [] t.kind = "array" -> [i \in 1 .. t.len |-> Zero(t.elem)]
    [] t.kind = "struct" -> [i \in DOMAIN t.fields |-> Zero(t.fields[i].type)]
    [] OTHER -> "zero"

Set(v) == [set |-> TRUE, err |-> FALSE, v |-> v]
NotSet(v) == [set |-> FALSE, err |-> FALSE, v |-> v]
Error(v) == [set |-> FALSE, err |-> TRUE, v |-> v]

-----------------------------------------------------------------------------
(* One value *)

\* The number types take no text for zero and mind their width.
setIntField(text, v) ==
  IF text = "" THEN Set(0)
  ELSE IF text \in DOMAIN Number /\ Number[text] <= MaxInt8 THEN Set(Number[text]) ELSE Error(v)

\* A time in words may be missing, one counted in seconds (or a duration) not.
setTimeField(text, t, v) ==
  IF text = "" /\ t.kind = "time" THEN Set(0)
  ELSE IF text \in DOMAIN Number THEN Set(Number[text]) ELSE Error(v)

\* What json.Unmarshal makes of a number in a place of type t: it makes the
\* pointer, minds the width, and leaves the place if the number is not for it.
RECURSIVE Member(_, _, _)
Member(n, t, v) ==
  CASE t.kind = "int8" /\ n <= MaxInt8 -> Set(n)
    [] t.kind = "ptr" -> LET r == Member(n, t.elem, IF v = <<>> THEN Zero(t.elem) ELSE Head(v))
                         IN  [r EXCEPT !.v = <<@>>]
    [] OTHER -> Error(v)

\* json.Unmarshal: a text that is no object changes nothing, but a member that
\* its place cannot take does not keep the others from theirs.  In a map its
\* place is zero then.
Unmarshal(text, t, v) ==
  LET members == JSON[text]
      Named(i) == t.fields[i].exported /\ t.fields[i].key \in DOMAIN members
      rs == IF t.kind = "map" THEN [k \in DOMAIN members |-> Member(members[k], t.elem, Zero(t.elem))]
            ELSE [i \in {j \in DOMAIN v : Named(j)} |->
                    Member(members[t.fields[i].key], t.fields[i].type, v[i])]
      w == [x \in DOMAIN rs |-> rs[x].v] @@ v
  IN  IF text \notin DOMAIN JSON THEN Error(v)
      ELSE IF \E x \in DOMAIN rs : rs[x].err THEN Error(w) ELSE Set(w)

setWithProperType(text, t, v) ==
  CASE t.kind = "int8" -> setIntField(text, v)
    [] t.kind \in {"time", "unix"} -> setTimeField(text, t, v)
    [] t.kind = "string" -> Set(text)
    [] t.kind \in {"struct", "map"} -> Unmarshal(text, t, v)
    [] OTHER -> Error(v)

\* The array with the elements before the first that cannot be converted set.
setArray(texts, t, array) ==
  LET upTo[i \in 0 .. Len(texts)] ==
        IF i = 0 THEN Set(array)
        ELSE LET r == setWithProperType(texts[i], t.elem, array[i])
             IN  IF upTo[i - 1].err THEN upTo[i - 1]
                 ELSE [r EXCEPT !.v = [upTo[i - 1].v EXCEPT ![i] = r.v]]
  IN  upTo[Len(texts)]

\* Seeded fault: the slice is kept although an element was refused.
setSlice_Keeps(texts, t, v) == setArray(texts, t, [i \in DOMAIN texts |-> Zero(t.elem)])

setSlice(texts, t, v) ==
  LET r == setArray(texts, t, [i \in DOMAIN texts |-> Zero(t.elem)])
  IN  IF r.err THEN Error(v) ELSE r

\* A list of texts that is there but empty counts as one empty text.
setByForm(field, v, form) ==
  LET given == field.key \in DOMAIN form
      texts == IF given THEN form[field.key] ELSE <<field.default>>
      t == field.type
  IN  IF ~ given /\ field.default = NoText THEN NotSet(v)
      ELSE CASE t.kind = "slice" -> setSlice(texts, t, v)
             [] t.kind = "array" -> IF Len(texts) # t.len THEN Error(v) ELSE setArray(texts, t, v)
             [] OTHER -> setWithProperType(IF texts = <<>> THEN "" ELSE Head(texts), t, v)

\* Only the object itself has neither a tag nor a name.
tryToSetValue(field, v, form) == IF field.key = "" THEN NotSet(v) ELSE setByForm(field, v, form)

-----------------------------------------------------------------------------
(* An object *)

\* Exported fields and embedded structs are walked.
Walked(field) == field.exported \/ field.anonymous

\* mapping.  A pointer that is nil is set only to something that was set without
\* an error.  A struct is looked up as a whole unless it is embedded, and then
\* field by field up to the first error.
RECURSIVE mapping(_, _, _)
mapping(field, v, form) ==
  LET t == field.type
      byFields[i \in 0 .. Len(v)] ==
        IF i = 0 THEN NotSet(v)
        ELSE LET before == byFields[i - 1]
                 r == mapping(t.fields[i], before.v[i], form)
             IN  IF before.err \/ ~ Walked(t.fields[i]) THEN before
                 ELSE [set |-> before.set \/ r.set, err |-> r.err, v |-> [before.v EXCEPT ![i] = r.v]]
  IN  IF field.skip THEN NotSet(v)
      ELSE IF t.kind = "ptr"
      THEN LET r == mapping([field EXCEPT !.type = t.elem],
                            IF v = <<>> THEN Zero(t.elem) ELSE Head(v), form)
           IN  [r EXCEPT !.v = IF v = <<>> /\ (r.err \/ ~ r.set) THEN <<>> ELSE <<@>>]
      ELSE LET whole == IF t.kind = "struct" /\ field.anonymous THEN NotSet(v)
                        ELSE tryToSetValue(field, v, form)
           IN  IF t.kind # "struct" \/ whole.set \/ whole.err THEN whole ELSE byFields[Len(v)]

\* The object as a field: it has no tag and no name.
emptyField(t) == [key |-> "", default |-> NoText, skip |-> FALSE, exported |-> TRUE,
                  anonymous |-> FALSE, type |-> t]

\* A map takes a key's texts, or the last of them, which must exist.
setFormMap(t, m, form) ==
  IF t.kind = "map of lists" THEN Set(form @@ m)
  ELSE IF \E k \in DOMAIN form : form[k] = <<>> THEN Error(m)
  ELSE Set([k \in DOMAIN form |-> form[k][Len(form[k])]] @@ m)

mapFormByTag(t, v, form) ==
  IF t.kind = "struct" THEN mapping(emptyField(t), v, form) ELSE setFormMap(t, v, form)

-----------------------------------------------------------------------------

Init == type = [kind |-> "none"] /\ object = <<>> /\ bound = <<>>

New(t) ==
  /\ type.kind = "none"
  /\ type' = t
  /\ object' = IF t.kind = "struct" THEN Zero(t) ELSE <<>>
  /\ UNCHANGED bound

\* MapFormWithTag; into a map of strings an empty list makes it panic.
Bind(form) ==
  /\ type.kind # "none" /\ Len(bound) < MaxBinds
  /\ LET r == mapFormByTag(type, object, form)
     IN  /\ object' = r.v
         /\ bound' = Append(bound, [form |-> form, before |-> object, err |-> r.err])
  /\ UNCHANGED type

Next ==
  \/ \E t \in Types : New(t)
  \/ \E form \in Forms : Bind(form)

Spec == Init /\ [][Next]_formVars

-----------------------------------------------------------------------------
(* Properties *)

\* The field itself is asked for, by its texts or its default.
Asked(field, form) ==
  /\ ~ field.skip /\ field.type.kind # "ptr" /\ ~ (field.anonymous /\ field.type.kind = "struct")
  /\ field.key \in DOMAIN form \/ field.default # NoText

\* Something in the field, or in one below it, is asked for.
RECURSIVE AskedWithin(_, _)
AskedWithin(field, form) ==
  LET t == field.type IN
  /\ ~ field.skip /\ Walked(field)
  /\ \/ Asked(field, form)
     \/ t.kind = "ptr" /\ AskedWithin([field EXCEPT !.type = t.elem], form)
     \/ t.kind = "struct" /\ \E i \in DOMAIN t.fields : AskedWithin(t.fields[i], form)

\* The field went from v to w in a binding that was right about it: everything
\* that was asked for is set and everything else is as it was.
RECURSIVE Right(_, _, _, _)
Right(field, v, w, form) ==
  LET t == field.type IN
  IF ~ AskedWithin(field, form) THEN w = v
  ELSE CASE t.kind = "ptr" ->
              w # <<>> /\ Right([field EXCEPT !.type = t.elem],
                                IF v = <<>> THEN Zero(t.elem) ELSE Head(v), Head(w), form)
         [] t.kind = "struct" /\ ~ Asked(field, form) ->
              \A i \in DOMAIN t.fields : Right(t.fields[i], v[i], w[i], form)
         [] OTHER -> w = setByForm(field, v, form).v /\ ~ setByForm(field, v, form).err

\* The names in the JSON text that a field is asked to become, if it is one.
NamedFor(field, form) ==
  LET given == field.key \in DOMAIN form
      text == IF ~ given THEN field.default
              ELSE IF form[field.key] = <<>> THEN "" ELSE Head(form[field.key])
  IN  IF text \in DOMAIN JSON THEN DOMAIN JSON[text] ELSE {}

\* The field went from v to w in a binding that failed: a slice and what a
\* pointer was nil for are right or as they were, never in between.  A struct
\* or a map that was asked to become a JSON text may be, because Unmarshal
\* goes on after an error, but only in what the text names.
RECURSIVE NotHalfway(_, _, _, _)
NotHalfway(field, v, w, form) ==
  LET t == field.type IN
  CASE t.kind = "struct" /\ ~ Asked(field, form) ->
         \A i \in DOMAIN t.fields : NotHalfway(t.fields[i], v[i], w[i], form)
    [] t.kind = "ptr" /\ v # <<>> ->
         w # <<>> /\ NotHalfway([field EXCEPT !.type = t.elem], Head(v), Head(w), form)
    [] t.kind = "struct" ->
         \A i \in DOMAIN t.fields : t.fields[i].key \in NamedFor(field, form) \/ w[i] = v[i]
    [] t.kind = "map" ->
         \A k \in (DOMAIN v \cup DOMAIN w) \ NamedFor(field, form) :
           k \in DOMAIN v /\ k \in DOMAIN w /\ w[k] = v[k]
    [] t.kind = "array" -> TRUE
    [] OTHER -> w = v \/ Right(field, v, w, form)

\* A binding that succeeds sets what was asked for and nothing else, after any
\* bindings before it, failed ones too; one that fails may have set the fields
\* before the one at fault, but leaves no slice and no new pointer half set, and
\* of an object that is there and a JSON text fails in, nothing it does not name.
BindsWhatWasAsked ==
  bound # <<>> /\ type.kind = "struct" =>
    LET b == bound[Len(bound)] IN
    IF b.err THEN \A i \in DOMAIN type.fields :
                    NotHalfway(type.fields[i], b.before[i], object[i], b.form)
    ELSE \A i \in DOMAIN type.fields : Right(type.fields[i], b.before[i], object[i], b.form)

=============================================================================
