------------------------------- MODULE SuiBcs -------------------------------
(***************************************************************************)
(* How a value of a type of SuiTypes becomes bytes and bytes a value, as   *)
(* the generated BcsSerialize and BcsDeserialize do it over serde's        *)
(* runtime, which is external. A struct, a tuple or an array is the        *)
(* sequence of its fields; an enum <<name, fields>> names its variant; an  *)
(* option is a sequence of at most one; a map is a set of pairs. Reading   *)
(* gives the set of <<value, rest>> the bytes begin with: one, or none     *)
(* where the code returns an error.                                        *)
(***************************************************************************)
EXTENDS SuiTypes, SequencesExt

CONSTANT MaxContainerDepth    \* how deep containers may nest

ASSUME DepthAssumption == MaxContainerDepth \in Nat

Shape(s) == IF s.kind = "named" THEN TypeTag ELSE s
-----------------------------------------------------------------------------
(* Writing *)

\* A bit of each byte says whether more follow.
RECURSIVE Uleb(_)
Uleb(n) ==
  LET digits == Size(1) \div 2
  IN  IF n < digits THEN <<n>> ELSE <<digits + (n % digits)>> \o Uleb(n \div digits)

\* bytes.Compare.
Before(a, b) ==
  \/ IsStrictPrefix(a, b)
  \/ \E i \in 1..Min({Len(a), Len(b)}) :
       a[i] < b[i] /\ \A j \in 1..(i - 1) : a[j] = b[j]

SortMapEntries(entries) == SetToSortSeq(entries, Before)

VariantOf(s, name) == SelectSeq(s.variants, LAMBDA v : v.name = name)[1]

\* A value whose enum is unset (nil in Go) has no encoding: Serialize panics.
RECURSIVE Write(_, _)
Write(shape, x) ==
  LET s == Shape(shape)
      Fields(shapes, values) ==
        FlattenSeq([i \in DOMAIN shapes |-> Write(shapes[i], values[i])])
  IN  CASE s.kind = "int"  -> IntBytes(x, s.width)
        [] s.kind = "bool" -> <<IF x THEN 1 ELSE 0>>
        [] s.kind \in {"struct", "tuple"} -> Fields(s.fields, x)
        [] s.kind = "seq" ->
             Uleb(Len(x)) \o FlattenSeq([i \in DOMAIN x |-> Write(s.of, x[i])])
        [] s.kind = "option" ->
             <<Len(x)>> \o FlattenSeq([i \in DOMAIN x |-> Write(s.of, x[i])])
        [] s.kind = "map" ->
             Uleb(Cardinality(x))
             \o FlattenSeq(SortMapEntries({ Write(s.of, entry) : entry \in x }))
        [] s.kind = "enum" ->
             LET v == VariantOf(s, x[1])
             IN  Uleb(v.index) \o Fields(v.fields, x[2])

\* IncreaseContainerDepth and DecreaseContainerDepth, the same calls in
\* Serialize and in load: how deep the containers of a value nest.
RECURSIVE Depth(_, _)
Depth(shape, x) ==
  LET s == Shape(shape)
      Deepest(D) == IF D = {} THEN 0 ELSE Max(D)
      OfFields(shapes, values) ==
        Deepest({ Depth(shapes[i], values[i]) : i \in DOMAIN shapes })
  IN  CASE s.kind \in {"int", "bool"} -> 0
        [] s.kind = "struct" -> 1 + OfFields(s.fields, x)
        [] s.kind = "tuple"  -> OfFields(s.fields, x)
        [] s.kind \in {"seq", "option"} ->
             Deepest({ Depth(s.of, x[i]) : i \in DOMAIN x })
        [] s.kind = "map"  -> Deepest({ Depth(s.of, entry) : entry \in x })
        [] s.kind = "enum" -> 1 + OfFields(VariantOf(s, x[1]).fields, x[2])

\* BcsSerialize: the bytes, or nothing where it returns an error.
BcsSerialize(s, x) == IF Depth(s, x) > MaxContainerDepth THEN {} ELSE {Write(s, x)}
-----------------------------------------------------------------------------
(* Reading *)

ReadInt(width, bytes) ==
  IF Len(bytes) < width THEN {}
  ELSE {<<IntValue(SubSeq(bytes, 1, width)), SubSeq(bytes, width + 1, Len(bytes))>>}

\* No byte that says more follow may be followed by a last digit of zero.
RECURSIVE ReadUleb(_)
ReadUleb(bytes) ==
  LET digits == Size(1) \div 2
  IN  IF bytes = <<>> THEN {}
      ELSE IF Head(bytes) < digits THEN {<<Head(bytes), Tail(bytes)>>}
      ELSE { <<Head(bytes) - digits + digits * r[1], r[2]>> :
               r \in { q \in ReadUleb(Tail(bytes)) : q[1] > 0 } }

\* A bool or an option's tag.
ReadTag(bytes) ==
  IF bytes = <<>> \/ Head(bytes) > 1 THEN {} ELSE {<<Head(bytes), Tail(bytes)>>}

\* CheckThatKeySlicesAreIncreasing.
KeysIncrease(entries, s) ==
  \A i \in 1..(Len(entries) - 1) :
    Before(Write(s.of.fields[1], entries[i][1]), Write(s.of.fields[1], entries[i + 1][1]))

\* A length that the bytes left cannot hold fails when they run out, for no
\* element of a sequence or a map is empty.
RECURSIVE Read(_, _), ReadAll(_, _)
Read(shape, bytes) ==
  LET s == Shape(shape)
      Elements == { r \in ReadUleb(bytes) : r[1] <= Len(r[2]) }
      Times(n) == [i \in 1..n |-> s.of]
  IN  CASE s.kind = "int"  -> ReadInt(s.width, bytes)
        [] s.kind = "bool" -> { <<r[1] = 1, r[2]>> : r \in ReadTag(bytes) }
        [] s.kind \in {"struct", "tuple"} -> ReadAll(s.fields, bytes)
        [] s.kind = "seq" -> UNION { ReadAll(Times(r[1]), r[2]) : r \in Elements }
        [] s.kind = "option" ->
             UNION { ReadAll(Times(r[1]), r[2]) : r \in ReadTag(bytes) }
        [] s.kind = "map" ->
             { <<ToSet(r[1]), r[2]>> :
                 r \in { q \in UNION { ReadAll(Times(r[1]), r[2]) : r \in Elements } :
                           KeysIncrease(q[1], s) } }
        [] s.kind = "enum" ->
             UNION { LET v == s.variants[r[1] + 1]
                     IN  { <<Val(v.name, q[1]), q[2]>> : q \in ReadAll(v.fields, r[2]) } :
                     r \in { q \in ReadUleb(bytes) : q[1] < Len(s.variants) } }

ReadAll(shapes, bytes) ==
  IF shapes = <<>> THEN {<< <<>>, bytes >>}
  ELSE UNION { { << <<r[1]>> \o q[1], q[2] >> : q \in ReadAll(Tail(shapes), r[2]) } :
                 r \in Read(Head(shapes), bytes) }

\* BcsDeserialize: what all of the bytes say, with no byte left over.
BcsDeserialize(s, bytes) ==
  { r[1] : r \in { q \in Read(s, bytes) :
                     q[2] = <<>> /\ Depth(s, q[1]) <= MaxContainerDepth } }
-----------------------------------------------------------------------------
(* Values to check the codec with. *)

\* Values of a type in which each variant of each enum inside it, each option,
\* and empty, short and long sequences and maps occur, one at a time; types
\* nest in types as deep as fuel lasts.
RECURSIVE Samples(_, _), FieldSamples(_, _)
Samples(s, fuel) ==
  LET Some == Samples(s.of, fuel)
      Flat == { i \in DOMAIN TypeTag.variants : TypeTag.variants[i].fields = <<>> }
  IN  CASE s.kind = "int"  -> {0, 1, Size(s.width) - 1}
        [] s.kind = "bool" -> BOOLEAN
        [] s.kind \in {"struct", "tuple"} -> FieldSamples(s.fields, fuel)
        [] s.kind = "seq" ->
             {<<>>} \cup { <<x>> : x \in Some }
             \cup { [i \in 1..(Size(1) \div 2) |-> CHOOSE x \in Some : TRUE] }
        [] s.kind = "option" -> {<<>>} \cup { <<x>> : x \in Some }
        [] s.kind = "map" ->
             {{}} \cup { {p[1], p[2]} : p \in { q \in Some \X Some : q[1] = q[2] \/ q[1][1] # q[2][1] } }
        [] s.kind = "enum" ->
             UNION { { Val(v.name, x) : x \in FieldSamples(v.fields, fuel) } :
                       v \in ToSet(s.variants) }
        [] s.kind = "named" ->
             IF fuel > 0 THEN Samples(TypeTag, fuel - 1)
             ELSE { Val(TypeTag.variants[i].name, <<>>) : i \in Flat }

FieldSamples(shapes, fuel) ==
  LET first == Samples(Head(shapes), fuel)
      rest  == FieldSamples(Tail(shapes), fuel)
      x0 == CHOOSE x \in first : TRUE
      y0 == CHOOSE y \in rest : TRUE
  IN  IF shapes = <<>> THEN {<<>>}
      ELSE { <<x>> \o y0 : x \in first } \cup { <<x0>> \o y : y \in rest }

\* Of the samples that can be written, each is read as written, and so is the
\* intent message that has three zeros before it.
SamplesReadAsWritten ==
  \A x \in Samples(TransactionData, 1) :
    \A bytes \in BcsSerialize(TransactionData, x) :
      /\ BcsDeserialize(TransactionData, bytes) = {x}
      /\ BcsDeserialize(IntentMessage, <<0, 0, 0>> \o bytes) = { << <<0, 0, 0>>, x >> }
=============================================================================
