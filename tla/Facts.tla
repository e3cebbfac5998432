------------------------------- MODULE Facts -------------------------------
(***************************************************************************)
(* Facts that the proofs of several modules rest on: sequences whose       *)
(* elements have no common type known, induction, and sums over finite     *)
(* sets. The induction lemmas are about a set that holds 0, or the empty   *)
(* set, and is closed under a step, so that they can be used without       *)
(* instantiating an operator.                                              *)
(***************************************************************************)
EXTENDS Integers, Sequences, Functions, FunctionTheorems, FiniteSetTheorems,
        SequenceTheorems, WellFoundedInduction, TLAPS

(* Sequences *)

IsSeq(s) == Len(s) \in Nat /\ s = [k \in 1..Len(s) |-> s[k]]

\* Every such sequence is one over the set of its own elements.
LEMMA SeqOfItsElements ==
  ASSUME NEW s, IsSeq(s)
  PROVE  s \in Seq({ s[k] : k \in 1..Len(s) })
<1>1. s \in [1..Len(s) -> { s[k] : k \in 1..Len(s) }]
  BY DEF IsSeq
<1> QED
  BY <1>1 DEF IsSeq

LEMMA SeqIsSeq ==
  ASSUME NEW T, NEW s \in Seq(T)
  PROVE  IsSeq(s)
<1>1. Len(s) \in Nat /\ s \in [1..Len(s) -> T]
  OBVIOUS
<1> QED
  BY <1>1 DEF IsSeq

\* What Append returns and keeps.
LEMMA AppendFacts ==
  ASSUME NEW s, IsSeq(s), NEW e
  PROVE  /\ IsSeq(Append(s, e))
         /\ Len(Append(s, e)) = Len(s) + 1
         /\ Append(s, e)[Len(s) + 1] = e
         /\ \A k \in 1..Len(s) : Append(s, e)[k] = s[k]
<1> DEFINE S == { s[k] : k \in 1..Len(s) }
           T == S \cup {e}
<1>1. s \in Seq(S)
  BY SeqOfItsElements
<1>2. s \in Seq(T) /\ e \in T
  BY <1>1
<1> HIDE DEF S, T
<1>3. /\ Append(s, e) \in Seq(T)
      /\ Len(Append(s, e)) = Len(s) + 1
      /\ Append(s, e)[Len(s) + 1] = e
      /\ \A k \in 1..Len(s) : Append(s, e)[k] = s[k]
  BY <1>2
<1> QED
  BY <1>3, SeqIsSeq

\* A sequence that t begins with is a prefix of t.
LEMMA PrefixFacts ==
  ASSUME NEW s, IsSeq(s), NEW t, IsSeq(t), Len(s) <= Len(t),
         \A k \in 1..Len(s) : t[k] = s[k]
  PROVE  SubSeq(t, 1, Len(s)) = s
<1> DEFINE p == SubSeq(t, 1, Len(s))
<1>1. t \in Seq({ t[k] : k \in 1..Len(t) }) /\ Len(s) \in Nat /\ Len(t) \in Nat
  BY SeqOfItsElements DEF IsSeq
<1>2. p = [k \in 1..Len(s) |-> t[k]]
  BY <1>1
<1> QED
  BY <1>2 DEF IsSeq

\* A list of one, or of none, and another of one.
LEMMA Joined ==
  ASSUME NEW a, NEW b
  PROVE  <<a>> \o <<b>> = <<a, b>> /\ << >> \o <<b>> = <<b>>
<1> DEFINE T == {a, b}
<1>1. <<a>> \in Seq(T) /\ <<b>> \in Seq(T) /\ << >> \in Seq(T) /\ <<a, b>> \in Seq(T)
  OBVIOUS
<1>2. Len(<<a>>) = 1 /\ Len(<<b>>) = 1 /\ Len(<< >>) = 0 /\ Len(<<a, b>>) = 2
  OBVIOUS
<1>3. <<a>>[1] = a /\ <<b>>[1] = b /\ <<a, b>>[1] = a /\ <<a, b>>[2] = b
  OBVIOUS
<1>4. << >> \o <<b>> = <<b>>
  BY <1>1
<1> DEFINE s == <<a>> 
           t == <<b>>
           u == s \o t
           v == <<a, b>>
<1>5. u \in Seq(T) /\ Len(u) = 2 /\ u[1] = a /\ u[2] = b
  <2>1. s \in Seq(T) /\ t \in Seq(T) /\ Len(s) = 1 /\ Len(t) = 1 /\ s[1] = a /\ t[1] = b
    BY <1>1, <1>2, <1>3
  <2> HIDE DEF s, t, T
  <2>2. /\ u \in Seq(T) /\ Len(u) = Len(s) + Len(t)
        /\ \A i \in 1 .. Len(s) + Len(t) : u[i] = IF i <= Len(s) THEN s[i] ELSE t[i - Len(s)]
    BY <2>1, ConcatProperties
  <2> QED BY <2>1, <2>2
<1>6. u = v
  <2> v \in Seq(T) /\ Len(v) = 2 /\ v[1] = a /\ v[2] = b
     BY <1>1, <1>2, <1>3
  <2> HIDE DEF u, v, T
  <2>1. u = [i \in 1..2 |-> u[i]] /\ v = [i \in 1..2 |-> v[i]]
    BY <1>5
  <2>2. \A i \in 1..2 : i = 1 \/ i = 2
    OBVIOUS
  <2> QED BY <1>5, <2>1, <2>2
<1> QED BY <1>4, <1>6
-----------------------------------------------------------------------------
(* Induction *)

\* Induction over the numbers, for a set instead of a predicate.
LEMMA NatSetInduction ==
  ASSUME NEW S, 0 \in S, \A n \in Nat : n \in S => n + 1 \in S
  PROVE  Nat \subseteq S
<1> DEFINE T == Nat \ S
           R == OpToRel(<, Nat)
<1> SUFFICES ASSUME T # {} PROVE FALSE
  OBVIOUS
<1>1. IsWellFoundedOn(R, Nat)
  BY NatLessThanWellFounded
<1>2. T \subseteq Nat
  OBVIOUS
<1>3. \E x \in T : \A y \in T : ~ (<<y, x>> \in R)
  <2> HIDE DEF T, R
  <2> QED BY <1>1, <1>2, WFMin
<1>4. \A x, y \in Nat : y < x => <<y, x>> \in R
  BY DEF OpToRel
<1>5. \E x \in T : \A y \in T : ~ (y < x)
  BY <1>3, <1>4, <1>2
<1> HIDE DEF R
<1>6. PICK x \in Nat \ S : \A y \in Nat \ S : ~ (y < x)
  BY <1>5
<1>7. x \in Nat /\ x # 0 /\ x - 1 \in Nat /\ x - 1 < x
  BY <1>6
<1>8. x - 1 \in S
  BY <1>6, <1>7
<1> QED BY <1>6, <1>7, <1>8

\* A set of numbers that has any has a least one.
LEMMA LeastNumber ==
  ASSUME NEW S \in SUBSET Nat, S # {}
  PROVE  \E n \in S : \A m \in Nat : m < n => m \notin S
<1> DEFINE None == { n \in Nat : \A m \in Nat : m <= n => m \notin S }
<1> SUFFICES ASSUME ~ \E n \in S : \A m \in Nat : m < n => m \notin S
             PROVE  FALSE
  OBVIOUS
<1>1. 0 \in None
  OBVIOUS
<1>2. \A n \in Nat : n \in None => n + 1 \in None
  OBVIOUS
<1>3. Nat \subseteq None
  <2> HIDE DEF None
  <2> QED BY <1>1, <1>2, NatSetInduction
<1>4. PICK n \in S : TRUE
  OBVIOUS
<1>5. n \in Nat /\ n \in None
  BY <1>3
<1> QED BY <1>5

\* Induction over the subsets of a finite set, by their size.
LEMMA SubsetInduction ==
  ASSUME NEW S, IsFiniteSet(S), NEW P,
         {} \in P,
         \A T \in SUBSET S : T # {} /\ (\A x \in T : T \ {x} \in P) => T \in P
  PROVE  SUBSET S \subseteq P
<1> DEFINE N == { n \in Nat : \A T \in SUBSET S : Cardinality(T) = n => T \in P }
<1>1. \A T \in SUBSET S : IsFiniteSet(T) /\ Cardinality(T) \in Nat
  BY FS_Subset, FS_CardinalityType
<1>2. 0 \in N
  BY <1>1, FS_EmptySet
<1>3. ASSUME NEW n \in Nat, n \in N PROVE n + 1 \in N
  <2> SUFFICES ASSUME NEW T \in SUBSET S, Cardinality(T) = n + 1 PROVE T \in P
    OBVIOUS
  <2>1. IsFiniteSet(T) /\ T # {}
    BY <1>1, FS_EmptySet
  <2>2. ASSUME NEW x \in T PROVE T \ {x} \in P
    <3>1. Cardinality(T \ {x}) = Cardinality(T) - 1
      BY <2>1, FS_RemoveElement
    <3> QED BY <3>1, <1>3
  <2> QED BY <2>1, <2>2
<1>4. Nat \subseteq N
  <2> HIDE DEF N
  <2> QED BY <1>2, <1>3, NatSetInduction
<1> QED BY <1>1, <1>4
-----------------------------------------------------------------------------
(* Sums *)

Chosen(s) == CHOOSE x \in s : TRUE

\* The equation by which SumFunctionOnSet(g, S) is defined.
Sums(f, g, S) ==
  f = [s \in SUBSET S |-> IF s = {} THEN 0 ELSE g[Chosen(s)] + f[s \ {Chosen(s)}]]

LEMMA SumsExist ==
  ASSUME NEW g, NEW S, IsFiniteSet(S)
  PROVE  \E f : Sums(f, g, S)
<1> DEFINE Next(f) == [s \in SUBSET S |-> IF s = {} THEN 0 ELSE g[Chosen(s)] + f[s \ {Chosen(s)}]]
           Upto(f, n) == \A s \in SUBSET S : Cardinality(s) <= n => f[s] = Next(f)[s]
           N == { n \in Nat : \E f : f = [s \in SUBSET S |-> f[s]] /\ Upto(f, n) }
<1>1. \A s \in SUBSET S : IsFiniteSet(s) /\ Cardinality(s) \in Nat /\ Cardinality(s) <= Cardinality(S)
  BY FS_Subset, FS_CardinalityType
<1>2. \A s \in SUBSET S : s # {} => /\ Chosen(s) \in s
                                    /\ s \ {Chosen(s)} \in SUBSET S
                                    /\ Cardinality(s \ {Chosen(s)}) = Cardinality(s) - 1
  <2> TAKE s \in SUBSET S
  <2> HAVE s # {}
  <2>1. Chosen(s) \in s
    BY DEF Chosen
  <2> QED BY <2>1, <1>1, FS_RemoveElement
<1>3. 0 \in N
  <2> DEFINE f == [s \in SUBSET S |-> 0]
  <2>1. \A s \in SUBSET S : Cardinality(s) <= 0 => s = {}
    BY <1>1, FS_EmptySet
  <2>2. Upto(f, 0)
    BY <2>1
  <2>3. f = [s \in SUBSET S |-> f[s]]
    OBVIOUS
  <2> QED BY <2>2, <2>3
<1>4. ASSUME NEW n \in Nat, n \in N PROVE n + 1 \in N
  <2>1. PICK f : f = [s \in SUBSET S |-> f[s]] /\ Upto(f, n)
    BY <1>4
  <2> DEFINE h == Next(f)
  <2>2. h = [s \in SUBSET S |-> h[s]]
    OBVIOUS
  <2>3. Upto(h, n + 1)
    <3> SUFFICES ASSUME NEW s \in SUBSET S, Cardinality(s) <= n + 1, s # {}
                 PROVE  h[s] = Next(h)[s]
      OBVIOUS
    <3> DEFINE r == s \ {Chosen(s)}
    <3>1. r \in SUBSET S /\ Cardinality(r) <= n
      BY <1>1, <1>2
    <3>2. f[r] = h[r]
      BY <2>1, <3>1
    <3> QED BY <3>1, <3>2
  <2> HIDE DEF Next
  <2>4. \E e : e = [s \in SUBSET S |-> e[s]] /\ Upto(e, n + 1)
    <3> WITNESS h
    <3> HIDE DEF h, Upto
    <3> QED BY <2>2, <2>3
  <2> HIDE DEF Upto
  <2> QED BY <2>4
<1>5. Cardinality(S) \in N
  <2> HIDE DEF N
  <2>1. Nat \subseteq N
    BY <1>3, <1>4, NatSetInduction
  <2> QED BY <2>1, FS_CardinalityType
<1>6. PICK f : f = [s \in SUBSET S |-> f[s]] /\ Upto(f, Cardinality(S))
  BY <1>5
<1>7. \A s \in SUBSET S : f[s] = Next(f)[s]
  BY <1>1, <1>6
<1>8. f = Next(f)
  BY <1>6, <1>7
<1> QED BY <1>8 DEF Sums

LEMMA SumsAreUnique ==
  ASSUME NEW g, NEW S, IsFiniteSet(S), NEW T \in SUBSET S,
         NEW f, Sums(f, g, S), NEW h, Sums(h, g, T)
  PROVE  f[T] = h[T]
<1> DEFINE P == { U \in SUBSET T : f[U] = h[U] }
<1>1. IsFiniteSet(T)
  BY FS_Subset
<1>2. {} \in P
  BY DEF Sums
<1> DEFINE N == { n \in Nat : \A U \in SUBSET T : Cardinality(U) = n => U \in P }
<1>3. \A U \in SUBSET T : IsFiniteSet(U) /\ Cardinality(U) \in Nat
  BY <1>1, FS_Subset, FS_CardinalityType
<1>4. 0 \in N
  BY <1>2, <1>3, FS_EmptySet
<1>5. ASSUME NEW n \in Nat, n \in N PROVE n + 1 \in N
  <2> SUFFICES ASSUME NEW U \in SUBSET T, Cardinality(U) = n + 1 PROVE U \in P
    OBVIOUS
  <2>1. U # {} /\ Chosen(U) \in U
    BY FS_EmptySet DEF Chosen
  <2>5. IsFiniteSet(U) /\ Cardinality(U \ {Chosen(U)}) = Cardinality(U) - 1
    BY <2>1, <1>3, FS_RemoveElement
  <2>2. Cardinality(U \ {Chosen(U)}) = n /\ U \ {Chosen(U)} \in SUBSET T
    BY <2>5
  <2>3. f[U \ {Chosen(U)}] = h[U \ {Chosen(U)}]
    BY <1>5, <2>2
  <2>4. /\ f[U] = g[Chosen(U)] + f[U \ {Chosen(U)}]
        /\ h[U] = g[Chosen(U)] + h[U \ {Chosen(U)}]
    BY <2>1 DEF Sums
  <2> QED BY <2>3, <2>4
<1>6. Nat \subseteq N
  <2> HIDE DEF N
  <2> QED BY <1>4, <1>5, NatSetInduction
<1>7. T \in P
  BY <1>3, <1>6
<1> QED BY <1>7

LEMMA SumOfAll ==
  ASSUME NEW g, NEW S, IsFiniteSet(S)
  PROVE  \E f : Sums(f, g, S) /\ SumFunctionOnSet(g, S) = f[S]
<1> DEFINE F == CHOOSE f : Sums(f, g, S)
<1>1. Sums(F, g, S)
  BY SumsExist, Zenon
<1> HIDE DEF F
<1>2. SumFunctionOnSet(g, S) = (CHOOSE f : Sums(f, g, S))[S]
  BY DEF SumFunctionOnSet, FoldFunctionOnSet, MapThenFoldSet, Sums, Chosen
<1> QED BY <1>1, <1>2 DEF F

\* The sum over a set takes one of its members first.
LEMMA SumTakesChosen ==
  ASSUME NEW g, NEW S, IsFiniteSet(S)
  PROVE  SumFunctionOnSet(g, S) =
           IF S = {} THEN 0
           ELSE g[Chosen(S)] + SumFunctionOnSet(g, S \ {Chosen(S)})
<1> DEFINE T == S \ {Chosen(S)}
<1>1. IsFiniteSet(T) /\ T \in SUBSET S
  BY FS_RemoveElement
<1>2. PICK f : Sums(f, g, S) /\ SumFunctionOnSet(g, S) = f[S]
  BY SumOfAll
<1>3. PICK h : Sums(h, g, T) /\ SumFunctionOnSet(g, T) = h[T]
  BY <1>1, SumOfAll
<1>4. f[T] = h[T]
  BY <1>1, <1>2, <1>3, SumsAreUnique
<1>5. f[S] = IF S = {} THEN 0 ELSE g[Chosen(S)] + f[T]
  BY <1>2 DEF Sums
<1> QED BY <1>2, <1>3, <1>4, <1>5

LEMMA SumEmpty == ASSUME NEW g PROVE SumFunctionOnSet(g, {}) = 0
  BY SumTakesChosen, FS_EmptySet

\* The sum of numbers of a kind that addition stays in is one of them.
LEMMA SumType ==
  ASSUME NEW S, IsFiniteSet(S), NEW D, 0 \in D, \A m, n \in D : m + n \in D,
         NEW g, \A x \in S : g[x] \in D
  PROVE  \A T \in SUBSET S : SumFunctionOnSet(g, T) \in D
<1> DEFINE Sum(T) == SumFunctionOnSet(g, T)
           P == { T \in SUBSET S : Sum(T) \in D }
<1>1. {} \in P
  BY SumEmpty
<1>2. ASSUME NEW T \in SUBSET S, T # {}, \A x \in T : T \ {x} \in P
      PROVE  T \in P
  <2>1. Chosen(T) \in T /\ Sum(T) = g[Chosen(T)] + Sum(T \ {Chosen(T)})
    BY <1>2, FS_Subset, SumTakesChosen DEF Chosen
  <2> QED BY <2>1, <1>2
<1> HIDE DEF P
<1>3. SUBSET S \subseteq P
  BY <1>1, <1>2, SubsetInduction
<1> QED BY <1>3 DEF P

LEMMA SumOfNats ==
  ASSUME NEW S, IsFiniteSet(S), NEW g, \A x \in S : g[x] \in Nat
  PROVE  \A T \in SUBSET S : SumFunctionOnSet(g, T) \in Nat
<1>1. 0 \in Nat /\ \A m, n \in Nat : m + n \in Nat
  OBVIOUS
<1> QED BY <1>1, SumType

LEMMA SumOfInts ==
  ASSUME NEW S, IsFiniteSet(S), NEW g, \A x \in S : g[x] \in Int
  PROVE  \A T \in SUBSET S : SumFunctionOnSet(g, T) \in Int
<1>1. 0 \in Int /\ \A m, n \in Int : m + n \in Int
  OBVIOUS
<1> QED BY <1>1, SumType

\* A sum of integers may take any of its members first.
LEMMA SumTakesAny ==
  ASSUME NEW S, IsFiniteSet(S), NEW g, \A x \in S : g[x] \in Int, NEW y \in S
  PROVE  SumFunctionOnSet(g, S) = g[y] + SumFunctionOnSet(g, S \ {y})
<1> DEFINE Sum(T) == SumFunctionOnSet(g, T)
           P == { T \in SUBSET S : \A x \in T : Sum(T) = g[x] + Sum(T \ {x}) }
<1>1. \A T \in SUBSET S : IsFiniteSet(T) /\ Sum(T) \in Int
  BY SumOfInts, FS_Subset
<1>2. {} \in P
  OBVIOUS
<1>3. ASSUME NEW T \in SUBSET S, T # {}, \A x \in T : T \ {x} \in P
      PROVE  T \in P
  <2> DEFINE c == Chosen(T)
  <2>1. c \in T /\ Sum(T) = g[c] + Sum(T \ {c})
    BY <1>1, <1>3, SumTakesChosen DEF Chosen
  <2> HIDE DEF c, Sum
  <2> SUFFICES ASSUME NEW x \in T, x # c PROVE Sum(T) = g[x] + Sum(T \ {x})
    BY <2>1
  <2>2. Sum(T \ {c}) = g[x] + Sum((T \ {c}) \ {x})
    BY <2>1, <1>3
  <2>3. Sum(T \ {x}) = g[c] + Sum((T \ {x}) \ {c})
    BY <2>1, <1>3
  <2>4. (T \ {c}) \ {x} = (T \ {x}) \ {c} /\ (T \ {c}) \ {x} \in SUBSET S
    OBVIOUS
  <2>5. PICK rest \in Int : Sum((T \ {c}) \ {x}) = rest /\ Sum((T \ {x}) \ {c}) = rest
    BY <2>4, <1>1
  <2>6. g[x] \in Int /\ g[c] \in Int
    BY <2>1
  <2>7. Sum(T) = g[c] + (g[x] + rest) /\ Sum(T \ {x}) = g[c] + rest
    BY <2>1, <2>2, <2>3, <2>5
  <2> QED BY <2>5, <2>6, <2>7
<1> HIDE DEF P
<1>4. SUBSET S \subseteq P
  BY <1>2, <1>3, SubsetInduction
<1> QED BY <1>4 DEF P

\* Values that are the same have the same sum.
LEMMA SumSame ==
  ASSUME NEW S, IsFiniteSet(S), NEW g, NEW h, \A x \in S : g[x] = h[x]
  PROVE  SumFunctionOnSet(g, S) = SumFunctionOnSet(h, S)
<1> DEFINE P == { T \in SUBSET S : SumFunctionOnSet(g, T) = SumFunctionOnSet(h, T) }
<1>1. {} \in P
  BY SumEmpty
<1>2. ASSUME NEW T \in SUBSET S, T # {}, \A x \in T : T \ {x} \in P
      PROVE  T \in P
  <2> DEFINE c == Chosen(T)
  <2>1. IsFiniteSet(T) /\ c \in T
    BY <1>2, FS_Subset DEF Chosen
  <2>2. /\ SumFunctionOnSet(g, T) = g[c] + SumFunctionOnSet(g, T \ {c})
        /\ SumFunctionOnSet(h, T) = h[c] + SumFunctionOnSet(h, T \ {c})
    BY <2>1, <1>2, SumTakesChosen
  <2> QED BY <2>1, <2>2, <1>2
<1> HIDE DEF P
<1>3. SUBSET S \subseteq P
  BY <1>1, <1>2, SubsetInduction
<1> QED BY <1>3 DEF P

\* What each member of S is worth, its image in T is worth as much: then S is
\* worth no more than T, if no two members have one image.
LEMMA SumInjected ==
  ASSUME NEW S, IsFiniteSet(S), NEW T, IsFiniteSet(T), NEW g, NEW h, NEW image,
         \A x \in S : g[x] \in Nat /\ image[x] \in T /\ g[x] <= h[image[x]],
         \A y \in T : h[y] \in Nat,
         \A x1, x2 \in S : image[x1] = image[x2] => x1 = x2
  PROVE  SumFunctionOnSet(g, S) <= SumFunctionOnSet(h, T)
<1> DEFINE Image(U) == { image[x] : x \in U }
           P == { U \in SUBSET S : \A V \in SUBSET T :
                    Image(U) \subseteq V => SumFunctionOnSet(g, U) <= SumFunctionOnSet(h, V) }
<1>1. \A U \in SUBSET S : IsFiniteSet(U) /\ SumFunctionOnSet(g, U) \in Nat
  BY SumOfNats, FS_Subset
<1>2. \A V \in SUBSET T : IsFiniteSet(V) /\ SumFunctionOnSet(h, V) \in Nat
  BY SumOfNats, FS_Subset
<1>3. {} \in P
  BY <1>2, SumEmpty
<1>4. ASSUME NEW U \in SUBSET S, U # {}, \A x \in U : U \ {x} \in P
      PROVE  U \in P
  <2> SUFFICES ASSUME NEW V \in SUBSET T, Image(U) \subseteq V
               PROVE  SumFunctionOnSet(g, U) <= SumFunctionOnSet(h, V)
    OBVIOUS
  <2>1. PICK x \in U : TRUE
    BY <1>4
  <2> DEFINE y == image[x]
  <2>2. y \in V /\ Image(U \ {x}) \subseteq V \ {y} /\ g[x] <= h[y]
    BY <2>1
  <2>3. SumFunctionOnSet(g, U) = g[x] + SumFunctionOnSet(g, U \ {x})
    BY <1>1, SumTakesAny
  <2>4. SumFunctionOnSet(h, V) = h[y] + SumFunctionOnSet(h, V \ {y})
    <3>1. \A z \in V : h[z] \in Int
      OBVIOUS
    <3> HIDE DEF y
    <3> QED BY <3>1, <2>2, <1>2, SumTakesAny
  <2>5. SumFunctionOnSet(g, U \ {x}) <= SumFunctionOnSet(h, V \ {y})
    BY <1>4, <2>2
  <2>6. /\ SumFunctionOnSet(g, U \ {x}) \in Nat /\ SumFunctionOnSet(h, V \ {y}) \in Nat
        /\ g[x] \in Nat /\ h[y] \in Nat
    BY <1>1, <1>2, <2>2
  <2> QED BY <2>2, <2>3, <2>4, <2>5, <2>6
<1>5. SUBSET S \subseteq P
  <2> HIDE DEF P
  <2> QED BY <1>3, <1>4, SubsetInduction
<1> QED BY <1>5

\* If the images are all of T and worth just as much, so are S and T.
LEMMA SumBijected ==
  ASSUME NEW S, IsFiniteSet(S), NEW T, IsFiniteSet(T), NEW g, NEW h, NEW image,
         \A x \in S : image[x] \in T /\ g[x] = h[image[x]],
         \A y \in T : h[y] \in Nat /\ \E x \in S : image[x] = y,
         \A x1, x2 \in S : image[x1] = image[x2] => x1 = x2
  PROVE  SumFunctionOnSet(g, S) = SumFunctionOnSet(h, T)
<1> DEFINE back == [y \in T |-> CHOOSE x \in S : image[x] = y]
<1>1. \A x \in S : g[x] \in Nat /\ g[x] <= h[image[x]]
  OBVIOUS
<1>2. \A y \in T : back[y] \in S /\ image[back[y]] = y
  OBVIOUS
<1> HIDE DEF back
<1>3. \A y \in T : h[y] <= g[back[y]]
  BY <1>2
<1>4. \A y1, y2 \in T : back[y1] = back[y2] => y1 = y2
  BY <1>2
<1>5. SumFunctionOnSet(g, S) <= SumFunctionOnSet(h, T)
  BY <1>1, SumInjected
<1>6. SumFunctionOnSet(h, T) <= SumFunctionOnSet(g, S)
  BY <1>1, <1>2, <1>3, <1>4, SumInjected
<1>7. SumFunctionOnSet(g, S) \in Nat /\ SumFunctionOnSet(h, T) \in Nat
  BY <1>1, SumOfNats
<1> QED BY <1>5, <1>6, <1>7

\* The sum when one member is worth something else.
LEMMA SumChanged ==
  ASSUME NEW S, IsFiniteSet(S), NEW g, NEW h, \A x \in S : g[x] \in Int /\ h[x] \in Int,
         NEW y \in S, \A x \in S \ {y} : h[x] = g[x]
  PROVE  SumFunctionOnSet(h, S) = SumFunctionOnSet(g, S) + h[y] - g[y]
<1> DEFINE T == S \ {y}
<1>1. IsFiniteSet(T) /\ T \in SUBSET S
  BY FS_RemoveElement
<1>2. SumFunctionOnSet(g, S) = g[y] + SumFunctionOnSet(g, T)
  BY SumTakesAny
<1>3. SumFunctionOnSet(h, S) = h[y] + SumFunctionOnSet(h, T)
  BY SumTakesAny
<1>4. \A x \in T : h[x] = g[x]
  OBVIOUS
<1>5. SumFunctionOnSet(g, T) \in Int
  BY <1>1, SumOfInts
<1> HIDE DEF T
<1>6. SumFunctionOnSet(h, T) = SumFunctionOnSet(g, T)
  BY <1>1, <1>4, SumSame
<1> QED BY <1>2, <1>3, <1>5, <1>6

\* A set is worth what a part of it and the rest are.
LEMMA SumParts ==
  ASSUME NEW S, IsFiniteSet(S), NEW g, \A x \in S : g[x] \in Int, NEW E \in SUBSET S
  PROVE  /\ SumFunctionOnSet(g, E) \in Int /\ SumFunctionOnSet(g, S \ E) \in Int
         /\ SumFunctionOnSet(g, S) = SumFunctionOnSet(g, E) + SumFunctionOnSet(g, S \ E)
<1> DEFINE Sum(T) == SumFunctionOnSet(g, T)
           P == { T \in SUBSET S : Sum(S) = Sum(T) + Sum(S \ T) }
<1>1. \A T \in SUBSET S : IsFiniteSet(T) /\ Sum(T) \in Int
  BY SumOfInts, FS_Subset
<1>2. \A T \in SUBSET S : \A x \in T : Sum(T) = g[x] + Sum(T \ {x})
  BY <1>1, SumTakesAny
<1>3. {} \in P
  <2>1. Sum({}) = 0 /\ S \ {} = S /\ Sum(S) \in Int
    BY <1>1, SumEmpty
  <2> QED BY <2>1
<1>4. ASSUME NEW T \in SUBSET S, T # {}, \A x \in T : T \ {x} \in P
      PROVE  T \in P
  <2>1. PICK x \in T : TRUE
    BY <1>4
  <2> HIDE DEF Sum
  <2>2. Sum(S) = Sum(T \ {x}) + Sum(S \ (T \ {x}))
    BY <1>4
  <2>3. S \ (T \ {x}) = (S \ T) \cup {x} /\ ((S \ T) \cup {x}) \ {x} = S \ T
    OBVIOUS
  <2>4. Sum(S \ (T \ {x})) = g[x] + Sum(S \ T)
    <3>1. S \ (T \ {x}) \in SUBSET S /\ x \in S \ (T \ {x})
      OBVIOUS
    <3> QED BY <1>2, <2>3, <3>1
  <2>5. Sum(T) = g[x] + Sum(T \ {x})
    BY <1>2
  <2>6. Sum(T \ {x}) \in Int /\ Sum(S \ T) \in Int /\ g[x] \in Int
    BY <1>1
  <2>7. Sum(S) = Sum(T) + Sum(S \ T)
    BY <2>2, <2>4, <2>5, <2>6
  <2> QED BY <2>7
<1>5. SUBSET S \subseteq P
  <2> HIDE DEF P
  <2> QED BY <1>3, <1>4, SubsetInduction
<1> QED BY <1>1, <1>5

\* The sum over the positions of a list, and of the list with one more.
LEMMA SumOfPositions ==
  ASSUME NEW n \in Nat, NEW g, \A k \in 1..n : g[k] \in Nat
  PROVE  IsFiniteSet(1..n) /\ SumFunctionOnSet(g, 1..n) \in Nat
<1>1. IsFiniteSet(1..n)
  BY FS_Interval
<1> DEFINE S == 1..n
<1> HIDE DEF S
<1>2. SumFunctionOnSet(g, S) \in Nat
  BY <1>1, SumOfNats DEF S
<1> QED BY <1>1, <1>2 DEF S

LEMMA SumOfOneMore ==
  ASSUME NEW n \in Nat, NEW g, NEW h, \A k \in 1..(n + 1) : g[k] \in Nat,
         \A k \in 1..n : h[k] = g[k]
  PROVE  SumFunctionOnSet(g, 1..(n + 1)) = SumFunctionOnSet(h, 1..n) + g[n + 1]
<1> DEFINE S == 1..(n + 1)
           T == 1..n
<1>1. IsFiniteSet(S) /\ IsFiniteSet(T)
  <2>1. n + 1 \in Int /\ n \in Int /\ 1 \in Int
    OBVIOUS
  <2> QED BY <2>1, FS_Interval
<1>2. S \ {n + 1} = T /\ n + 1 \in S /\ \A k \in T : g[k] = h[k]
  OBVIOUS
<1>3. \A k \in S : g[k] \in Int
  OBVIOUS
<1>4. SumFunctionOnSet(h, T) \in Nat
  BY SumOfPositions, SMTT(30)
<1> HIDE DEF S, T
<1>5. SumFunctionOnSet(g, S) = g[n + 1] + SumFunctionOnSet(g, T)
  BY <1>1, <1>2, <1>3, SumTakesAny
<1>6. SumFunctionOnSet(g, T) = SumFunctionOnSet(h, T)
  BY <1>1, <1>2, SumSame
<1> QED BY <1>2, <1>3, <1>4, <1>5, <1>6 DEF S, T

\* A list without repetition has as many elements as positions, and summing
\* over the ones is summing over the others.
LEMMA ElementsOfList ==
  ASSUME NEW s, IsSeq(s), \A j, k \in 1..Len(s) : s[j] = s[k] => j = k
  PROVE  LET E == { s[k] : k \in 1..Len(s) }
         IN  IsFiniteSet(E) /\ Cardinality(E) = Len(s)
<1> DEFINE E == { s[k] : k \in 1..Len(s) }
<1>1. Len(s) \in Nat /\ s \in [1..Len(s) -> E] /\ DOMAIN s = 1..Len(s)
  BY DEF IsSeq
<1>2. IsFiniteSet(1..Len(s)) /\ Cardinality(1..Len(s)) = Len(s)
  BY <1>1, FS_Interval
<1>3. s \in Surjection(1..Len(s), E)
  BY <1>1 DEF Surjection
<1>4. s \in Injection(1..Len(s), E)
  BY <1>1 DEF Injection, IsInjective
<1> QED BY <1>2, <1>3, <1>4, FS_Surjection

LEMMA SumOfElements ==
  ASSUME NEW s, IsSeq(s), \A j, k \in 1..Len(s) : s[j] = s[k] => j = k,
         NEW g, NEW h, \A k \in 1..Len(s) : g[k] = h[s[k]] /\ g[k] \in Nat
  PROVE  SumFunctionOnSet(g, 1..Len(s)) = SumFunctionOnSet(h, { s[k] : k \in 1..Len(s) })
<1> DEFINE S == 1..Len(s)
           T == { s[k] : k \in 1..Len(s) }
<1>1. IsFiniteSet(S) /\ IsFiniteSet(T)
  <2>1. 1 \in Int /\ Len(s) \in Int
    BY DEF IsSeq
  <2> QED BY <2>1, ElementsOfList, FS_Interval
<1>2. \A k \in S : s[k] \in T /\ g[k] = h[s[k]]
  OBVIOUS
<1>3. \A o \in T : h[o] \in Nat /\ \E k \in S : s[k] = o
  OBVIOUS
<1>4. \A j, k \in S : s[j] = s[k] => j = k
  OBVIOUS
<1> HIDE DEF S, T
<1>5. SumFunctionOnSet(g, S) = SumFunctionOnSet(h, T)
  BY <1>1, <1>2, <1>3, <1>4, SumBijected, SMTT(30)
<1> QED BY <1>5 DEF S, T

\* Of two sets of the same size, the one whose own members are worth no less
\* than the other's own is worth no less.
LEMMA SumOfBetter ==
  ASSUME NEW S, IsFiniteSet(S), NEW g, \A x \in S : g[x] \in Nat,
         NEW C \in SUBSET S, NEW D \in SUBSET S, Cardinality(C) = Cardinality(D),
         \A x \in C \ D, y \in D \ C : g[x] <= g[y]
  PROVE  SumFunctionOnSet(g, C) <= SumFunctionOnSet(g, D)
<1> DEFINE B == C \cap D
           U == C \ D
           V == D \ C
<1>1. /\ IsFiniteSet(C) /\ IsFiniteSet(D) /\ B \in SUBSET C /\ B \in SUBSET D
      /\ IsFiniteSet(U) /\ IsFiniteSet(V) /\ C \ B = U /\ D \ B = V
  BY FS_Subset
<1>2. Cardinality(U) = Cardinality(V)
  <2>1. Cardinality(U) = Cardinality(C) - Cardinality(C \cap D)
    BY <1>1, FS_Difference
  <2>2. Cardinality(V) = Cardinality(D) - Cardinality(D \cap C)
    BY <1>1, FS_Difference
  <2>3. C \cap D = D \cap C
    OBVIOUS
  <2> QED BY <2>1, <2>2, <2>3
<1>3. PICK image \in [U -> V] : \A x1, x2 \in U : image[x1] = image[x2] => x1 = x2
  <2>1. ExistsBijection(1..Cardinality(U), U) /\ ExistsBijection(1..Cardinality(U), V)
    BY <1>1, <1>2, FS_CardinalityType
  <2>2. ExistsBijection(U, V)
    BY <2>1, Fun_ExistsBijSymmetric, Fun_ExistsBijTransitive
  <2> QED BY <2>2 DEF ExistsBijection, Bijection, Injection, IsInjective
<1>4. /\ \A x \in U : g[x] \in Nat /\ image[x] \in V /\ g[x] <= g[image[x]]
      /\ \A y \in V : g[y] \in Nat
      /\ \A x \in C : g[x] \in Int
      /\ \A x \in D : g[x] \in Int
  BY <1>3
<1> HIDE DEF B, U, V
<1>5. SumFunctionOnSet(g, U) <= SumFunctionOnSet(g, V)
  BY <1>1, <1>3, <1>4, SumInjected
<1>6. /\ SumFunctionOnSet(g, B) \in Int
      /\ SumFunctionOnSet(g, C) = SumFunctionOnSet(g, B) + SumFunctionOnSet(g, U)
  BY <1>1, <1>4, SumParts
<1>7. SumFunctionOnSet(g, D) = SumFunctionOnSet(g, B) + SumFunctionOnSet(g, V)
  BY <1>1, <1>4, SumParts
<1>8. SumFunctionOnSet(g, U) \in Nat /\ SumFunctionOnSet(g, V) \in Nat
  BY <1>1, <1>4, SumOfNats
<1> QED BY <1>5, <1>6, <1>7, <1>8
=============================================================================
