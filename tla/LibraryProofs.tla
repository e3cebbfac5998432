-------------------------- MODULE LibraryProofs --------------------------
(***************************************************************************)
(* Theorems about what the library keeps in memory: amounts, which share   *)
(* arrays of words (AmountPrograms), and the factory's tasks and assets,   *)
(* which callers share (TaskRegistry, AssetRegistry). No theorem is about  *)
(* two of them.                                                            *)
(*                                                                         *)
(* A program that gives up the receiver of every operation keeps its       *)
(* amounts in separate arrays, whatever their number and size, and so no   *)
(* operation changes an amount other than the one it is assigned to. The   *)
(* argument needs nothing of arithmetic: an operation leaves its result in *)
(* the receiver's array or in a new one (PlacedAt), and writes to no other.*)
(***************************************************************************)
EXTENDS AmountPrograms, TaskRegistry, AssetRegistry, Facts

\* h2 is h with the result of an operation on z in array arr.
PlacedAt(h, z, h2, arr) ==
  /\ IsSeq(h2)
  /\ \/ arr = z.arr /\ Len(h2) = Len(h)
     \/ arr = Len(h) + 1 /\ Len(h2) = Len(h) + 1
  /\ \A a \in 1..Len(h) : a # z.arr => h2[a] = h[a]
  /\ arr # z.arr => \A a \in 1..Len(h) : h2[a] = h[a]

ArraysOK == IsSeq(heap) /\ \A v \in Vars : var[v].arr \in 0..Len(heap)

IInv == ArraysOK /\ live \subseteq Vars /\ Separated
-----------------------------------------------------------------------------
LEMMA AllocPlaced ==
  ASSUME NEW h, IsSeq(h), NEW z, z.arr \in 0..Len(h), NEW n, NEW v
  PROVE  PlacedAt(h, z, Alloc(h, n, v).heap, Alloc(h, n, v).nat.arr)
<1> DEFINE e == [cap |-> IF n = 1 THEN 1 ELSE n + 4, val |-> v]
<1>1. Alloc(h, n, v).heap = Append(h, e) /\ Alloc(h, n, v).nat.arr = Len(h) + 1
  BY DEF Alloc
<1> HIDE DEF e
<1>2. /\ IsSeq(Append(h, e)) /\ Len(Append(h, e)) = Len(h) + 1
      /\ \A a \in 1..Len(h) : Append(h, e)[a] = h[a]
  BY AppendFacts
<1> QED
  BY <1>1, <1>2 DEF PlacedAt

LEMMA WritePlaced ==
  ASSUME NEW h, IsSeq(h), NEW z, z.arr \in 0..Len(h), NEW n, NEW v
  PROVE  PlacedAt(h, z, Write(h, z, v, n).heap, Write(h, z, v, n).nat.arr)
<1>1. CASE n > Cap(h, z.arr)
  BY <1>1, AllocPlaced DEF Write
<1>2. CASE ~(n > Cap(h, z.arr)) /\ n = 0
  BY <1>2 DEF Write, PlacedAt
<1>3. CASE ~(n > Cap(h, z.arr)) /\ n # 0
  <2> DEFINE h2 == [h EXCEPT ![z.arr].val = (@ - (@ % Base^n)) + v]
  <2>1. Write(h, z, v, n).heap = h2 /\ Write(h, z, v, n).nat.arr = z.arr
    BY <1>3 DEF Write
  <2>2. DOMAIN h = 1..Len(h) /\ DOMAIN h2 = DOMAIN h
    BY DEF IsSeq
  <2>3. h2 = [k \in 1..Len(h) |-> h2[k]]
    BY <2>2 DEF IsSeq
  <2>4. \A a \in 1..Len(h) : a # z.arr => h2[a] = h[a]
    BY <2>2 DEF IsSeq
  <2> HIDE DEF h2
  <2>5. Len(h2) = Len(h)
    <3>1. Len(h) \in Nat
      BY DEF IsSeq
    <3>2. h2 \in Seq({ h2[k] : k \in 1..Len(h) })
      BY <2>3, <3>1
    <3> QED
      BY <2>2, <3>1, <3>2
  <2> QED
    BY <2>1, <2>3, <2>4, <2>5 DEF PlacedAt, IsSeq
<1> QED
  BY <1>1, <1>2, <1>3

\* The result r of a method, on the header z.
Placed(h, z, r) == PlacedAt(h, z, r.heap, r.amount.arr)

LEMMA SignedPlaced ==
  ASSUME NEW h, NEW z, NEW r, NEW neg, PlacedAt(h, z, r.heap, r.nat.arr)
  PROVE  Placed(h, z, Signed(r, neg))
BY DEF Placed, Signed

LEMMA IntAddPlaced ==
  ASSUME NEW h, IsSeq(h), NEW x, x.arr \in 0..Len(h), NEW y, NEW neg
  PROVE  Placed(h, x, IntAdd(h, x, x, y, neg))
<1>1. PlacedAt(h, x, NatAdd(h, x, x, y).heap, NatAdd(h, x, x, y).nat.arr)
  BY WritePlaced DEF NatAdd
<1>2. PlacedAt(h, x, NatSub(h, x, x, y).heap, NatSub(h, x, x, y).nat.arr)
  BY WritePlaced DEF NatSub
<1>3. PlacedAt(h, x, NatSub(h, x, y, x).heap, NatSub(h, x, y, x).nat.arr)
  BY WritePlaced DEF NatSub
<1> QED
  BY <1>1, <1>2, <1>3, SignedPlaced DEF IntAdd

LEMMA MethodsPlaced ==
  ASSUME NEW h, IsSeq(h), NEW x, x.arr \in 0..Len(h), NEW y
  PROVE  /\ Placed(h, x, Add(h, x, y))
         /\ Placed(h, x, Sub(h, x, y))
         /\ Placed(h, x, Mul(h, x, y))
<1>1. Placed(h, x, Add(h, x, y)) /\ Placed(h, x, Sub(h, x, y))
  BY IntAddPlaced DEF Add, Sub
<1>2. PlacedAt(h, x, NatMul(h, x, x, y).heap, NatMul(h, x, x, y).nat.arr)
  BY WritePlaced, AllocPlaced DEF NatMul
<1> QED
  BY <1>1, <1>2, SignedPlaced DEF Mul

LEMMA LoadPlaced ==
  ASSUME NEW h, IsSeq(h), NEW n
  PROVE  Placed(h, Nil, NewAmountBlockchainFromUint64(h, n))
<1>1. Nil.arr = 0 /\ 0 \in 0..Len(h)
  BY DEF Nil, IsSeq
<1>2. CASE n = 0
  BY <1>1, <1>2 DEF NewAmountBlockchainFromUint64, Placed, PlacedAt
<1>3. CASE n # 0
  <2>1. PlacedAt(h, Nil, Alloc(h, Words(n), n).heap, Alloc(h, Words(n), n).nat.arr)
    BY <1>1, AllocPlaced
  <2> QED
    BY <1>3, <2>1, SignedPlaced DEF NewAmountBlockchainFromUint64
<1> QED
  BY <1>2, <1>3
-----------------------------------------------------------------------------
LEMMA InitIInv == Init => IInv
<1> SUFFICES ASSUME Init PROVE IInv
  OBVIOUS
<1>1. IsSeq(heap)
  BY DEF Init, IsSeq
<1>2. \A v \in Vars : var[v].arr = 0
  BY DEF Init, Nil
<1> QED
  BY <1>1, <1>2 DEF Init, IInv, ArraysOK, IsSeq, Separated

\* An amount no operation touches.
Undisturbed(dst) ==
  \A v \in live' \ {dst} :
    v \in live /\ ValueOf(heap', var'[v]) = ValueOf(heap, var[v])

\* Whatever an operation computes, from a receiver z that is given up and into
\* z's array or a new one, disturbs no other amount in use.
LEMMA StoreKeeps ==
  ASSUME Linear, IInv,
         NEW dst \in Vars, NEW recv, NEW z, NEW result,
         z.arr = 0 \/ (recv \in live /\ z = var[recv]),
         z.arr \in 0..Len(heap),
         Placed(heap, z, result),
         Store(dst, recv, result)
  PROVE  IInv' /\ Undisturbed(dst)
<1>1. /\ IsSeq(heap) /\ IsSeq(heap') /\ live \subseteq Vars
      /\ Len(heap) \in Nat /\ Len(heap') \in Nat /\ Len(heap) <= Len(heap')
      /\ result.amount.arr \in 0..Len(heap')
      /\ result.amount.arr = z.arr \/ result.amount.arr = Len(heap) + 1
  BY DEF IInv, ArraysOK, IsSeq, Store, Placed, PlacedAt
<1>2. /\ live' = (live \ {recv}) \cup {dst}
      /\ live' \subseteq Vars
      /\ var'[dst] = result.amount
      /\ \A v \in live' \ {dst} : v \in live /\ v # recv /\ var'[v] = var[v]
      /\ \A v \in Vars \ live' : var'[v] = Nil
  BY <1>1 DEF Store, LiveAfter
<1>3. \A v \in Vars : var'[v].arr \in 0..Len(heap')
  <2> TAKE v \in Vars
  <2>1. CASE v = dst
    BY <1>1, <1>2, <2>1
  <2>2. CASE v \in live' /\ v # dst
    BY <1>1, <1>2, <2>2 DEF IInv, ArraysOK
  <2>3. CASE v \notin live'
    BY <1>1, <1>2, <2>3 DEF Nil
  <2> QED
    BY <2>1, <2>2, <2>3
<1>4. \A v \in live' \ {dst} :
        /\ var[v].arr \in 0..Len(heap)
        /\ var[v].arr = z.arr => var[v].arr = 0
        /\ var[v].arr = result.amount.arr => var[v].arr = 0
  <2> TAKE v \in live' \ {dst}
  <2>1. v \in Vars /\ v \in live /\ v # recv /\ var[v].arr \in 0..Len(heap)
    BY <1>1, <1>2 DEF IInv, ArraysOK
  <2>2. var[v].arr = z.arr => var[v].arr = 0
    BY <2>1 DEF IInv, Separated
  <2> QED
    BY <1>1, <2>1, <2>2
<1>5. Separated'
  <2> SUFFICES ASSUME NEW u \in live', NEW v \in live', u # v,
                      var'[u].arr = var'[v].arr
               PROVE  var'[u].arr = 0
    BY DEF Separated
  <2>1. CASE u = dst
    BY <1>2, <1>4, <2>1
  <2>2. CASE v = dst
    BY <1>2, <1>4, <2>2
  <2>3. CASE u # dst /\ v # dst
    BY <1>2, <2>3 DEF IInv, Separated
  <2> QED
    BY <2>1, <2>2, <2>3
<1>6. Undisturbed(dst)
  <2> SUFFICES ASSUME NEW v \in live' \ {dst}
               PROVE  ValueOf(heap', var[v]) = ValueOf(heap, var[v])
    BY <1>2 DEF Undisturbed
  <2>1. var[v].arr # 0 => heap'[var[v].arr] = heap[var[v].arr]
    BY <1>1, <1>4 DEF Store, Placed, PlacedAt
  <2>2. Mag(heap', var[v]) = Mag(heap, var[v])
    BY <2>1 DEF Mag
  <2> QED
    BY <2>2 DEF ValueOf
<1> QED
  BY <1>1, <1>2, <1>3, <1>5, <1>6 DEF IInv, ArraysOK

LEMMA NextKeeps ==
  ASSUME Linear, IInv, Next
  PROVE  IInv' /\ \E dst \in Vars : Undisturbed(dst)
<1> PICK dst \in Vars :
      \/ \E n \in Loads : Load(dst, n)
      \/ \E recv \in Vars : Assign(dst, recv)
      \/ \E recv \in Vars : AbsStep(dst, recv)
      \/ \E recv, arg \in Vars : AddStep(dst, recv, arg)
      \/ \E recv, arg \in Vars : SubStep(dst, recv, arg)
      \/ \E recv, arg \in Vars : MulStep(dst, recv, arg)
  BY DEF Next
<1> SUFFICES IInv' /\ Undisturbed(dst)
  OBVIOUS
<1>0. IsSeq(heap) /\ \A v \in Vars : var[v].arr \in 0..Len(heap)
  BY DEF IInv, ArraysOK
<1>1. ASSUME NEW n \in Loads, Load(dst, n)
      PROVE  IInv' /\ Undisturbed(dst)
  <2>1. Nil.arr = 0 /\ Nil.arr \in 0..Len(heap)
    BY <1>0 DEF Nil, IsSeq
  <2>2. Placed(heap, Nil, NewAmountBlockchainFromUint64(heap, n))
    BY <1>0, LoadPlaced
  <2> QED
    BY <1>1, <2>1, <2>2, StoreKeeps DEF Load
<1>2. ASSUME NEW recv \in Vars, Assign(dst, recv)
      PROVE  IInv' /\ Undisturbed(dst)
  <2> DEFINE r == [heap |-> heap, amount |-> var[recv]]
  <2>1. Placed(heap, var[recv], r)
    BY <1>0 DEF Placed, PlacedAt
  <2>2. recv \in live /\ Store(dst, recv, r)
    BY <1>2 DEF Assign
  <2> HIDE DEF r
  <2> QED
    BY <1>0, <2>1, <2>2, StoreKeeps
<1>3. ASSUME NEW recv \in Vars, AbsStep(dst, recv)
      PROVE  IInv' /\ Undisturbed(dst)
  <2>1. var[recv].arr = [var[recv] EXCEPT !.neg = FALSE].arr
    BY <1>3 DEF AbsStep
  <2>2. Placed(heap, var[recv], Abs(heap, var[recv]))
    BY <1>0, <2>1 DEF Placed, PlacedAt, Abs
  <2> QED
    BY <1>0, <1>3, <2>2, StoreKeeps DEF AbsStep
<1>4. ASSUME NEW recv \in Vars, NEW arg \in Vars,
             \/ AddStep(dst, recv, arg)
             \/ SubStep(dst, recv, arg)
             \/ MulStep(dst, recv, arg)
      PROVE  IInv' /\ Undisturbed(dst)
  <2>1. /\ Placed(heap, var[recv], Add(heap, var[recv], var[arg]))
        /\ Placed(heap, var[recv], Sub(heap, var[recv], var[arg]))
        /\ Placed(heap, var[recv], Mul(heap, var[recv], var[arg]))
    BY <1>0, MethodsPlaced
  <2> QED
    BY <1>0, <1>4, <2>1, StoreKeeps DEF AddStep, SubStep, MulStep
<1> QED
  BY <1>1, <1>2, <1>3, <1>4

\* The inductive invariant holds throughout.
LEMMA IInvInvariant ==
  ASSUME Linear
  PROVE  Spec => []IInv
<1>1. IInv /\ UNCHANGED vars => IInv'
  BY DEF IInv, ArraysOK, IsSeq, Separated, vars
<1>2. IInv /\ [Next]_vars => IInv'
  BY <1>1, NextKeeps
<1> QED
  BY InitIInv, <1>2, PTL DEF Spec
-----------------------------------------------------------------------------
\* While every receiver is given up, no two amounts in use share an array
\* (the methods of amount.go start from a copy of the receiver's header).
THEOREM AmountsStaySeparate ==
  ASSUME Linear
  PROVE  Spec => []Separated
<1>1. IInv => Separated
  BY DEF IInv
<1> QED
  BY <1>1, IInvInvariant, PTL

\* While every receiver is given up, no call of Add, Sub, Mul or Abs, no
\* conversion and no assignment changes the number another amount reads as.
THEOREM NoInterference ==
  ASSUME Linear
  PROVE  Spec => OthersUnchanged
<1>1. IInv /\ [Next]_vars
        => [\E dst \in Vars :
              \A v \in live' \ {dst} :
                v \in live /\ ValueOf(heap', var'[v]) = ValueOf(heap, var[v])]_vars
  BY NextKeeps DEF Undisturbed
<1> QED
  BY <1>1, IInvInvariant, PTL DEF Spec, OthersUnchanged
-----------------------------------------------------------------------------
(* The factory's tasks. Where callers take turns with lookups by assets, at *)
(* most one of them is at the shared tasks, and no lookup by name writes    *)
(* one; so what it has stored in them stays as long as it holds them.       *)

Shares(c) == pc[c] = "enriching" \/ \E i \in 1..Len(found[c]) : ~found[c][i].own

HeldOK(c, t) ==
  /\ t.task \in Names
  /\ t.own => t.src = call[c].src
  /\ ~t.own => /\ shared[t.task] = [src |-> call[c].src, dst |-> call[c].dst]
               /\ t.task \in Range(Path(call[c].src, call[c].dst))
  /\ pc[c] = "enriching" \/ call[c].name = None => ~t.own

CallerOK(c) ==
  /\ call[c] \in Requests \cup {NoCall}
  /\ IsSeq(found[c]) /\ IsSeq(todo[c])
  /\ pc[c] \in {"idle", "refused"} => Len(found[c]) = 0
  /\ pc[c] # "enriching" => Len(todo[c]) = 0
  /\ half[c] => /\ Len(todo[c]) > 0 /\ Head(todo[c]) \in Names
                /\ shared[Head(todo[c])].src = call[c].src
  /\ \A i \in 1..Len(found[c]) : HeldOK(c, found[c][i])
  /\ \A i \in 1..Len(todo[c]) :
       todo[c][i] \in Range(Path(call[c].src, call[c].dst))

TasksInv ==
  /\ shared = [n \in Names |-> [src |-> shared[n].src, dst |-> shared[n].dst]]
  /\ pc = [c \in Callers |-> pc[c]] /\ call = [c \in Callers |-> call[c]]
  /\ todo = [c \in Callers |-> todo[c]] /\ half = [c \in Callers |-> half[c]]
  /\ found = [c \in Callers |-> found[c]]
  /\ \A c \in Callers : CallerOK(c)
  /\ \A c, d \in Callers : Shares(c) /\ Shares(d) => c = d

\* A set of positions that is not empty has a least one.
LEMMA LeastPosition ==
  ASSUME NEW S \in SUBSET Nat, S # {}
  PROVE  Min(S) \in S
<1>1. PICK n \in S : \A m \in Nat : m < n => m \notin S
  BY LeastNumber
<1>2. \A m \in S : n <= m
  BY <1>1
<1> QED BY <1>1, <1>2 DEF Min

LEMMA ListFacts ==
  ASSUME NEW s, IsSeq(s), Len(s) > 0
  PROVE  /\ s # <<>> /\ Head(s) = s[1]
         /\ IsSeq(Tail(s)) /\ Len(Tail(s)) = Len(s) - 1
         /\ \A k \in 1..Len(Tail(s)) : Tail(s)[k] = s[k + 1]
<1> DEFINE S == { s[k] : k \in 1..Len(s) }
<1>1. s \in Seq(S) /\ Len(s) > 0
  BY SeqOfItsElements
<1> HIDE DEF S
<1>2. s # <<>>
  BY <1>1
<1>3. /\ Head(s) = s[1] /\ Tail(s) \in Seq(S) /\ Len(Tail(s)) = Len(s) - 1
      /\ \A k \in 1..Len(Tail(s)) : Tail(s)[k] = s[k + 1]
  BY <1>1, <1>2
<1> QED BY <1>2, <1>3, SeqIsSeq

LEMMA NoElements ==
  ASSUME NEW s, IsSeq(s), Len(s) = 0
  PROVE  s = <<>>
<1>1. s \in Seq({ s[k] : k \in 1..Len(s) })
  BY SeqOfItsElements
<1> QED BY <1>1

LEMMA OneElement ==
  ASSUME NEW e
  PROVE  IsSeq(<<e>>) /\ Len(<<e>>) = 1 /\ <<e>>[1] = e
<1>1. <<e>> \in Seq({e})
  OBVIOUS
<1> QED BY <1>1, SeqIsSeq

LEMMA NoneOfThem == IsSeq(<<>>) /\ Len(<<>>) = 0
<1>1. <<>> \in Seq({})
  OBVIOUS
<1> QED BY <1>1, SeqIsSeq

\* The copy that a name gives is one, and has the asset asked about.
LEMMA CopyFacts ==
  ASSUME NEW name, NEW src,
         NEW copy, copy = CfgFromTask(name, src), copy # <<>>
  PROVE  /\ name \in Names
         /\ IsSeq(copy) /\ Len(copy) = 1
         /\ copy[1].task = name /\ copy[1].own /\ copy[1].src = src
         /\ \E e \in Range(Allow(name)) :
              /\ e.src \in {Any, src}
              /\ copy[1].dst = IF e.src = Any THEN src ELSE e.dst
<1> DEFINE allow == IF name \in Names THEN Allow(name) ELSE <<>>
           hits  == { i \in DOMAIN allow : allow[i].src \in {Any, src} }
           entry == allow[Min(hits)]
           dst   == IF entry.src = Any THEN src ELSE entry.dst
           new   == [task |-> name, own |-> TRUE, dst |-> dst,
                     src |-> IF src \in Assets THEN src ELSE None]
<1>1. /\ CfgFromTask(name, src) = IF hits = {} \/ dst \notin Assets THEN <<>> ELSE <<new>>
  BY DEF CfgFromTask
<1>2. hits # {} /\ dst \in Assets /\ copy = <<new>>
  <2> HIDE DEF hits, dst, new
  <2> QED BY <1>1
<1>3. name \in Names
  BY <1>2
<1>4. PICK t \in Range(Tasks) : Allow(name) = t.allow
  BY <1>3 DEF Names, Allow, Range
<1>5. allow = t.allow /\ t.allow \in Seq(Range(t.allow))
  BY <1>3, <1>4, ConfigAssumption
<1>6. hits \in SUBSET Nat
  BY <1>5
<1>7. Min(hits) \in hits
  <2> HIDE DEF hits
  <2> QED BY <1>2, <1>6, LeastPosition
<1>8. entry \in Range(Allow(name)) /\ entry.src \in {Any, src}
  BY <1>4, <1>5, <1>7 DEF Range
<1>9. entry.src \in Assets \cup {Any}
  BY <1>4, <1>8, AllowAssumption
<1> HIDE DEF entry
<1>10. src \in Assets
  BY <1>2, <1>8, <1>9
<1>11. new.src = src /\ new.task = name /\ new.own /\ new.dst = dst
  BY <1>10
<1> HIDE DEF new
<1> QED BY <1>2, <1>3, <1>8, <1>11, OneElement

LEMMA PathIsSeq ==
  ASSUME NEW src, NEW dst
  PROVE  IsSeq(Path(src, dst))
<1> DEFINE direct == { i \in DOMAIN Tasks : Grants(Tasks[i], src, dst) }
           piped  == { i \in DOMAIN Pipelines : Grants(Pipelines[i], src, dst) }
<1>1. \/ Path(src, dst) = <<Tasks[Min(direct)].name>>
      \/ piped # {} /\ Path(src, dst) = Pipelines[Min(piped)].tasks
      \/ Path(src, dst) = <<>>
  BY DEF Path
<1>2. piped # {} => Min(piped) \in piped
  <2>1. piped \in SUBSET Nat
    BY ConfigAssumption
  <2> HIDE DEF piped
  <2> QED BY <2>1, LeastPosition
<1>3. piped # {} => IsSeq(Pipelines[Min(piped)].tasks)
  <2> HAVE piped # {}
  <2> DEFINE p == Pipelines[Min(piped)]
  <2>1. p \in Range(Pipelines)
    BY <1>2 DEF Range
  <2>2. p.tasks \in Seq(Range(p.tasks))
    BY <2>1, ConfigAssumption
  <2> QED BY <2>2, SeqIsSeq
<1> HIDE DEF direct, piped
<1> QED BY <1>1, <1>3, OneElement, NoneOfThem

LEMMA InitTasks == TasksInit => TasksInv
<1> SUFFICES ASSUME TasksInit PROVE TasksInv
  OBVIOUS
<1>1. ASSUME NEW c \in Callers PROVE CallerOK(c) /\ ~Shares(c)
  <2>1. /\ pc[c] = "idle" /\ call[c] = NoCall /\ todo[c] = <<>> /\ half[c] = FALSE
        /\ found[c] = <<>>
    BY DEF TasksInit
  <2>2. IsSeq(found[c]) /\ IsSeq(todo[c]) /\ Len(found[c]) = 0 /\ Len(todo[c]) = 0
    BY <2>1, NoneOfThem
  <2> QED BY <2>1, <2>2 DEF CallerOK, Shares
<1>2. /\ shared = [n \in Names |-> [src |-> shared[n].src, dst |-> shared[n].dst]]
      /\ pc = [c \in Callers |-> pc[c]] /\ call = [c \in Callers |-> call[c]]
      /\ todo = [c \in Callers |-> todo[c]] /\ half = [c \in Callers |-> half[c]]
      /\ found = [c \in Callers |-> found[c]]
  BY DEF TasksInit
<1> QED BY <1>1, <1>2 DEF TasksInv

\* What a step of c leaves of the others.
LEMMA OthersHold ==
  ASSUME TasksInv, NEW d \in Callers,
         UNCHANGED <<pc[d], call[d], todo[d], half[d], found[d]>>,
         shared' = shared \/ ~Shares(d)
  PROVE  CallerOK(d)' /\ Shares(d)' = Shares(d)
<1>1. CallerOK(d)
  BY DEF TasksInv
<1>2. Shares(d)' = Shares(d)
  BY DEF Shares
<1>3. half[d]' => /\ Len(todo[d])' > 0 /\ Head(todo[d])' \in Names
                  /\ shared'[Head(todo[d])'].src = call'[d].src
  <2>1. ~Shares(d) => ~half[d]
    BY <1>1 DEF CallerOK, Shares
  <2> QED BY <1>1, <2>1 DEF CallerOK
<1>4. ASSUME NEW i \in 1..Len(found[d]) PROVE HeldOK(d, found[d][i])'
  <2>1. HeldOK(d, found[d][i]) /\ (Shares(d) \/ found[d][i].own)
    BY <1>1 DEF CallerOK, Shares
  <2>2. CASE shared' = shared
    BY <2>1, <2>2 DEF HeldOK
  <2>3. CASE ~Shares(d)
    BY <2>1, <2>3 DEF HeldOK
  <2> QED BY <2>2, <2>3
<1> QED BY <1>1, <1>2, <1>3, <1>4 DEF CallerOK

LEMMA CallerStep ==
  ASSUME TasksInv, NEW c \in Callers,
         (pc = [d \in Callers |-> pc[d]])', (call = [d \in Callers |-> call[d]])',
         (todo = [d \in Callers |-> todo[d]])', (half = [d \in Callers |-> half[d]])',
         (found = [d \in Callers |-> found[d]])',
         \A d \in Callers \ {c} : UNCHANGED <<pc[d], call[d], todo[d], half[d], found[d]>>,
         (shared = [n \in Names |-> [src |-> shared[n].src, dst |-> shared[n].dst]])',
         shared' = shared \/ Shares(c),
         Shares(c)' => \A d \in Callers \ {c} : ~Shares(d),
         CallerOK(c)'
  PROVE  TasksInv'
<1>1. ASSUME NEW d \in Callers \ {c} PROVE CallerOK(d)' /\ Shares(d)' = Shares(d)
  <2>1. shared' = shared \/ ~Shares(d)
    BY DEF TasksInv
  <2> QED BY <2>1, OthersHold
<1>2. \A d \in Callers : CallerOK(d)'
  BY <1>1
<1>3. \A d, e \in Callers : Shares(d)' /\ Shares(e)' => d = e
  <2>1. \A d, e \in Callers : Shares(d) /\ Shares(e) => d = e
    BY DEF TasksInv
  <2> QED BY <1>1, <2>1
<1> QED BY <1>2, <1>3 DEF TasksInv

LEMMA LookupStep ==
  ASSUME OneAtATime, TasksInv,
         NEW c \in Callers, Lookup(c)
  PROVE  TasksInv'
<1>1. PICK r \in Requests :
        LET copy == IF r.name = None THEN <<>> ELSE CfgFromTask(r.name, r.src)
            path == IF r.dst = None THEN <<>> ELSE Path(r.src, r.dst)
        IN  /\ pc[c] = "idle" /\ UNCHANGED <<shared, half>>
            /\ call' = [call EXCEPT ![c] = r]
            /\ \/ /\ copy # <<>> /\ pc' = [pc EXCEPT ![c] = "held"]
                  /\ found' = [found EXCEPT ![c] = copy] /\ UNCHANGED todo
               \/ /\ copy = <<>> /\ path # <<>> /\ Turn(c)
                  /\ pc' = [pc EXCEPT ![c] = "enriching"]
                  /\ todo' = [todo EXCEPT ![c] = path] /\ UNCHANGED found
               \/ /\ copy = <<>> /\ path = <<>> /\ pc' = [pc EXCEPT ![c] = "refused"]
                  /\ UNCHANGED <<todo, found>>
  BY DEF Lookup, Goto
<1> DEFINE copy == IF r.name = None THEN <<>> ELSE CfgFromTask(r.name, r.src)
           path == IF r.dst = None THEN <<>> ELSE Path(r.src, r.dst)
<1>2. /\ pc = [d \in Callers |-> pc[d]] /\ call = [d \in Callers |-> call[d]]
      /\ todo = [d \in Callers |-> todo[d]] /\ half = [d \in Callers |-> half[d]]
      /\ found = [d \in Callers |-> found[d]] /\ CallerOK(c)
      /\ shared = [n \in Names |-> [src |-> shared[n].src, dst |-> shared[n].dst]]
      /\ \A d \in Callers : IsSeq(found[d])
  BY DEF TasksInv, CallerOK
<1>3. /\ Len(found[c]) = 0 /\ Len(todo[c]) = 0 /\ ~half[c] /\ IsSeq(found[c]) /\ IsSeq(todo[c])
  BY <1>1, <1>2 DEF CallerOK
<1>4. /\ pc[c] = "idle" /\ UNCHANGED <<shared, half>> /\ call' = [call EXCEPT ![c] = r]
      /\ \/ /\ copy # <<>> /\ pc' = [pc EXCEPT ![c] = "held"]
            /\ found' = [found EXCEPT ![c] = copy] /\ UNCHANGED todo
         \/ /\ copy = <<>> /\ path # <<>> /\ Turn(c)
            /\ pc' = [pc EXCEPT ![c] = "enriching"]
            /\ todo' = [todo EXCEPT ![c] = path] /\ UNCHANGED found
         \/ /\ copy = <<>> /\ path = <<>> /\ pc' = [pc EXCEPT ![c] = "refused"]
            /\ UNCHANGED <<todo, found>>
  BY <1>1
<1> HIDE DEF copy, path
<1>5. /\ (pc = [d \in Callers |-> pc[d]])' /\ (call = [d \in Callers |-> call[d]])'
      /\ (todo = [d \in Callers |-> todo[d]])' /\ (half = [d \in Callers |-> half[d]])'
      /\ (found = [d \in Callers |-> found[d]])'
      /\ (shared = [n \in Names |-> [src |-> shared[n].src, dst |-> shared[n].dst]])'
      /\ \A d \in Callers \ {c} : UNCHANGED <<pc[d], call[d], todo[d], half[d], found[d]>>
      /\ call'[c] = r
  <2>1. /\ (half = [d \in Callers |-> half[d]])' /\ (call = [d \in Callers |-> call[d]])'
        /\ (shared = [n \in Names |-> [src |-> shared[n].src, dst |-> shared[n].dst]])'
        /\ \A d \in Callers \ {c} : UNCHANGED <<call[d], half[d]>>
        /\ call'[c] = r
    BY <1>2, <1>4
  <2>2. /\ (pc = [d \in Callers |-> pc[d]])' /\ \A d \in Callers \ {c} : UNCHANGED pc[d]
    BY <1>2, <1>4
  <2>3. /\ (todo = [d \in Callers |-> todo[d]])' /\ \A d \in Callers \ {c} : UNCHANGED todo[d]
    BY <1>2, <1>4
  <2>4. /\ (found = [d \in Callers |-> found[d]])' /\ \A d \in Callers \ {c} : UNCHANGED found[d]
    BY <1>2, <1>4
  <2> QED BY <2>1, <2>2, <2>3, <2>4
<1>6. CallerOK(c)' /\ (Shares(c)' => \A d \in Callers \ {c} : ~Shares(d))
  <2>1. CASE /\ copy # <<>> /\ pc' = [pc EXCEPT ![c] = "held"]
             /\ found' = [found EXCEPT ![c] = copy] /\ UNCHANGED todo
    <3>1. r.name # None /\ copy = CfgFromTask(r.name, r.src)
      BY <2>1 DEF copy
    <3>2. /\ r.name \in Names /\ IsSeq(copy) /\ Len(copy) = 1
          /\ copy[1].task = r.name /\ copy[1].own /\ copy[1].src = r.src
      <4>1. copy # <<>>
        BY <2>1
      <4> QED BY <3>1, <4>1, CopyFacts
    <3>3. /\ pc'[c] = "held" /\ found'[c] = copy /\ todo'[c] = todo[c] /\ half'[c] = half[c]
      BY <1>2, <1>4, <2>1
    <3>4. HeldOK(c, copy[1])'
      <4> DEFINE e == copy[1]
      <4>1. e.task \in Names /\ e.own /\ e.src = call'[c].src
            /\ call'[c].name # None
        BY <1>5, <3>1, <3>2
      <4>2. copy' = copy
        BY DEF copy
      <4> HIDE DEF e
      <4>3. HeldOK(c, e)'
        BY <3>3, <4>1, <4>2 DEF HeldOK, e
      <4> QED BY <4>3 DEF e
    <3>5. ~Shares(c)'
      <4>1. ASSUME NEW i \in 1..Len(found'[c]) PROVE found'[c][i].own
        <5>0. Len(found'[c]) = 1
          BY <3>2, <3>3
        <5>1. i = 1
          BY <4>1, <5>0
        <5> QED BY <3>2, <3>3, <5>1
      <4> QED BY <3>3, <4>1 DEF Shares
    <3>6. ASSUME NEW i \in 1..Len(found'[c]) PROVE HeldOK(c, found[c][i])'
      <4>0. Len(found'[c]) = 1
        BY <3>2, <3>3
      <4>1. i = 1 /\ found'[c] = copy
        BY <3>3, <3>6, <4>0
      <4>2. copy' = copy
        BY DEF copy
      <4> QED BY <3>4, <4>1, <4>2 DEF HeldOK
    <3>7. CallerOK(c)'
      BY <1>3, <1>5, <3>2, <3>3, <3>6 DEF CallerOK
    <3> QED BY <3>5, <3>7
  <2>2. CASE /\ copy = <<>> /\ path # <<>> /\ Turn(c)
             /\ pc' = [pc EXCEPT ![c] = "enriching"]
             /\ todo' = [todo EXCEPT ![c] = path] /\ UNCHANGED found
    <3>1. path = Path(r.src, r.dst) /\ IsSeq(path)
      <4>1. path = Path(r.src, r.dst)
        BY <2>2 DEF path
      <4> QED BY <4>1, PathIsSeq
    <3>2. \A i \in 1..Len(path) : path[i] \in Range(path)
      BY <3>1 DEF IsSeq, Range
    <3>3. /\ pc'[c] = "enriching" /\ found'[c] = found[c] /\ todo'[c] = path /\ half'[c] = half[c]
      BY <1>2, <1>4, <2>2
    <3>4. \A i \in 1..Len(todo'[c]) :
            todo'[c][i] \in Range(Path(call'[c].src, call'[c].dst))
      BY <1>5, <3>1, <3>2, <3>3
    <3>5. \A d \in Callers \ {c} : ~Shares(d)
      BY <1>2, <2>2 DEF Turn, Shares, IsSeq
    <3> QED BY <1>3, <1>5, <3>1, <3>3, <3>4, <3>5 DEF CallerOK
  <2>3. CASE /\ copy = <<>> /\ path = <<>> /\ pc' = [pc EXCEPT ![c] = "refused"]
             /\ UNCHANGED <<todo, found>>
    <3>1. /\ pc'[c] = "refused" /\ found'[c] = found[c] /\ todo'[c] = todo[c] /\ half'[c] = half[c]
      BY <1>2, <1>4, <2>3
    <3> QED BY <1>3, <1>5, <3>1 DEF CallerOK, Shares
  <2> QED BY <1>4, <2>1, <2>2, <2>3
<1> QED BY <1>4, <1>5, <1>6, CallerStep

LEMMA StoreSrcStep ==
  ASSUME TasksInv, NEW c \in Callers, StoreSrc(c)
  PROVE  TasksInv'
<1> DEFINE n == Head(todo[c])
<1>1. /\ pc[c] = "enriching" /\ n \in Names /\ UNCHANGED <<pc, call, todo, found>>
      /\ shared' = [shared EXCEPT ![n].src = call[c].src] /\ half' = [half EXCEPT ![c] = TRUE]
      /\ todo[c] # <<>>
  BY DEF StoreSrc
<1>2. /\ pc = [d \in Callers |-> pc[d]] /\ call = [d \in Callers |-> call[d]]
      /\ todo = [d \in Callers |-> todo[d]] /\ half = [d \in Callers |-> half[d]]
      /\ found = [d \in Callers |-> found[d]] /\ CallerOK(c)
      /\ shared = [m \in Names |-> [src |-> shared[m].src, dst |-> shared[m].dst]]
      /\ \A d \in Callers : Shares(c) /\ Shares(d) => d = c
  BY DEF TasksInv
<1>3. Shares(c) /\ \A d \in Callers \ {c} : ~Shares(d)
  BY <1>1, <1>2 DEF Shares
<1>4. Len(todo[c]) > 0
  <2>1. IsSeq(todo[c])
    BY <1>2 DEF CallerOK
  <2>2. Len(todo[c]) # 0
    BY <1>1, <2>1, NoElements
  <2> QED BY <2>1, <2>2 DEF IsSeq
<1> HIDE DEF n
<1>5. shared' = [shared EXCEPT ![n] = [src |-> call[c].src, dst |-> shared[n].dst]]
  <2>1. shared[n] = [src |-> shared[n].src, dst |-> shared[n].dst]
    BY <1>1, <1>2
  <2>2. [shared[n] EXCEPT !.src = call[c].src] = [src |-> call[c].src, dst |-> shared[n].dst]
    BY <2>1
  <2>3. shared' = [shared EXCEPT ![n] = [shared[n] EXCEPT !.src = call[c].src]]
    BY <1>1
  <2> QED BY <2>2, <2>3
<1>6. /\ (shared = [m \in Names |-> [src |-> shared[m].src, dst |-> shared[m].dst]])'
      /\ shared'[n] = [src |-> call[c].src, dst |-> shared[n].dst]
      /\ \A m \in Names \ {n} : shared'[m] = shared[m]
  BY <1>1, <1>2, <1>5, SMTT(30)
<1>7. /\ (half = [d \in Callers |-> half[d]])' /\ \A d \in Callers \ {c} : UNCHANGED half[d]
  BY <1>1, <1>2
<1>8. CallerOK(c)'
  <2>1. ASSUME NEW i \in 1..Len(found[c]) PROVE HeldOK(c, found[c][i])'
    <3>1. HeldOK(c, found[c][i])
      BY <1>2 DEF CallerOK
    <3> DEFINE t == found[c][i]
    <3>2. t.task \in Names /\ ~t.own
      BY <1>1, <3>1 DEF HeldOK
    <3>3. shared'[t.task] = shared[t.task]
      <4>1. CASE t.task = n
        <5>1. shared[n] = [src |-> call[c].src, dst |-> call[c].dst]
          BY <3>1, <3>2, <4>1 DEF HeldOK
        <5> QED BY <1>6, <4>1, <5>1
      <4>2. CASE t.task # n
        BY <1>6, <3>2, <4>2
      <4> QED BY <4>1, <4>2
    <3> QED BY <1>1, <3>1, <3>3 DEF HeldOK
  <2>2. shared'[Head(todo'[c])].src = call'[c].src /\ Head(todo'[c]) \in Names
    BY <1>1, <1>6 DEF n
  <2> QED BY <1>1, <1>2, <1>4, <2>1, <2>2 DEF CallerOK
<1> QED BY <1>1, <1>2, <1>3, <1>6, <1>7, <1>8, CallerStep

LEMMA StoreDstStep ==
  ASSUME TasksInv, NEW c \in Callers, StoreDst(c)
  PROVE  TasksInv'
<1> DEFINE n == Head(todo[c])
           new == [task |-> n, own |-> FALSE]
<1>1. /\ half[c] /\ UNCHANGED <<pc, call>>
      /\ shared' = [shared EXCEPT ![n].dst = call[c].dst] /\ half' = [half EXCEPT ![c] = FALSE]
      /\ found' = [found EXCEPT ![c] = Append(found[c], new)]
      /\ todo' = [todo EXCEPT ![c] = Tail(todo[c])]
  BY DEF StoreDst
<1>2. /\ pc = [d \in Callers |-> pc[d]] /\ call = [d \in Callers |-> call[d]]
      /\ todo = [d \in Callers |-> todo[d]] /\ half = [d \in Callers |-> half[d]]
      /\ found = [d \in Callers |-> found[d]] /\ CallerOK(c)
      /\ shared = [m \in Names |-> [src |-> shared[m].src, dst |-> shared[m].dst]]
      /\ \A d \in Callers : Shares(c) /\ Shares(d) => d = c
  BY DEF TasksInv
<1>3. /\ Len(todo[c]) > 0 /\ IsSeq(todo[c]) /\ IsSeq(found[c]) /\ pc[c] = "enriching"
      /\ n \in Names /\ shared[n].src = call[c].src
      /\ Len(found[c]) \in Nat /\ Len(todo[c]) \in Nat
  <2>1. IsSeq(todo[c]) /\ IsSeq(found[c])
    BY <1>2 DEF CallerOK
  <2>2. Len(todo[c]) > 0 /\ n \in Names /\ shared[n].src = call[c].src
    BY <1>1, <1>2 DEF CallerOK
  <2>3. Len(found[c]) \in Nat /\ Len(todo[c]) \in Nat
    BY <2>1 DEF IsSeq
  <2>4. Len(todo[c]) # 0
    BY <2>2, <2>3
  <2> QED BY <1>2, <2>1, <2>2, <2>3, <2>4 DEF CallerOK
<1>4. Shares(c) /\ \A d \in Callers \ {c} : ~Shares(d)
  BY <1>2, <1>3 DEF Shares
<1>5. /\ n = todo[c][1] /\ IsSeq(Tail(todo[c])) /\ Len(Tail(todo[c])) = Len(todo[c]) - 1
      /\ \A k \in 1..Len(Tail(todo[c])) : Tail(todo[c])[k] = todo[c][k + 1]
  BY <1>3, ListFacts
<1> HIDE DEF n
<1>6. shared' = [shared EXCEPT ![n] = [src |-> call[c].src, dst |-> call[c].dst]]
  <2>1. shared[n] = [src |-> call[c].src, dst |-> shared[n].dst]
    BY <1>2, <1>3
  <2>2. [shared[n] EXCEPT !.dst = call[c].dst] = [src |-> call[c].src, dst |-> call[c].dst]
    BY <2>1
  <2>3. shared' = [shared EXCEPT ![n] = [shared[n] EXCEPT !.dst = call[c].dst]]
    BY <1>1
  <2> QED BY <2>2, <2>3
<1>7. /\ (shared = [m \in Names |-> [src |-> shared[m].src, dst |-> shared[m].dst]])'
      /\ shared'[n] = [src |-> call[c].src, dst |-> call[c].dst]
      /\ \A m \in Names \ {n} : shared'[m] = shared[m]
  BY <1>2, <1>3, <1>6
<1>8. new.task = n /\ ~new.own
  OBVIOUS
<1> HIDE DEF new
<1>9. /\ IsSeq(Append(found[c], new)) /\ Len(Append(found[c], new)) = Len(found[c]) + 1
      /\ Append(found[c], new)[Len(found[c]) + 1] = new
      /\ \A k \in 1..Len(found[c]) : Append(found[c], new)[k] = found[c][k]
  BY <1>3, AppendFacts
<1>10. /\ (half = [d \in Callers |-> half[d]])' /\ (found = [d \in Callers |-> found[d]])'
       /\ (todo = [d \in Callers |-> todo[d]])'
       /\ half'[c] = FALSE /\ found'[c] = Append(found[c], new) /\ todo'[c] = Tail(todo[c])
       /\ \A d \in Callers \ {c} : UNCHANGED <<half[d], found[d], todo[d]>>
  BY <1>1, <1>2
<1>11. n \in Range(Path(call[c].src, call[c].dst))
  BY <1>2, <1>3, <1>5 DEF CallerOK
<1>12. CallerOK(c)'
  <2>1. ASSUME NEW i \in 1..Len(found[c]) PROVE HeldOK(c, found[c][i])'
    <3> DEFINE t == found[c][i]
    <3>1. HeldOK(c, t)
      BY <1>2 DEF CallerOK
    <3>2. t.task \in Names /\ ~t.own
          /\ shared[t.task] = [src |-> call[c].src, dst |-> call[c].dst]
          /\ t.task \in Range(Path(call[c].src, call[c].dst))
      BY <1>3, <3>1 DEF HeldOK
    <3>3. shared'[t.task] = [src |-> call[c].src, dst |-> call[c].dst]
      BY <1>7, <3>2
    <3>4. found'[c][i] = t
      BY <1>9, <1>10
    <3> HIDE DEF t
    <3> QED BY <1>1, <3>2, <3>3, <3>4 DEF HeldOK
  <2>2. ASSUME NEW i, i = Len(found[c]) + 1 PROVE HeldOK(c, found[c][i])'
    <3>1. found'[c][i] = new
      BY <1>9, <1>10, <2>2
    <3> HIDE DEF HeldOK
    <3>2. /\ found'[c][i].task = n /\ ~found'[c][i].own
          /\ shared'[n] = [src |-> call'[c].src, dst |-> call'[c].dst]
          /\ n \in Range(Path(call'[c].src, call'[c].dst))
      BY <1>1, <1>7, <1>8, <1>11, <3>1
    <3> QED BY <1>3, <3>2 DEF HeldOK
  <2>3. ASSUME NEW i \in 1..Len(found'[c]) PROVE HeldOK(c, found[c][i])'
    <3>1. i = Len(found[c]) + 1 \/ i \in 1..Len(found[c])
      BY <1>3, <1>9, <1>10
    <3> QED BY <2>1, <2>2, <3>1
  <2>4. \A i \in 1..Len(todo'[c]) :
          todo'[c][i] \in Range(Path(call'[c].src, call'[c].dst))
    <3>1. \A i \in 1..Len(todo[c]) :
            todo[c][i] \in Range(Path(call[c].src, call[c].dst))
      BY <1>2 DEF CallerOK
    <3>2. \A i \in 1..Len(todo'[c]) : i + 1 \in 1..Len(todo[c]) /\ todo'[c][i] = todo[c][i + 1]
      BY <1>3, <1>5, <1>10
    <3> QED BY <1>1, <3>1, <3>2
  <2>5. IsSeq(found'[c]) /\ IsSeq(todo'[c]) /\ ~half'[c] /\ pc'[c] = "enriching"
    BY <1>1, <1>3, <1>5, <1>9, <1>10
  <2>6. call'[c] \in Requests \cup {NoCall}
    BY <1>1, <1>2 DEF CallerOK
  <2> QED BY <2>3, <2>4, <2>5, <2>6 DEF CallerOK
<1> QED BY <1>1, <1>2, <1>4, <1>7, <1>10, <1>12, CallerStep, ZenonT(40)

LEMMA EndStep ==
  ASSUME TasksInv, NEW c \in Callers,
         Misnamed(c) \/ Deliver(c) \/ Drop(c)
  PROVE  TasksInv'
<1>1. /\ pc = [d \in Callers |-> pc[d]] /\ call = [d \in Callers |-> call[d]]
      /\ todo = [d \in Callers |-> todo[d]] /\ half = [d \in Callers |-> half[d]]
      /\ found = [d \in Callers |-> found[d]] /\ CallerOK(c)
      /\ shared = [m \in Names |-> [src |-> shared[m].src, dst |-> shared[m].dst]]
      /\ \A d \in Callers : Shares(c) /\ Shares(d) => d = c
  BY DEF TasksInv
<1>2. IsSeq(found[c]) /\ IsSeq(todo[c]) /\ IsSeq(<<>>) /\ Len(<<>>) = 0
  BY <1>1, NoneOfThem DEF CallerOK
<1>3. ASSUME Misnamed(c) PROVE TasksInv'
  <2>1. /\ pc[c] = "enriching" /\ Head(todo[c]) \notin Names
        /\ pc' = [pc EXCEPT ![c] = "refused"] /\ todo' = [todo EXCEPT ![c] = <<>>]
        /\ found' = [found EXCEPT ![c] = <<>>] /\ UNCHANGED <<shared, call, half>>
    BY <1>3 DEF Misnamed, Goto
  <2>2. ~half[c]
    BY <1>1, <2>1 DEF CallerOK
  <2>3. /\ (pc = [d \in Callers |-> pc[d]])' /\ (todo = [d \in Callers |-> todo[d]])'
        /\ (found = [d \in Callers |-> found[d]])'
        /\ pc'[c] = "refused" /\ todo'[c] = <<>> /\ found'[c] = <<>>
        /\ \A d \in Callers \ {c} : UNCHANGED <<pc[d], todo[d], found[d]>>
    BY <1>1, <2>1
  <2>5. /\ (call = [d \in Callers |-> call[d]])' /\ (half = [d \in Callers |-> half[d]])'
        /\ (shared = [m \in Names |-> [src |-> shared[m].src, dst |-> shared[m].dst]])'
        /\ \A d \in Callers \ {c} : UNCHANGED <<call[d], half[d]>>
    BY <1>1, <2>1
  <2>4. CallerOK(c)' /\ ~Shares(c)'
    BY <1>1, <1>2, <2>1, <2>2, <2>3 DEF CallerOK, Shares
  <2>6. \A d \in Callers \ {c} : UNCHANGED <<pc[d], call[d], todo[d], half[d], found[d]>>
    BY <2>3, <2>5
  <2> QED BY <2>1, <2>3, <2>4, <2>5, <2>6, CallerStep
<1>4. ASSUME Drop(c) PROVE TasksInv'
  <2>1. /\ pc[c] \in {"held", "refused"} /\ call' = [call EXCEPT ![c] = NoCall]
        /\ pc' = [pc EXCEPT ![c] = "idle"]
        /\ found' = [found EXCEPT ![c] = <<>>] /\ UNCHANGED <<shared, todo, half>>
    BY <1>4 DEF Drop, Goto
  <2>2. ~half[c] /\ Len(todo[c]) = 0
    BY <1>1, <2>1 DEF CallerOK
  <2>3. /\ (pc = [d \in Callers |-> pc[d]])' /\ (call = [d \in Callers |-> call[d]])'
        /\ (found = [d \in Callers |-> found[d]])'
        /\ pc'[c] = "idle" /\ call'[c] = NoCall /\ found'[c] = <<>>
        /\ \A d \in Callers \ {c} : UNCHANGED <<pc[d], call[d], found[d]>>
    BY <1>1, <2>1
  <2>5. /\ (todo = [d \in Callers |-> todo[d]])' /\ (half = [d \in Callers |-> half[d]])'
        /\ (shared = [m \in Names |-> [src |-> shared[m].src, dst |-> shared[m].dst]])'
        /\ \A d \in Callers \ {c} : UNCHANGED <<todo[d], half[d]>>
    BY <1>1, <2>1
  <2>4. CallerOK(c)' /\ ~Shares(c)'
    BY <1>1, <1>2, <2>1, <2>2, <2>3 DEF CallerOK, Shares
  <2>6. \A d \in Callers \ {c} : UNCHANGED <<pc[d], call[d], todo[d], half[d], found[d]>>
    BY <2>3, <2>5
  <2> QED BY <2>1, <2>3, <2>4, <2>5, <2>6, CallerStep
<1>5. ASSUME Deliver(c) PROVE TasksInv'
  <2> DEFINE fits == { i \in DOMAIN found[c] : Fold[found[c][i].task] = Fold[call[c].name] }
             first == <<found[c][Min(fits)]>>
             result == IF call[c].name = None THEN found[c]
                       ELSE IF fits = {} THEN <<>> ELSE first
             outcome == IF result = <<>> THEN "refused" ELSE "held"
  <2>1. /\ pc[c] = "enriching" /\ todo[c] = <<>>
        /\ pc' = [pc EXCEPT ![c] = outcome] /\ found' = [found EXCEPT ![c] = result]
        /\ UNCHANGED <<shared, call, todo, half>>
    BY <1>5 DEF Deliver, Goto
  <2>2. fits \in SUBSET 1..Len(found[c]) /\ fits \in SUBSET Nat
    BY <1>2 DEF IsSeq
  <2>3. fits # {} => Min(fits) \in 1..Len(found[c])
    <3> HIDE DEF fits
    <3>1. fits # {} => Min(fits) \in fits
      BY <2>2, LeastPosition
    <3> QED BY <2>2, <3>1
  <2>4. IsSeq(first) /\ Len(first) = 1 /\ first[1] = found[c][Min(fits)]
    BY OneElement
  <2>5. result = found[c] \/ result = <<>> \/ (result = first /\ fits # {})
    OBVIOUS
  <2>6. /\ outcome \in {"refused", "held"} /\ (outcome = "refused" => result = <<>>)
    OBVIOUS
  <2>7. ~half[c] /\ Len(todo[c]) = 0
    BY <1>1, <1>2, <2>1 DEF CallerOK
  <2> HIDE DEF fits, first, result, outcome
  <2>8. IsSeq(result) /\ \A i \in 1..Len(result) : \E k \in 1..Len(found[c]) : result[i] = found[c][k]
    <3>1. CASE result = found[c]
      BY <1>2, <3>1
    <3>2. CASE result = <<>>
      BY <1>2, <3>2
    <3>3. CASE result = first /\ fits # {}
      <4>1. IsSeq(result) /\ Len(result) = 1 /\ result[1] = found[c][Min(fits)]
        BY <2>4, <3>3
      <4>2. \A i \in 1..Len(result) : i = 1
        BY <4>1
      <4> QED BY <2>3, <3>3, <4>1, <4>2
    <3> QED BY <2>5, <3>1, <3>2, <3>3
  <2>9. /\ (pc = [d \in Callers |-> pc[d]])' /\ (found = [d \in Callers |-> found[d]])'
        /\ pc'[c] = outcome /\ found'[c] = result
        /\ \A d \in Callers \ {c} : UNCHANGED <<pc[d], found[d]>>
    BY <1>1, <2>1
  <2>10. ASSUME NEW i \in 1..Len(found'[c]) PROVE HeldOK(c, found[c][i])'
    <3>1. PICK k \in 1..Len(found[c]) : found'[c][i] = found[c][k]
      BY <2>8, <2>9
    <3>2. HeldOK(c, found[c][k])
      BY <1>1 DEF CallerOK
    <3> QED BY <2>1, <3>1, <3>2 DEF HeldOK
  <2>11. pc'[c] \in {"idle", "refused"} => Len(found'[c]) = 0
    BY <1>2, <2>6, <2>9
  <2>12. CallerOK(c)'
    BY <1>1, <1>2, <2>1, <2>7, <2>8, <2>9, <2>10, <2>11 DEF CallerOK
  <2>13. \A d \in Callers \ {c} : ~Shares(d)
    BY <1>1, <2>1 DEF Shares
  <2> QED BY <1>1, <2>1, <2>9, <2>12, <2>13, CallerStep
<1> QED BY <1>3, <1>4, <1>5

LEMMA TasksInvariant ==
  OneAtATime => (TasksSpec => []TasksInv)
<1> SUFFICES ASSUME OneAtATime
             PROVE  TasksSpec => []TasksInv
  OBVIOUS
<1>1. TasksInv /\ [TasksNext]_tasksVars => TasksInv'
  <2> SUFFICES ASSUME TasksInv, [TasksNext]_tasksVars PROVE TasksInv'
    OBVIOUS
  <2>1. CASE UNCHANGED tasksVars
    <3>1. UNCHANGED <<shared, pc, call, todo, half, found>>
      BY <2>1 DEF tasksVars
    <3>2. ASSUME NEW c \in Callers PROVE CallerOK(c)' /\ Shares(c)' = Shares(c)
      BY <3>1, OthersHold
    <3> QED BY <3>1, <3>2 DEF TasksInv
  <2>2. ASSUME NEW c \in Callers, Lookup(c) PROVE TasksInv'
    BY <2>2, LookupStep
  <2>3. ASSUME NEW c \in Callers, StoreSrc(c) PROVE TasksInv'
    BY <2>3, StoreSrcStep
  <2>4. ASSUME NEW c \in Callers, StoreDst(c) PROVE TasksInv'
    BY <2>4, StoreDstStep
  <2>5. ASSUME NEW c \in Callers, Misnamed(c) \/ Deliver(c) \/ Drop(c)
        PROVE  TasksInv'
    BY <2>5, EndStep
  <2> QED BY <2>1, <2>2, <2>3, <2>4, <2>5 DEF TasksNext
<1> QED BY InitTasks, <1>1, PTL DEF TasksSpec

\* As long as a caller holds tasks, they show the assets it asked about, if
\* those of the configured tasks are configured and callers take turns.
THEOREM TasksStayAsAsked ==
  OneAtATime => (TasksSpec => []HeldAsAsked)
<1> SUFFICES ASSUME OneAtATime
             PROVE  TasksSpec => []HeldAsAsked
  OBVIOUS
<1>1. TasksInv => HeldAsAsked
  <2> SUFFICES ASSUME TasksInv, NEW c \in Callers, NEW t \in Held(c)
               PROVE  /\ View(t).src = call[c].src
                      /\ ~t.own => View(t).dst = call[c].dst
    BY DEF HeldAsAsked
  <2>1. HeldOK(c, t)
    <3>1. CallerOK(c) /\ t \in Range(found[c])
      BY DEF TasksInv, Held
    <3> QED BY <3>1 DEF CallerOK, IsSeq, Range
  <2> QED BY <2>1 DEF HeldOK, View
<1> QED BY <1>1, TasksInvariant, PTL

\* What leads from one asset to another is found again by name as what leads
\* there: a task that has assets of its own is allowed for these two.
LEMMA PathReloads ==
  ASSUME NEW src, NEW dst, NEW name \in Range(Path(src, dst)),
         NEW copy, copy = CfgFromTask(name, src), copy # <<>>
  PROVE  copy[1].own /\ copy[1].src = src /\ copy[1].dst = dst
<1> DEFINE direct == { i \in DOMAIN Tasks : Grants(Tasks[i], src, dst) }
           piped  == { i \in DOMAIN Pipelines : Grants(Pipelines[i], src, dst) }
<1>1. /\ name \in Names /\ copy[1].own /\ copy[1].src = src
      /\ \E e \in Range(Allow(name)) :
           /\ e.src \in {Any, src}
           /\ copy[1].dst = IF e.src = Any THEN src ELSE e.dst
  BY CopyFacts
<1>2. direct \in SUBSET Nat /\ piped \in SUBSET Nat
  BY ConfigAssumption
<1>3. CASE /\ {src, dst} \subseteq Assets /\ direct # {}
           /\ Path(src, dst) = <<Tasks[Min(direct)].name>>
  <2>1. Min(direct) \in direct
    <3> HIDE DEF direct
    <3> QED BY <1>2, <1>3, LeastPosition
  <2> DEFINE t == Tasks[Min(direct)]
  <2>2. t \in Range(Tasks) /\ Grants(t, src, dst)
    BY <2>1 DEF Range
  <2>3. name = t.name
    <3>1. Path(src, dst) = <<t.name>>
      BY <1>3
    <3> HIDE DEF t
    <3> DEFINE s == <<t.name>>
    <3>2. IsSeq(s) /\ Len(s) = 1 /\ s[1] = t.name
      BY OneElement
    <3>3. name \in Range(s)
      BY <3>1
    <3> HIDE DEF s
    <3>4. DOMAIN s = 1..1
      BY <3>2 DEF IsSeq
    <3> QED BY <3>2, <3>3, <3>4 DEF Range
  <2> HIDE DEF t
  <2>4. Allow(name) = t.allow
    BY <2>2, <2>3, ConfigAssumption DEF Allow
  <2>5. PICK e \in Range(t.allow) :
          /\ e.src \in {Any, src}
          /\ copy[1].dst = IF e.src = Any THEN src ELSE e.dst
    BY <1>1, <2>4
  <2> DEFINE f == [src |-> src, dst |-> dst]
  <2>6. f \in Range(t.allow)
    BY <2>2 DEF Grants
  <2>7. f = e
    BY <2>2, <2>5, <2>6, ReloadAssumption
  <2>8. e.src # Any /\ e.dst = dst
    BY <1>3, <2>7, ConfigAssumption
  <2> QED BY <1>1, <2>5, <2>8
<1>4. CASE piped # {} /\ Path(src, dst) = Pipelines[Min(piped)].tasks
  <2>1. Min(piped) \in piped
    <3> HIDE DEF piped
    <3> QED BY <1>2, <1>4, LeastPosition
  <2>2. Pipelines[Min(piped)] \in Range(Pipelines)
    BY <2>1 DEF Range
  <2>3. Allow(name) = <<>>
    BY <1>1, <1>4, <2>2, ReloadAssumption
  <2> QED BY <1>1, <2>3 DEF Range
<1>5. CASE Path(src, dst) = <<>>
  BY <1>5 DEF Range
<1>6. \/ /\ {src, dst} \subseteq Assets /\ direct # {}
         /\ Path(src, dst) = <<Tasks[Min(direct)].name>>
      \/ piped # {} /\ Path(src, dst) = Pipelines[Min(piped)].tasks
      \/ Path(src, dst) = <<>>
  BY DEF Path
<1> HIDE DEF direct, piped
<1> QED BY <1>3, <1>4, <1>5, <1>6

\* Tasks that were found by their assets are the same when they are loaded
\* again by name, under a configuration like crosschain.yaml.
THEOREM ReloadsAgree ==
  OneAtATime => (TasksSpec => []ReloadGivesTheSame)
<1> SUFFICES ASSUME OneAtATime
             PROVE  TasksSpec => []ReloadGivesTheSame
  OBVIOUS
<1>1. TasksInv => ReloadGivesTheSame
  <2> SUFFICES ASSUME TasksInv, NEW c \in Callers, NEW t \in Held(c), call[c].name = None
               PROVE  LET again == CfgFromTask(t.task, call[c].src)
                          path  == Path(call[c].src, call[c].dst)
                      IN  IF again = <<>> THEN t.task \in Range(path)
                          ELSE View(again[1]) = View(t)
    BY DEF ReloadGivesTheSame
  <2>1. HeldOK(c, t)
    <3>1. CallerOK(c) /\ t \in Range(found[c])
      BY DEF TasksInv, Held
    <3> QED BY <3>1 DEF CallerOK, IsSeq, Range
  <2>2. /\ ~t.own /\ shared[t.task] = [src |-> call[c].src, dst |-> call[c].dst]
        /\ t.task \in Range(Path(call[c].src, call[c].dst))
    BY <2>1 DEF HeldOK
  <2> DEFINE again == CfgFromTask(t.task, call[c].src)
  <2>3. again # <<>> => /\ again[1].own
                        /\ again[1].src = call[c].src /\ again[1].dst = call[c].dst
    <3>1. ASSUME NEW src, src = call[c].src, NEW dst, dst = call[c].dst, NEW name, name = t.task,
                 NEW copy, copy = CfgFromTask(name, src), copy # <<>>
          PROVE  copy[1].own /\ copy[1].src = src /\ copy[1].dst = dst
      <4>1. name \in Range(Path(src, dst))
        BY <2>2, <3>1
      <4>2. copy = CfgFromTask(name, src) /\ copy # <<>>
        BY <3>1
      <4> QED BY ONLY <4>1, <4>2, ConfigAssumption, AllowAssumption,
                      ReloadAssumption, PathReloads
    <3> QED BY <3>1
  <2> HIDE DEF again
  <2> QED BY <2>2, <2>3 DEF View, again
<1> QED BY <1>1, TasksInvariant, PTL
-----------------------------------------------------------------------------
(* Assets *)

Stages == {"idle", "load", "find", "native", "enrich", "fill", "filled"}

RegistryOK ==
  /\ stage \in [Clients -> Stages]
  /\ lookup = [c \in Clients |-> lookup[c]]
  /\ at \in [Clients -> Objects \cup {NoConfig}]
  /\ filled \in [Clients -> Nat]
  /\ overtaken = [c \in Clients |-> overtaken[c]]
  /\ settings = [t \in Tokens |-> [k \in 1..Stores |-> settings[t][k]]]
  /\ \A i \in DOMAIN assets : assets[i] \in Objects

Publishes(c, i) == stage[c] = "load" /\ lookup[c].op = "put" /\ lookup[c].id = i

\* Whoever puts a token fills in its embedded configuration next.
PublishedOK ==
  \A i \in DOMAIN assets :
    assets[i] \in Tokens \ inner => \E c \in Clients : Publishes(c, i)

\* A token that has settings stored into it, and its chain.
HasToken(c) == stage[c] \in {"enrich", "fill", "filled"} => at[c] \in Tokens
HasChain(c) ==
  /\ stage[c] \in {"fill", "filled"} => ChainID(at[c]) \in DOMAIN assets
  /\ stage[c] = "filled" => filled[c] = Stores
  /\ stage[c] \notin {"fill", "filled"} => filled[c] = 0

\* Whoever stores into a token that was not overtaken during c's call stores
\* what c would, and c's own stores are as yet as c left them.
StoresTheSame(c, d) ==
  stage[c] # "idle" /\ stage[d] = "fill" /\ at[d] \notin overtaken[c] =>
    lookup[d].base = assets[ChainID(at[d])]
HasSettings(c) ==
  stage[c] \in {"fill", "filled"} /\ at[c] \notin overtaken[c] =>
    \A k \in 1..Stores : k <= filled[c] => settings[at[c]][k] = assets[ChainID(at[c])]

CallsOK ==
  /\ \A c \in Clients : HasToken(c) /\ HasChain(c) /\ HasSettings(c)
  /\ \A c, d \in Clients : StoresTheSame(c, d)

RegistryInv == RegistryOK /\ PublishedOK /\ CallsOK

\* A step of client c after which its call is as given.
Moves(c, label, l, a, n, w) ==
  /\ stage' = [d \in Clients |-> IF d = c THEN label ELSE stage[d]]
  /\ lookup' = [d \in Clients |-> IF d = c THEN l ELSE lookup[d]]
  /\ at' = [d \in Clients |-> IF d = c THEN a ELSE at[d]]
  /\ filled' = [d \in Clients |-> IF d = c THEN n ELSE filled[d]]
  /\ overtaken' = [d \in Clients |-> IF d = c THEN w ELSE overtaken[d]]

LEMMA MoveKeepsRegistry ==
  ASSUME RegistryInv, NEW c \in Clients, NEW label \in Stages \ {"filled"}, NEW l,
         NEW a \in Objects \cup {NoConfig}, NEW w, Moves(c, label, l, a, 0, w),
         assets' = assets, inner \subseteq inner', settings' = settings,
         label \in {"enrich", "fill"} => a \in Tokens,
         label = "fill" => /\ ChainID(a) \in DOMAIN assets
                           /\ l.base = assets[ChainID(a)],
         label # "idle" => \A d \in Clients \ {c} :
           stage[d] = "fill" /\ at[d] \notin w => lookup[d].base = assets[ChainID(at[d])],
         \A i \in DOMAIN assets : Publishes(c, i) => assets[i] \notin Tokens \ inner'
  PROVE  RegistryInv'
<1>1. /\ RegistryOK /\ PublishedOK
      /\ \A d \in Clients : HasToken(d) /\ HasChain(d) /\ HasSettings(d)
      /\ \A d, e \in Clients : StoresTheSame(d, e)
  BY DEF RegistryInv, CallsOK
<1>2. /\ stage'[c] = label /\ lookup'[c] = l /\ at'[c] = a /\ filled'[c] = 0
      /\ overtaken'[c] = w
      /\ \A d \in Clients \ {c} : /\ stage'[d] = stage[d] /\ lookup'[d] = lookup[d]
                                  /\ at'[d] = at[d] /\ filled'[d] = filled[d]
                                  /\ overtaken'[d] = overtaken[d]
  BY DEF Moves
<1>3. RegistryOK'
  <2>1. stage' \in [Clients -> Stages] /\ filled' \in [Clients -> Nat]
    BY <1>1 DEF RegistryOK, Moves
  <2>2. lookup' = [d \in Clients |-> lookup'[d]] /\ overtaken' = [d \in Clients |-> overtaken'[d]]
    BY DEF Moves
  <2>3. at' \in [Clients -> Objects \cup {NoConfig}]
    BY <1>1 DEF RegistryOK, Moves
  <2>4. \A i \in DOMAIN assets' : assets'[i] \in Objects
    BY <1>1 DEF RegistryOK
  <2>5. settings' = [t \in Tokens |-> [k \in 1..Stores |-> settings'[t][k]]]
    BY <1>1 DEF RegistryOK
  <2> QED
    BY <2>1, <2>2, <2>3, <2>4, <2>5 DEF RegistryOK
<1>4. PublishedOK'
  <2> SUFFICES ASSUME NEW i \in DOMAIN assets, assets[i] \in Tokens \ inner'
               PROVE  \E d \in Clients : Publishes(d, i)'
    BY DEF PublishedOK
  <2>1. PICK d \in Clients : Publishes(d, i)
    BY <1>1 DEF PublishedOK
  <2>2. d # c
    BY <2>1
  <2> QED
    BY <1>2, <2>1, <2>2 DEF Publishes
<1>5. ASSUME NEW d \in Clients PROVE (HasToken(d) /\ HasChain(d) /\ HasSettings(d))'
  <2>1. CASE d = c
    BY <1>2, <2>1 DEF HasToken, HasChain, HasSettings, ChainID
  <2>2. CASE d # c
    BY <1>1, <1>2, <2>2 DEF HasToken, HasChain, HasSettings, ChainID
  <2> QED
    BY <2>1, <2>2
<1>6. ASSUME NEW d \in Clients, NEW e \in Clients PROVE StoresTheSame(d, e)'
  <2>1. CASE e = c
    BY <1>2, <2>1 DEF StoresTheSame, ChainID
  <2>2. CASE e # c /\ d = c
    BY <1>2, <2>2 DEF StoresTheSame, ChainID
  <2>3. CASE e # c /\ d # c
    BY <1>1, <1>2, <2>3 DEF StoresTheSame, ChainID
  <2> QED
    BY <2>1, <2>2, <2>3
<1> QED
  BY <1>3, <1>4, <1>5, <1>6 DEF RegistryInv, CallsOK

\* What a call that goes on needs of the others it has already.
LEMMA GoesOn ==
  ASSUME RegistryInv, NEW c \in Clients, stage[c] # "idle"
  PROVE  \A d \in Clients \ {c} :
           stage[d] = "fill" /\ at[d] \notin overtaken[c] =>
             lookup[d].base = assets[ChainID(at[d])]
BY DEF RegistryInv, CallsOK, StoresTheSame

LEMMA ReturnMoves ==
  ASSUME RegistryInv, NEW c \in Clients, NEW result, Return(c, result)
  PROVE  Moves(c, "idle", NoLookup, NoConfig, 0, {})
BY DEF Return, Proceed, Moves, RegistryInv, RegistryOK

LEMMA ReturnKeepsRegistry ==
  ASSUME RegistryInv, NEW c \in Clients, NEW result, Return(c, result),
         assets' = assets, inner \subseteq inner', settings' = settings,
         \A i \in DOMAIN assets : Publishes(c, i) => assets[i] \notin Tokens \ inner'
  PROVE  RegistryInv'
<1>1. Moves(c, "idle", NoLookup, NoConfig, 0, {})
  BY ReturnMoves
<1>2. "idle" \in Stages \ {"filled"}
  BY DEF Stages
<1> QED
  BY <1>1, <1>2, MoveKeepsRegistry

LEMMA BeginKeepsRegistry ==
  ASSUME RegistryInv, NEW c \in Clients, NEW request,
         NEW label \in {"load", "find", "native"}, Begin(c, request, label)
  PROVE  RegistryInv'
<1>1. Moves(c, label, request, at[c], 0, Lagging(assets))
  <2>1. filled = [filled EXCEPT ![c] = 0]
    BY DEF Begin, RegistryInv, RegistryOK, CallsOK, HasChain
  <2> QED BY <2>1 DEF Begin, Proceed, Moves, RegistryInv, RegistryOK
<1>2. /\ at[c] \in Objects \cup {NoConfig}
      /\ label \in Stages \ {"filled"} /\ label \notin {"enrich", "fill"}
  BY DEF RegistryInv, RegistryOK, Stages
<1>3. /\ assets' = assets /\ inner' = inner /\ settings' = settings
      /\ \A i : ~Publishes(c, i)
  BY DEF Begin, store, Publishes
<1>4. \A d \in Clients \ {c} : stage[d] = "fill" /\ at[d] \notin Lagging(assets) =>
        lookup[d].base = assets[ChainID(at[d])]
  BY DEF Lagging
<1> QED
  BY <1>1, <1>2, <1>3, <1>4, MoveKeepsRegistry

LEMMA PutStores ==
  ASSUME NEW c \in Clients, NEW o \in Objects, Put(c, o)
  PROVE  /\ DOMAIN assets' = DOMAIN assets \cup {ID(o)}
         /\ assets'[ID(o)] = o
         /\ \A i \in DOMAIN assets \ {ID(o)} : assets'[i] = assets[i]
BY DEF Put, With

LEMMA PutKeepsRegistry ==
  ASSUME RegistryInv, NEW c \in Clients, PutAssetConfig(c)
  PROVE  RegistryInv'
<1>1. /\ RegistryOK /\ PublishedOK
      /\ \A d \in Clients : HasToken(d) /\ HasChain(d) /\ HasSettings(d)
      /\ \A d, e \in Clients : StoresTheSame(d, e)
  BY DEF RegistryInv, CallsOK
<1>2. PICK o \in Objects :
        /\ Put(c, o)
        /\ lookup' = [lookup EXCEPT ![c] = [op |-> "put", id |-> ID(o)]]
        /\ Proceed(c, "load")
        /\ UNCHANGED <<chain, inner, settings, at, filled, endpoint>>
  BY DEF PutAssetConfig
<1>3. /\ DOMAIN assets' = DOMAIN assets \cup {ID(o)} /\ assets'[ID(o)] = o
      /\ \A i \in DOMAIN assets \ {ID(o)} : assets'[i] = assets[i]
  BY <1>2, PutStores
<1>4. /\ stage' = [stage EXCEPT ![c] = "load"] /\ stage[c] = "idle"
      /\ overtaken' = [d \in Clients |->
           IF d = c THEN Lagging(assets')
           ELSE IF stage[d] = "idle" THEN {}
           ELSE overtaken[d] \cup { t \in Tokens : ChainID(t) = ID(o) }]
  BY <1>2 DEF Put, Proceed
<1>5. RegistryOK'
  <2>1. stage' \in [Clients -> Stages] /\ lookup' = [d \in Clients |-> lookup'[d]]
    BY <1>1, <1>2, <1>4 DEF RegistryOK, Stages
  <2>2. overtaken' = [d \in Clients |-> overtaken'[d]]
    BY <1>4
  <2>3. \A i \in DOMAIN assets' : assets'[i] \in Objects
    BY <1>1, <1>3 DEF RegistryOK
  <2>4. at' = at /\ settings' = settings /\ filled' = filled
    BY <1>2
  <2> QED
    BY <1>1, <2>1, <2>2, <2>3, <2>4 DEF RegistryOK
<1>6. Publishes(c, ID(o))' /\ stage'[c] = "load"
  <2>1. lookup'[c] = [op |-> "put", id |-> ID(o)] /\ stage'[c] = "load"
    BY <1>1, <1>2, <1>4 DEF RegistryOK
  <2> QED
    BY <2>1 DEF Publishes, ID
<1>7. \A d \in Clients \ {c} : stage'[d] = stage[d] /\ lookup'[d] = lookup[d]
  BY <1>1, <1>2, <1>4 DEF RegistryOK
<1>8. PublishedOK'
  <2> SUFFICES ASSUME NEW i \in DOMAIN assets', assets'[i] \in Tokens \ inner'
               PROVE  \E d \in Clients : Publishes(d, i)'
    BY DEF PublishedOK
  <2>1. CASE i = ID(o)
    BY <1>6, <2>1
  <2>2. CASE i # ID(o)
    <3>1. i \in DOMAIN assets /\ assets[i] \in Tokens \ inner
      BY <1>2, <1>3, <2>2
    <3>2. PICK d \in Clients : Publishes(d, i)
      BY <1>1, <3>1 DEF PublishedOK
    <3>3. d # c
      BY <1>4, <3>2 DEF Publishes
    <3> QED
      BY <1>7, <3>2, <3>3 DEF Publishes
  <2> QED
    BY <2>1, <2>2
<1>9. ASSUME NEW d \in Clients \ {c} PROVE (HasToken(d) /\ HasChain(d) /\ HasSettings(d))'
  <2> DEFINE id == ChainID(at[d])
  <2>1. /\ stage'[d] = stage[d] /\ at'[d] = at[d] /\ filled' = filled /\ settings' = settings
        /\ ChainID(at[d])' = id
    BY <1>2, <1>7 DEF ChainID
  <2>2. HasToken(d) /\ HasChain(d) /\ HasSettings(d)
    BY <1>1
  <2>3. (HasToken(d) /\ HasChain(d))'
    BY <1>3, <2>1, <2>2 DEF HasToken, HasChain
  <2>4. ASSUME stage[d] \in {"fill", "filled"}, at[d] \notin overtaken'[d]
        PROVE  at[d] \notin overtaken[d] /\ id # ID(o) /\ assets'[id] = assets[id]
    <3>1. at[d] \in Tokens /\ id \in DOMAIN assets
      BY <2>2, <2>4 DEF HasToken, HasChain
    <3>2. overtaken'[d] = overtaken[d] \cup { t \in Tokens : ChainID(t) = ID(o) }
      BY <1>4, <2>4
    <3> QED
      BY <1>3, <2>4, <3>1, <3>2
  <2> HIDE DEF id
  <2>5. HasSettings(d)'
    <3>1. HasSettings(d) = (stage[d] \in {"fill", "filled"} /\ at[d] \notin overtaken[d] =>
            \A k \in 1..Stores : k <= filled[d] => settings[at[d]][k] = assets[id])
      BY DEF HasSettings, id
    <3>2. HasSettings(d)' = (stage'[d] \in {"fill", "filled"} /\ at'[d] \notin overtaken'[d] =>
            \A k \in 1..Stores : k <= filled'[d] => settings'[at'[d]][k] = assets'[id])
      BY <2>1 DEF HasSettings
    <3> QED
      BY <2>1, <2>2, <2>4, <3>1, <3>2
  <2> QED
    BY <2>3, <2>5
<1>10. (HasToken(c) /\ HasChain(c) /\ HasSettings(c))'
  <2>1. filled'[c] = 0
    BY <1>1, <1>2, <1>4 DEF HasChain
  <2> QED BY <1>6, <2>1 DEF HasToken, HasChain, HasSettings
<1>11. ASSUME NEW d \in Clients, NEW e \in Clients,
              stage'[d] # "idle", stage'[e] = "fill", at'[e] \notin overtaken'[d]
       PROVE  lookup'[e].base = assets'[ChainID(at'[e])]
  <2>1. e # c /\ stage[e] = "fill" /\ lookup'[e] = lookup[e] /\ at' = at
    BY <1>2, <1>6, <1>7, <1>11
  <2>2. at[e] \in Tokens /\ ChainID(at[e]) \in DOMAIN assets
    BY <1>1, <2>1 DEF HasToken, HasChain
  <2>3. CASE d = c
    <3>1. at[e] \notin Lagging(assets')
      BY <1>4, <1>11, <2>1, <2>3
    <3> QED
      BY <2>1, <3>1 DEF Lagging
  <2>4. CASE d # c
    <3>1. stage[d] # "idle"
      BY <1>7, <1>11, <2>4
    <3>2. overtaken'[d] = overtaken[d] \cup { t \in Tokens : ChainID(t) = ID(o) }
      BY <1>4, <2>4, <3>1
    <3>3. at[e] \notin overtaken[d] /\ ChainID(at[e]) # ID(o)
      BY <1>11, <2>1, <2>2, <3>2
    <3>4. lookup[e].base = assets[ChainID(at[e])]
      BY <1>1, <2>1, <3>1, <3>3 DEF StoresTheSame
    <3> QED
      BY <1>3, <2>1, <2>2, <3>3, <3>4
  <2> QED
    BY <2>3, <2>4
<1>12. \A d, e \in Clients : StoresTheSame(d, e)'
  BY <1>11 DEF StoresTheSame, ChainID
<1> QED
  BY <1>5, <1>8, <1>9, <1>10, <1>12 DEF RegistryInv, CallsOK

LEMMA FindKeepsRegistry ==
  ASSUME RegistryInv, NEW c \in Clients, FindByContract(c)
  PROVE  RegistryInv'
<1>1. /\ assets' = assets /\ inner' = inner /\ settings' = settings
      /\ stage[c] = "find" /\ \A i : ~Publishes(c, i)
  BY DEF FindByContract, store, Publishes
<1>2. \/ /\ \E i \in DOMAIN assets : at' = [at EXCEPT ![c] = assets[i]]
         /\ Proceed(c, "load")
         /\ UNCHANGED <<lookup, filled, endpoint, overtaken>>
      \/ Miss(c, "contract")
  BY DEF FindByContract
<1>3. CASE Miss(c, "contract")
  BY <1>1, <1>3, ReturnKeepsRegistry DEF Miss
<1>4. CASE /\ \E i \in DOMAIN assets : at' = [at EXCEPT ![c] = assets[i]]
           /\ Proceed(c, "load")
           /\ UNCHANGED <<lookup, filled, endpoint, overtaken>>
  <2>1. PICK i \in DOMAIN assets : at' = [at EXCEPT ![c] = assets[i]]
    BY <1>4
  <2>2. filled[c] = 0 /\ filled \in [Clients -> Nat]
    BY <1>1 DEF RegistryInv, RegistryOK, CallsOK, HasChain
  <2>3. Moves(c, "load", lookup[c], assets[i], 0, overtaken[c])
    BY <1>4, <2>1, <2>2 DEF Proceed, Moves, RegistryInv, RegistryOK
  <2>4. "load" \in Stages \ {"filled"} /\ assets[i] \in Objects \cup {NoConfig}
    BY DEF Stages, RegistryInv, RegistryOK
  <2> QED
    BY <1>1, <2>3, <2>4, GoesOn, MoveKeepsRegistry
<1> QED
  BY <1>2, <1>3, <1>4

LEMMA LoadKeepsRegistry ==
  ASSUME RegistryInv, NEW c \in Clients, LoadConfig(c)
  PROVE  RegistryInv'
<1>1. /\ stage[c] = "load" /\ assets' = assets /\ settings' = settings
  BY DEF LoadConfig
<1>2. \A i : Publishes(c, i) => Wanted(c) = i
  BY DEF Publishes, Wanted
<1>3. CASE Wanted(c) \notin DOMAIN assets
  <2>1. Miss(c, "id") /\ inner' = inner
    BY <1>3 DEF LoadConfig
  <2> QED
    BY <1>1, <1>2, <1>3, <2>1, ReturnKeepsRegistry DEF Miss
<1>4. CASE Wanted(c) \in DOMAIN assets
  <2> DEFINE o == assets[Wanted(c)]
  <2>1. \/ o \in Natives /\ Return(c, o) /\ inner' = inner
        \/ /\ o \in Tokens /\ inner' = inner \cup {o}
           /\ at' = [at EXCEPT ![c] = o] /\ Proceed(c, "enrich")
           /\ UNCHANGED <<lookup, filled, overtaken>>
    BY <1>4 DEF LoadConfig
  <2>2. \A i : Publishes(c, i) => assets[i] = o
    BY <1>2
  <2> HIDE DEF o
  <2>3. CASE o \in Natives /\ Return(c, o) /\ inner' = inner
    <3>1. o \notin Tokens
      BY <2>3, ObjectsAssumption
    <3> QED
      BY <1>1, <2>2, <2>3, <3>1, ReturnKeepsRegistry
  <2>4. CASE /\ o \in Tokens /\ inner' = inner \cup {o}
             /\ at' = [at EXCEPT ![c] = o] /\ Proceed(c, "enrich")
             /\ UNCHANGED <<lookup, filled, overtaken>>
    <3>1. filled[c] = 0 /\ filled \in [Clients -> Nat]
      BY <1>1 DEF RegistryInv, RegistryOK, CallsOK, HasChain
    <3>2. Moves(c, "enrich", lookup[c], o, 0, overtaken[c])
      BY <2>4, <3>1 DEF Proceed, Moves, RegistryInv, RegistryOK
    <3>3. "enrich" \in Stages \ {"filled"} /\ o \in Objects \cup {NoConfig}
      BY <2>4 DEF Stages, Objects
    <3>4. stage[c] # "idle" /\ inner \subseteq inner'
          /\ \A i \in DOMAIN assets : Publishes(c, i) => assets[i] \notin Tokens \ inner'
      BY <1>1, <2>2, <2>4
    <3> QED
      BY <1>1, <2>4, <3>2, <3>3, <3>4, GoesOn, MoveKeepsRegistry
  <2> QED
    BY <2>1, <2>3, <2>4
<1> QED
  BY <1>3, <1>4

LEMMA LoadChainKeepsRegistry ==
  ASSUME RegistryInv, NEW c \in Clients, LoadChain(c)
  PROVE  RegistryInv'
<1> DEFINE id == ChainID(at[c])
           l == With(lookup[c], "base", assets[id])
<1>1. /\ stage[c] = "enrich" /\ UNCHANGED store
      /\ \/ /\ id \in DOMAIN assets
            /\ lookup' = [lookup EXCEPT ![c] = l]
            /\ Proceed(c, "fill")
            /\ UNCHANGED <<at, filled, endpoint, overtaken>>
         \/ Return(c, at[c])
  BY DEF LoadChain, LoadChainIf
<1>2. /\ assets' = assets /\ inner' = inner /\ settings' = settings
      /\ \A i : ~Publishes(c, i)
  BY <1>1 DEF store, Publishes
<1>3. l.base = assets[id]
  BY DEF With
<1>4. /\ at[c] \in Tokens /\ at[c] \in Objects \cup {NoConfig}
      /\ "fill" \in Stages \ {"filled"} /\ filled[c] = 0 /\ filled \in [Clients -> Nat]
  BY <1>1 DEF Stages, HasToken, HasChain, RegistryInv, RegistryOK, CallsOK
<1> HIDE DEF l
<1>5. CASE Return(c, at[c])
  BY <1>2, <1>5, ReturnKeepsRegistry
<1>6. CASE /\ id \in DOMAIN assets
           /\ lookup' = [lookup EXCEPT ![c] = l]
           /\ Proceed(c, "fill")
           /\ UNCHANGED <<at, filled, endpoint, overtaken>>
  <2>1. Moves(c, "fill", l, at[c], 0, overtaken[c])
    BY <1>4, <1>6 DEF Proceed, Moves, RegistryInv, RegistryOK
  <2>2. stage[c] # "idle"
    BY <1>1
  <2> QED
    BY <1>2, <1>3, <1>4, <1>6, <2>1, <2>2, GoesOn, MoveKeepsRegistry
<1> QED
  BY <1>1, <1>5, <1>6

LEMMA FillKeepsRegistry ==
  ASSUME RegistryInv, NEW c \in Clients, Fill(c)
  PROVE  RegistryInv'
<1>1. /\ RegistryOK /\ PublishedOK
      /\ \A d \in Clients : HasToken(d) /\ HasChain(d) /\ HasSettings(d)
      /\ \A d, e \in Clients : StoresTheSame(d, e)
  BY DEF RegistryInv, CallsOK
<1> DEFINE token == at[c]
           n == filled[c] + 1
           conf == lookup[c].base
<1>2. /\ stage[c] = "fill" /\ settings' = [settings EXCEPT ![token][n] = conf]
      /\ filled' = [filled EXCEPT ![c] = n]
      /\ stage' = [stage EXCEPT ![c] = IF n = Stores THEN "filled" ELSE "fill"]
      /\ UNCHANGED <<assets, inner, lookup, at, overtaken>>
  BY DEF Fill, Proceed
<1>3. token \in Tokens /\ filled[c] \in Nat /\ Stores \in Nat /\ n \in Nat
  BY <1>1, <1>2, ObjectsAssumption DEF HasToken, RegistryOK
<1>4. /\ filled'[c] = n /\ \A d \in Clients \ {c} : filled'[d] = filled[d] /\ stage'[d] = stage[d]
      /\ stage'[c] = IF n = Stores THEN "filled" ELSE "fill"
  BY <1>1, <1>2 DEF RegistryOK
<1>5. \A t \in Tokens, k \in 1..Stores :
        settings'[t][k] = IF t = token /\ k = n THEN conf ELSE settings[t][k]
  BY <1>1, <1>2, <1>3 DEF RegistryOK
<1>6. settings' = [t \in Tokens |-> [k \in 1..Stores |-> settings'[t][k]]]
  BY <1>1, <1>2, <1>3 DEF RegistryOK
<1> HIDE DEF token, n, conf
<1>7. RegistryOK'
  <2>1. stage' \in [Clients -> Stages]
    BY <1>1, <1>2 DEF RegistryOK, Stages
  <2>2. filled' \in [Clients -> Nat]
    BY <1>1, <1>2, <1>3 DEF RegistryOK
  <2> QED BY <1>1, <1>2, <1>6, <2>1, <2>2 DEF RegistryOK
<1>8. PublishedOK'
  <2> SUFFICES ASSUME NEW i \in DOMAIN assets, assets[i] \in Tokens \ inner
               PROVE  \E d \in Clients : Publishes(d, i)'
    BY <1>2 DEF PublishedOK
  <2>1. PICK d \in Clients : Publishes(d, i)
    BY <1>1 DEF PublishedOK
  <2>2. d # c
    BY <1>2, <2>1 DEF Publishes
  <2> QED BY <1>2, <1>4, <2>1, <2>2 DEF Publishes
<1>9. ASSUME NEW d \in Clients, NEW e \in Clients PROVE StoresTheSame(d, e)'
  <2>1. stage'[d] # "idle" => stage[d] # "idle"
    BY <1>2, <1>4
  <2>2. stage'[e] = "fill" => stage[e] = "fill"
    BY <1>2, <1>4
  <2> QED BY <1>1, <1>2, <2>1, <2>2 DEF StoresTheSame, ChainID
<1>10. ASSUME NEW d \in Clients PROVE (HasToken(d) /\ HasChain(d))'
  <2>1. CASE d = c
    BY <1>1, <1>2, <1>4, <2>1 DEF HasToken, HasChain, ChainID
  <2>2. CASE d # c
    BY <1>1, <1>2, <1>4, <2>2 DEF HasToken, HasChain, ChainID
  <2> QED BY <2>1, <2>2
<1>11. ASSUME NEW d \in Clients, stage'[d] \in {"fill", "filled"}, at[d] \notin overtaken[d],
              NEW k \in 1..Stores, k <= filled'[d]
       PROVE  settings'[at[d]][k] = assets[ChainID(at[d])]
  <2>1. stage[d] \in {"fill", "filled"} /\ at[d] \in Tokens
    BY <1>1, <1>2, <1>4, <1>11 DEF HasToken
  <2>2. CASE at[d] = token /\ k = n
    <3>1. conf = assets[ChainID(at[c])]
      <4>1. at[d] = at[c] /\ stage[d] # "idle"
        BY <2>1, <2>2 DEF token
      <4>2. StoresTheSame(d, c)
        BY <1>1
      <4> QED BY <1>2, <1>11, <4>1, <4>2 DEF StoresTheSame, conf
    <3> QED BY <1>5, <2>1, <2>2, <3>1 DEF token
  <2>3. CASE ~(at[d] = token /\ k = n)
    <3>1. settings'[at[d]][k] = settings[at[d]][k]
      BY <1>5, <2>1, <2>3
    <3>2. k <= filled[d]
      <4>1. CASE d = c
        BY <1>3, <1>4, <1>11, <2>3, <4>1 DEF token, n
      <4>2. CASE d # c
        BY <1>4, <1>11, <4>2
      <4> QED BY <4>1, <4>2
    <3> QED BY <1>1, <1>11, <2>1, <3>1, <3>2 DEF HasSettings
  <2> QED BY <2>2, <2>3
<1>12. \A d \in Clients : HasSettings(d)'
  BY <1>2, <1>11 DEF HasSettings, ChainID
<1> QED
  BY <1>7, <1>8, <1>9, <1>10, <1>12 DEF RegistryInv, CallsOK

LEMMA ReturnFilledKeepsRegistry ==
  ASSUME RegistryInv, NEW c \in Clients, ReturnFilled(c)
  PROVE  RegistryInv'
<1>1. /\ assets' = assets /\ inner' = inner /\ settings' = settings
      /\ \A i : ~Publishes(c, i)
  BY DEF ReturnFilled, store, Publishes
<1>2. Return(c, at[c])
  BY DEF ReturnFilled
<1> QED
  BY <1>1, <1>2, ReturnKeepsRegistry

LEMMA NativeKeepsRegistry ==
  ASSUME RegistryInv, NEW c \in Clients, NativeDestination(c)
  PROVE  RegistryInv'
<1>1. /\ assets' = assets /\ inner' = inner /\ settings' = settings
      /\ \A i : ~Publishes(c, i)
  BY DEF NativeDestination, store, Publishes
<1>2. PICK o \in Natives : Return(c, o)
  BY DEF NativeDestination
<1> QED
  BY <1>1, <1>2, ReturnKeepsRegistry

LEMMA RegistryInitially == RegistryInit => RegistryInv
<1> SUFFICES ASSUME RegistryInit PROVE RegistryInv
  OBVIOUS
<1>1. \A i \in DOMAIN assets : assets[i] \in Configured
  BY DEF RegistryInit
<1>2. RegistryOK
  <2>1. \A i \in DOMAIN assets : assets[i] \in Objects
    BY <1>1, ObjectsAssumption
  <2>2. settings = [t \in Tokens |-> [k \in 1..Stores |-> settings[t][k]]]
    BY DEF RegistryInit
  <2> QED BY <2>1, <2>2 DEF RegistryInit, RegistryOK, Stages
<1>3. PublishedOK
  BY <1>1 DEF RegistryInit, PublishedOK
<1>4. CallsOK
  BY DEF RegistryInit, CallsOK, HasToken, HasChain, HasSettings, StoresTheSame
<1> QED
  BY <1>2, <1>3, <1>4 DEF RegistryInv

LEMMA RegistryStep == RegistryInv /\ [RegistryNext]_registryVars => RegistryInv'
<1> SUFFICES ASSUME RegistryInv, [RegistryNext]_registryVars PROVE RegistryInv'
  OBVIOUS
<1>1. CASE UNCHANGED registryVars
  <2>1. RegistryOK' /\ PublishedOK'
    BY <1>1 DEF registryVars, RegistryInv, RegistryOK, PublishedOK, Publishes
  <2>2. CallsOK'
    BY <1>1 DEF registryVars, RegistryInv, CallsOK, HasToken, HasChain, HasSettings,
                StoresTheSame, ChainID
  <2> QED BY <2>1, <2>2 DEF RegistryInv
<1>2. CASE RegistryNext
  <2>1. PICK c \in Clients :
          \/ GetAssetConfig(c) \/ GetAssetConfigByContract(c) \/ EnrichDestinations(c)
          \/ PutAssetConfig(c) \/ FindByContract(c) \/ LoadConfig(c) \/ LoadChain(c)
          \/ Fill(c) \/ ReturnFilled(c) \/ NativeDestination(c)
    BY <1>2 DEF RegistryNext
  <2>2. CASE GetAssetConfig(c)
    BY <2>2, BeginKeepsRegistry DEF GetAssetConfig
  <2>3. CASE GetAssetConfigByContract(c)
    BY <2>3, BeginKeepsRegistry DEF GetAssetConfigByContract
  <2>4. CASE EnrichDestinations(c)
    BY <2>4, BeginKeepsRegistry DEF EnrichDestinations
  <2> QED
    BY <2>1, <2>2, <2>3, <2>4, PutKeepsRegistry, FindKeepsRegistry, LoadKeepsRegistry,
       LoadChainKeepsRegistry, FillKeepsRegistry, ReturnFilledKeepsRegistry,
       NativeKeepsRegistry
<1> QED
  BY <1>1, <1>2

LEMMA RegistryInvariant == RegistrySpec => []RegistryInv
BY RegistryInitially, RegistryStep, PTL DEF RegistrySpec

\* Which steps end a call that is at a given stage.
LEMMA EndOfStage ==
  ASSUME RegistryInv, NEW c \in Clients, [RegistryNext]_registryVars,
         stage[c] \in {"find", "enrich", "filled"}, stage'[c] = "idle"
  PROVE  FindByContract(c) \/ LoadChain(c) \/ ReturnFilled(c)
<1>1. /\ stage = [d \in Clients |-> stage[d]]
      /\ stage' # stage
  BY DEF RegistryInv, RegistryOK
<1>2. PICK d \in Clients :
        \/ GetAssetConfig(d) \/ GetAssetConfigByContract(d) \/ EnrichDestinations(d)
        \/ PutAssetConfig(d) \/ FindByContract(d) \/ LoadConfig(d) \/ LoadChain(d)
        \/ Fill(d) \/ ReturnFilled(d) \/ NativeDestination(d)
  BY <1>1 DEF RegistryNext, registryVars
<1>3. \E label : stage' = [stage EXCEPT ![d] = label]
  <2>1. GetAssetConfig(d) \/ GetAssetConfigByContract(d) \/ EnrichDestinations(d)
          \/ PutAssetConfig(d) \/ FindByContract(d) => \E label : Proceed(d, label)
    BY DEF GetAssetConfig, GetAssetConfigByContract, EnrichDestinations, Begin, PutAssetConfig,
           FindByContract, Miss, Return
  <2>2. LoadConfig(d) \/ LoadChain(d) \/ Fill(d) \/ ReturnFilled(d) \/ NativeDestination(d)
          => \E label : Proceed(d, label)
    BY DEF LoadConfig, LoadChain, LoadChainIf, Fill, ReturnFilled, NativeDestination, Miss,
           Return
  <2> QED
    BY <1>2, <2>1, <2>2 DEF Proceed
<1>4. d = c
  BY <1>1, <1>3
<1>5. ~(GetAssetConfig(c) \/ GetAssetConfigByContract(c) \/ EnrichDestinations(c))
  BY DEF GetAssetConfig, GetAssetConfigByContract, EnrichDestinations, Begin
<1>6. ~(PutAssetConfig(c) \/ LoadConfig(c) \/ Fill(c) \/ NativeDestination(c))
  BY DEF PutAssetConfig, Put, LoadConfig, Fill, NativeDestination
<1> QED
  BY <1>2, <1>4, <1>5, <1>6

\* A lookup by contract finds every token whose embedded configuration is
\* filled in (Factory.cfgFromAssetByContract), and whoever puts a token fills it
\* in before PutAssetConfig returns.
THEOREM RegisteredAreFound == RegistrySpec => RegisteredTokensAreFound
<1>1. ASSUME RegistryInv, [RegistryNext]_registryVars, NEW c \in Clients,
             stage[c] = "find", stage'[c] = "idle",
             NEW i \in DOMAIN assets, assets[i] \in Tokens, Settled(i), Asked(c, assets[i])
      PROVE  FALSE
  <2>1. FindByContract(c)
    <3>1. ~LoadChain(c) /\ ~ReturnFilled(c)
      BY <1>1 DEF LoadChain, LoadChainIf, ReturnFilled
    <3> QED
      BY <1>1, <3>1, EndOfStage
  <2>2. \A j \in DOMAIN assets : ~Fits(assets[j], lookup[c].contract, lookup[c].chain)
    <3>1. ~Proceed(c, "load")
      BY <1>1 DEF Proceed, RegistryInv, RegistryOK
    <3> QED
      BY <2>1, <3>1 DEF FindByContract
  <2>3. assets[i] \in inner
    <3>1. \A d \in Clients : ~Publishes(d, i)
      BY <1>1 DEF Settled, Publishes
    <3> QED
      BY <1>1, <3>1 DEF RegistryInv, PublishedOK
  <2>4. assets[i] \notin Natives
    BY <1>1, ObjectsAssumption
  <2>5. /\ Shown(assets[i]).chain = Given[assets[i]].chain
        /\ Shown(assets[i]).contract = Given[assets[i]].contract
    BY <2>3, <2>4 DEF Shown
  <2>6. Fits(assets[i], lookup[c].contract, lookup[c].chain)
    BY <1>1, <2>5 DEF Fits, Asked
  <2> QED
    BY <1>1, <2>2, <2>6
<1> DEFINE Found ==
      \A c \in Clients :
        stage[c] = "find" /\ stage'[c] = "idle" =>
          ~\E i \in DOMAIN assets :
             assets[i] \in Tokens /\ Settled(i) /\ Asked(c, assets[i])
<1>2. RegistryInv /\ [RegistryNext]_registryVars => Found
  BY <1>1
<1> QED
  BY <1>2, RegistryInvariant, PTL DEF RegistrySpec, RegisteredTokensAreFound

\* A token is returned with all the settings of what is now its chain's
\* configuration (Factory.cfgEnrichAssetConfig), whatever other calls store into
\* it meanwhile, unless the chain was put again during the call, or an older call
\* was storing older settings when this one began.
THEOREM SettingsStayFresh == RegistrySpec => SettingsAreFresh
<1> DEFINE Fresh ==
      \A c \in Clients :
        stage[c] \in {"enrich", "filled"} /\ stage'[c] = "idle" =>
          LET id == ChainID(at[c])
          IN  id \in DOMAIN assets /\ at[c] \notin overtaken[c] =>
                \A k \in 1..Stores : settings'[at[c]][k] = assets[id]
<1>1. ASSUME RegistryInv, [RegistryNext]_registryVars, NEW c \in Clients,
             stage[c] \in {"enrich", "filled"}, stage'[c] = "idle",
             ChainID(at[c]) \in DOMAIN assets, at[c] \notin overtaken[c],
             NEW k \in 1..Stores
      PROVE  settings'[at[c]][k] = assets[ChainID(at[c])]
  <2>1. LoadChain(c) \/ ReturnFilled(c)
    <3>1. ~FindByContract(c)
      BY <1>1 DEF FindByContract
    <3> QED
      BY <1>1, <3>1, EndOfStage
  <2>2. ~LoadChain(c)
    <3>1. ~Proceed(c, "fill")
      BY <1>1 DEF Proceed, RegistryInv, RegistryOK
    <3> QED
      BY <1>1, <3>1 DEF LoadChain, LoadChainIf
  <2>3. stage[c] = "filled" /\ settings' = settings
    BY <2>1, <2>2 DEF ReturnFilled, store
  <2>4. HasChain(c) /\ HasSettings(c)
    BY <1>1 DEF RegistryInv, CallsOK
  <2>5. k <= filled[c]
    BY <2>3, <2>4 DEF HasChain
  <2> QED
    BY <1>1, <2>3, <2>4, <2>5 DEF HasSettings
<1>2. RegistryInv /\ [RegistryNext]_registryVars => Fresh
  BY <1>1
<1> QED
  BY <1>2, RegistryInvariant, PTL DEF RegistrySpec, SettingsAreFresh
=============================================================================
