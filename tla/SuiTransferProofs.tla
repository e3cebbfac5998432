------------------------- MODULE SuiTransferProofs -------------------------
(***************************************************************************)
(* Proofs about SuiTransfer: a transfer that was built runs as long as its *)
(* coins are as they were fetched, the recipient gets the amount once, and *)
(* only in the epoch of the transfer. The last two rest on ReadsAsBuilt,   *)
(* that the bytes of a transaction are read as they were written.          *)
(***************************************************************************)
EXTENDS SuiTransfer, Facts

(* Numbers as bytes *)

\* What is left of n after the next digit is counted, too.
LEMMA OneMoreDigit ==
  ASSUME NEW n \in Nat, NEW p \in Nat \ {0}, NEW b \in Nat \ {0}
  PROVE  n % (p * b) = (n % p) + ((n \div p) % b) * p
<1> DEFINE q == n \div p
           r == n % p
           q2 == q \div b
           s == q % b
<1>1. q \in Nat /\ r \in 0..(p - 1) /\ n = p * q + r
  OBVIOUS
<1>2. q2 \in Nat /\ s \in 0..(b - 1) /\ q = b * q2 + s
  BY <1>1
<1> HIDE DEF q, r, q2, s
<1> DEFINE m == p * b
           x == r + s * p
<1>3. m \in Nat \ {0}
  OBVIOUS
<1>4. n = m * q2 + x
  <2>1. p * q = p * (b * q2) + p * s
    BY <1>1, <1>2
  <2>2. p * (b * q2) = m * q2
    BY <1>2
  <2>3. p * s = s * p /\ p * s \in Nat
    BY <1>2
  <2>4. m * q2 \in Nat /\ x = r + s * p
    BY <1>2, <1>3
  <2> HIDE DEF m, x
  <2>5. n = m * q2 + s * p + r
    BY ONLY <1>1, <2>1, <2>2, <2>3
  <2> QED BY ONLY <1>1, <2>3, <2>4, <2>5
<1>5. x \in Nat /\ x < m
  <2>1. s * p \in Nat /\ s * p <= (b - 1) * p
    BY <1>2
  <2>2. (b - 1) * p = m - p /\ m \in Nat
    OBVIOUS
  <2> QED BY <1>1, <2>1, <2>2
<1>6. n % m = x
  <2> HIDE DEF m, x
  <2> DEFINE u == n \div m
             v == n % m
  <2>1. u \in Nat /\ v \in 0..(m - 1) /\ n = m * u + v
    BY <1>3
  <2> HIDE DEF u, v
  <2>2. m * u + v = m * q2 + x
    BY <1>4, <2>1
  <2>3. u = q2
    <3>1. CASE u < q2
      <4>1. m * (u + 1) <= m * q2 /\ m * (u + 1) = m * u + m /\ m * u \in Nat /\ m * q2 \in Nat
        BY <3>1, <1>2, <1>3, <2>1
      <4> QED BY <4>1, <2>2, <2>1, <1>5, <1>3
    <3>2. CASE q2 < u
      <4>1. m * (q2 + 1) <= m * u /\ m * (q2 + 1) = m * q2 + m /\ m * u \in Nat /\ m * q2 \in Nat
        BY <3>2, <1>2, <1>3, <2>1
      <4> QED BY <4>1, <2>2, <2>1, <1>5, <1>3
    <3> QED BY <3>1, <3>2, <2>1, <1>2
  <2>4. v = x
    BY <2>2, <2>3, <2>1, <1>3, <1>5, <1>2
  <2> QED BY <2>4 DEF v
<1> QED BY <1>6 DEF m, x, r, s, q

Widths == 0..(U64Bytes + AddressBytes)

LEMMA SizeFacts ==
  /\ 0 \in Widths /\ U64Bytes \in Widths /\ AddressBytes \in Widths
  /\ Size(0) = 1 /\ Size(1) \in Nat \ {0, 1}
  /\ \A k \in Widths : /\ Size(k) \in Nat \ {0}
                       /\ Size(k + 1) = Size(k) * Size(1)
                       /\ k > 0 => Size(k) > 1
<1> DEFINE N == { k \in Nat : k \in Widths => Size(k) \in Nat \ {0} /\ (k > 0 => Size(k) > 1) }
<1>1. /\ 0 \in Widths /\ U64Bytes \in Widths /\ AddressBytes \in Widths
      /\ Size(0) = 1 /\ Size(1) \in Nat \ {0, 1}
      /\ \A k \in Widths : Size(k + 1) = Size(k) * Size(1)
  BY BytesAssumption, SizeAssumption DEF Widths
<1>2. 0 \in N
  BY <1>1
<1>3. ASSUME NEW k \in Nat, k \in N PROVE k + 1 \in N
  <2> SUFFICES ASSUME k + 1 \in Widths PROVE Size(k + 1) \in Nat \ {0} /\ Size(k + 1) > 1
    OBVIOUS
  <2>1. k \in Widths
    BY BytesAssumption DEF Widths
  <2>2. Size(k) \in Nat \ {0} /\ Size(k + 1) = Size(k) * Size(1) /\ Size(1) \in Nat /\ Size(1) > 1
    BY <2>1, <1>1, <1>3
  <2> QED BY <2>2
<1>4. Nat \subseteq N
  <2> HIDE DEF N
  <2> QED BY <1>2, <1>3, NatSetInduction
<1>5. \A k \in Widths : k \in Nat
  BY BytesAssumption DEF Widths
<1> QED BY <1>1, <1>4, <1>5

Worths(n, width) == [k \in 1..width |-> IntBytes(n, width)[k] * Size(k - 1)]

LEMMA BytesSumUp ==
  ASSUME NEW n \in Nat, NEW width \in Widths
  PROVE  SumFunctionOnSet(Worths(n, width), 1..width) = n % Size(width)
<1> DEFINE N == { w \in Nat : w \in Widths => SumFunctionOnSet(Worths(n, w), 1..w) = n % Size(w) }
<1>1. 0 \in N
  <2>1. 1..0 = {} /\ n % Size(0) = 0
    BY SizeFacts
  <2> QED BY <2>1, SumEmpty
<1>2. ASSUME NEW w \in Nat, w \in N PROVE w + 1 \in N
  <2> SUFFICES ASSUME w + 1 \in Widths
               PROVE  SumFunctionOnSet(Worths(n, w + 1), 1..(w + 1)) = n % Size(w + 1)
    OBVIOUS
  <2>1. w \in Widths
    BY BytesAssumption DEF Widths
  <2>2. \A k \in 1..(w + 1) : /\ (n \div Size(k - 1)) % Size(1) \in Nat
                              /\ Size(k - 1) \in Nat
    <3> TAKE k \in 1..(w + 1)
    <3>1. k - 1 \in Widths
      BY BytesAssumption DEF Widths
    <3>2. Size(k - 1) \in Nat \ {0} /\ Size(1) \in Nat \ {0}
      BY <3>1, SizeFacts
    <3>3. n \div Size(k - 1) \in Nat
      BY <3>2
    <3> QED BY <3>2, <3>3
  <2> DEFINE g == Worths(n, w + 1)
             h == Worths(n, w)
  <2>3. \A k \in 1..(w + 1) : g[k] = ((n \div Size(k - 1)) % Size(1)) * Size(k - 1)
    BY DEF Worths, IntBytes
  <2>4. \A k \in 1..w : h[k] = g[k]
    BY <2>3 DEF Worths, IntBytes
  <2>5. \A k \in 1..(w + 1) : g[k] \in Nat
    BY <2>2, <2>3
  <2>6. g[w + 1] = ((n \div Size(w)) % Size(1)) * Size(w)
    BY <2>3
  <2> HIDE DEF g, h
  <2>7. SumFunctionOnSet(g, 1..(w + 1)) = SumFunctionOnSet(h, 1..w) + g[w + 1]
    BY <2>4, <2>5, SumOfOneMore
  <2>8. SumFunctionOnSet(h, 1..w) = n % Size(w)
    BY <1>2, <2>1 DEF h
  <2>9. n % (Size(w) * Size(1)) = (n % Size(w)) + ((n \div Size(w)) % Size(1)) * Size(w)
    BY <2>1, SizeFacts, OneMoreDigit, ZenonT(40)
  <2> QED BY <2>1, <2>6, <2>7, <2>8, <2>9, SizeFacts DEF g
<1>3. Nat \subseteq N
  <2> HIDE DEF N
  <2> QED BY <1>1, <1>2, NatSetInduction
<1>4. width \in Nat
  BY BytesAssumption DEF Widths
<1> QED BY <1>3, <1>4

\* A number that fits its bytes is read from them as it was written.
LEMMA BytesKeepNumbers ==
  ASSUME NEW width \in Widths, NEW n \in 0..(Size(width) - 1)
  PROVE  IntValue(IntBytes(n, width)) = n
<1>1. Size(width) \in Nat \ {0} /\ n \in Nat /\ n % Size(width) = n
  <2>1. Size(width) \in Nat \ {0}
    BY SizeFacts
  <2> QED BY <2>1
<1>2. DOMAIN IntBytes(n, width) = 1..width
  BY DEF IntBytes
<1>3. IntValue(IntBytes(n, width)) = SumFunctionOnSet(Worths(n, width), 1..width)
  BY <1>2 DEF IntValue, SumFunction, Worths
<1> QED BY <1>1, <1>3, BytesSumUp
-----------------------------------------------------------------------------
(* Lists *)

LEMMA FunctionIsSeq ==
  ASSUME NEW n \in Nat, NEW f, f = [k \in 1..n |-> f[k]]
  PROVE  IsSeq(f) /\ Len(f) = n
<1> DEFINE T == { f[k] : k \in 1..n }
<1>1. f \in [1..n -> T]
  OBVIOUS
<1>2. f \in Seq(T)
  BY <1>1
<1>3. Len(f) = n
  BY <1>1, <1>2
<1> QED BY <1>3 DEF IsSeq

LEMMA EmptyList == IsSeq(<< >>) /\ Len(<< >>) = 0
<1>1. << >> \in Seq({})
  OBVIOUS
<1> QED BY <1>1, SeqIsSeq

LEMMA ShortLists ==
  ASSUME NEW a, NEW b
  PROVE  /\ IsSeq(<<a>>) /\ Len(<<a>>) = 1 /\ <<a>>[1] = a /\ DOMAIN <<a>> = {1}
         /\ IsSeq(<<a, b>>) /\ Len(<<a, b>>) = 2 /\ <<a, b>>[1] = a /\ <<a, b>>[2] = b
<1>1. <<a>> \in Seq({a, b}) /\ <<a, b>> \in Seq({a, b})
  OBVIOUS
<1>2. IsSeq(<<a>>) /\ IsSeq(<<a, b>>)
  BY <1>1, SeqIsSeq
<1> QED BY <1>2

LEMMA JoinFacts ==
  ASSUME NEW s, IsSeq(s), NEW t, IsSeq(t)
  PROVE  /\ IsSeq(s \o t)
         /\ Len(s \o t) = Len(s) + Len(t)
         /\ \A i \in 1..Len(s) : (s \o t)[i] = s[i]
         /\ \A i \in 1..Len(t) : (s \o t)[Len(s) + i] = t[i]
<1> DEFINE S == { s[k] : k \in 1..Len(s) }
           T == { t[k] : k \in 1..Len(t) }
           U == S \cup T
<1>1. s \in Seq(S) /\ t \in Seq(T) /\ Len(s) \in Nat /\ Len(t) \in Nat
  BY SeqOfItsElements DEF IsSeq
<1>2. s \in Seq(U) /\ t \in Seq(U)
  BY <1>1
<1> HIDE DEF U
<1> DEFINE u == s \o t
<1>3. /\ u \in Seq(U) /\ Len(u) = Len(s) + Len(t)
      /\ \A i \in 1..(Len(s) + Len(t)) : u[i] = IF i <= Len(s) THEN s[i] ELSE t[i - Len(s)]
  BY <1>2, ConcatProperties
<1> HIDE DEF u
<1>4. IsSeq(u)
  BY <1>3, SeqIsSeq
<1>5. \A i \in 1..Len(s) : u[i] = s[i]
  BY <1>1, <1>3
<1>6. \A i \in 1..Len(t) : u[Len(s) + i] = t[i]
  <2> TAKE i \in 1..Len(t)
  <2>1. Len(s) + i \in 1..(Len(s) + Len(t)) /\ ~(Len(s) + i <= Len(s)) /\ (Len(s) + i) - Len(s) = i
    BY <1>1
  <2> QED BY <2>1, <1>3
<1> QED BY <1>3, <1>4, <1>5, <1>6 DEF u

LEMMA MinIsLeast ==
  ASSUME NEW S, NEW x \in S, \A y \in S : x <= y, \A y \in S : y \in Int
  PROVE  Min(S) = x
<1>1. Min(S) \in S /\ \A y \in S : Min(S) <= y
  BY DEF Min
<1> QED BY <1>1

\* The whole of a list.
LEMMA AllOfIt ==
  ASSUME NEW s, IsSeq(s)
  PROVE  SubSeq(s, 1, Len(s)) = s
<1>1. Len(s) \in Nat
  BY DEF IsSeq
<1> QED BY <1>1, PrefixFacts
-----------------------------------------------------------------------------
(* Coins *)

IsCoin(c) == c = [id |-> c.id, type |-> c.type, balance |-> c.balance, version |-> c.version]

\* What New, Worth and Bumped make, and leave as it is.
LEMMA NewParts ==
  ASSUME NEW type, NEW n
  PROVE  /\ IsCoin(New(type, n)) /\ New(type, n).id = 0 /\ New(type, n).type = type
         /\ New(type, n).balance = n /\ New(type, n).version = 0
  BY DEF IsCoin, New

LEMMA CoinParts ==
  ASSUME NEW c, IsCoin(c), NEW n
  PROVE  /\ IsCoin(Worth(c, n)) /\ Worth(c, n).id = c.id /\ Worth(c, n).type = c.type
         /\ Worth(c, n).version = c.version /\ Worth(c, n).balance = n
         /\ IsCoin(Bumped(c, n)) /\ Bumped(c, n).id = c.id /\ Bumped(c, n).type = c.type
         /\ Bumped(c, n).balance = n /\ Bumped(c, n).version = c.version + 1
<1>1. /\ IsCoin(Worth(c, n)) /\ Worth(c, n).id = c.id /\ Worth(c, n).type = c.type
      /\ Worth(c, n).version = c.version /\ Worth(c, n).balance = n
  BY DEF IsCoin, Worth
<1> DEFINE d == Worth(c, n)
           e == [d EXCEPT !.version = c.version + 1]
<1> HIDE DEF d
<1>2. IsCoin(e) /\ e.id = d.id /\ e.type = d.type /\ e.balance = d.balance /\ e.version = c.version + 1
  BY <1>1 DEF IsCoin, d
<1> QED BY <1>1, <1>2 DEF Bumped, d

LEMMA CoinObjectsAreCoins ==
  ASSUME NEW c \in CoinObjects
  PROVE  /\ IsCoin(c) /\ c.id \in Nat \ {0} /\ c.id \in 0..(Size(AddressBytes) - 1)
         /\ c.type \in {"sui", "token"} /\ c.version \in Nat
         /\ c.balance \in 0..(Size(U64Bytes) - 1)
<1>1. Size(AddressBytes) \in Nat
  BY SizeFacts
<1> QED BY <1>1 DEF CoinObjects, IsCoin

\* A reference says which coin it is of, which version, and what that holds.
LEMMA ReferencesTellCoins ==
  ASSUME NEW c, NEW d, c.id \in 0..(Size(AddressBytes) - 1), d.id \in 0..(Size(AddressBytes) - 1),
         coinToObject(c) = coinToObject(d)
  PROVE  c.id = d.id /\ c.version = d.version /\ c.balance = d.balance
<1>1. /\ coinToObject(c)[1] = coinToObject(d)[1]
      /\ coinToObject(c)[2] = coinToObject(d)[2]
      /\ coinToObject(c)[3] = coinToObject(d)[3]
  OBVIOUS
<1>2. Address(c.id) = Address(d.id) /\ c.version = d.version /\ DigestOf(c) = DigestOf(d)
  BY <1>1 DEF coinToObject
<1>3. IntBytes(c.id, AddressBytes) = IntBytes(d.id, AddressBytes)
  BY <1>2 DEF Address
<1>4. c.balance = d.balance
  BY <1>2 DEF DigestOf
<1>5. /\ IntValue(IntBytes(c.id, AddressBytes)) = c.id
      /\ IntValue(IntBytes(d.id, AddressBytes)) = d.id
  BY SizeFacts, BytesKeepNumbers
<1> QED BY <1>2, <1>3, <1>4, <1>5

\* The coins of a wallet, of which the given ones are or were some.
ChainOK(in) ==
  /\ IsFiniteSet(coins) /\ coins \subseteq CoinObjects
  /\ \A c1, c2 \in coins : c1.id = c2.id => c1 = c2
  /\ \A c \in coins :
       /\ c.id = in.gas.id => c.type = in.gas.type
       /\ \A k \in 1..Len(in.coins) : c.id = in.coins[k].id => c.type = in.coins[k].type

LEMMA CoinIsFound ==
  ASSUME NEW c \in CoinObjects, coins \subseteq CoinObjects,
         \A x \in coins : x.id = c.id => x.type = c.type,
         \E x \in coins : coinToObject(x) = coinToObject(c)
  PROVE  c \in coins /\ CoinAt(coinToObject(c)) = c
<1>1. ASSUME NEW x \in coins, coinToObject(x) = coinToObject(c) PROVE x = c
  <2>1. x.id = c.id /\ x.version = c.version /\ x.balance = c.balance
    BY <1>1, CoinObjectsAreCoins, ReferencesTellCoins
  <2>2. x.type = c.type
    BY <2>1
  <2>3. IsCoin(x) /\ IsCoin(c)
    BY CoinObjectsAreCoins
  <2> QED BY <2>1, <2>2, <2>3 DEF IsCoin
<1>2. c \in coins
  BY <1>1
<1>3. CoinAt(coinToObject(c)) \in coins /\ coinToObject(CoinAt(coinToObject(c))) = coinToObject(c)
  BY <1>2 DEF CoinAt
<1> QED BY <1>1, <1>2, <1>3
-----------------------------------------------------------------------------
(* What is planned *)

ListOK(list) ==
  /\ IsSeq(list) /\ Len(list) <= MaxCoinObjects
  /\ \A k \in 1..Len(list) : list[k] \in CoinObjects
  /\ \A j, k \in 1..Len(list) : list[j].id = list[k].id => j = k
  /\ \A j, k \in 1..Len(list) : list[j].type = list[k].type

\* An input of which a transfer can be made.
Planned(in, amt) ==
  /\ ListOK(in.coins)
  /\ in.gas \in CoinObjects /\ in.gas.type = "sui"
  /\ \A k \in 1..Len(in.coins) : in.coins[k].id # in.gas.id
  /\ in.budget \in Nat /\ amt \in Nat
  /\ ~ Fails(in, amt)

\* The place of the first coin among the inputs, less one.
Offset(in) == IF SplitsGasCoin(in) THEN 1 ELSE 0

LEMMA PlanParts ==
  ASSUME NEW in, NEW amt
  PROVE  LET d == Plan(in, amt)
         IN  /\ InputsOf(d) = CmdInputs(in, amt)
             /\ CommandsOf(d) = Commands(in, amt)
             /\ GasRef(d) = coinToObject(in.gas)
             /\ BudgetOf(d) = Budget(in, amt)
             /\ ExpiryOf(d) = Expiration(in)
<1> DEFINE kind == Val("TransactionKind__ProgrammableTransaction",
                       << <<CmdInputs(in, amt), Commands(in, amt)>> >>)
           gas == << <<coinToObject(in.gas)>>, Address(Wallet), in.price, Budget(in, amt)>>
           expiry == Expiration(in)
           d == Plan(in, amt)
<1>1. /\ kind[2][1][1] = CmdInputs(in, amt) /\ kind[2][1][2] = Commands(in, amt)
      /\ gas[1][1] = coinToObject(in.gas) /\ gas[4] = Budget(in, amt)
  BY DEF Val
<1>2. d = Val("TransactionData__V1", << <<kind, Address(Wallet), gas, expiry>> >>)
  BY DEF Plan
<1> HIDE DEF kind, gas, expiry, d
<1>3. d[2][1][1] = kind /\ d[2][1][3] = gas /\ d[2][1][4] = expiry
  BY <1>2 DEF Val
<1> QED BY <1>1, <1>3 DEF d, expiry, InputsOf, CommandsOf, GasRef, GasDataOf, BudgetOf, ExpiryOf

LEMMA SpendableIsAll ==
  ASSUME NEW in, ListOK(in.coins)
  PROVE  Spendable(in) = in.coins /\ Len(in.coins) \in Nat /\ DOMAIN in.coins = 1..Len(in.coins)
<1>1. /\ Len(in.coins) \in Nat /\ MaxCoinObjects \in Nat /\ Len(in.coins) <= MaxCoinObjects
      /\ IsSeq(in.coins) /\ DOMAIN in.coins = 1..Len(in.coins)
  BY SuiAssumption DEF ListOK, IsSeq
<1>2. Min({Len(in.coins), MaxCoinObjects + 2}) = Len(in.coins)
  <2> DEFINE x == Len(in.coins)
             S == {x, MaxCoinObjects + 2}
  <2>1. x \in S /\ (\A y \in S : x <= y) /\ (\A y \in S : y \in Int)
    BY <1>1
  <2> HIDE DEF x, S
  <2>2. Min(S) = x
    BY <2>1, MinIsLeast
  <2> QED BY <2>2 DEF x, S
<1> QED BY <1>1, <1>2, AllOfIt DEF Spendable

LEMMA CmdInputsFacts ==
  ASSUME NEW in, ListOK(in.coins), NEW amt
  PROVE  LET I == CmdInputs(in, amt)
             f == Offset(in)
             m == Len(in.coins)
         IN  /\ IsSeq(I) /\ Len(I) = f + m + 2
             /\ f = 1 => I[1] = u64ToPure(in.gas.balance - Budget(in, amt))
             /\ \A k \in 1..m : I[f + k] = ObjectInput(in.coins[k])
             /\ I[f + m + 1] = u64ToPure(Uint64(amt))
             /\ I[f + m + 2] = Val("CallArg__Pure", Address(Recipient))
<1> DEFINE f == Offset(in)
           m == Len(in.coins)
           left == u64ToPure(in.gas.balance - Budget(in, amt))
           amount1 == u64ToPure(Uint64(amt))
           address == Val("CallArg__Pure", Address(Recipient))
           a == IF SplitsGasCoin(in) THEN <<left>> ELSE <<>>
           b == [k \in DOMAIN Spendable(in) |-> ObjectInput(Spendable(in)[k])]
           c == <<amount1, address>>
           ab == a \o b
           I == CmdInputs(in, amt)
<1>1. m \in Nat /\ b = [k \in 1..m |-> ObjectInput(in.coins[k])]
  BY SpendableIsAll
<1>2. I = ab \o c
  BY DEF CmdInputs
<1>3. f \in {0, 1} /\ IsSeq(a) /\ Len(a) = f /\ (f = 1 => a[1] = left)
  <2>1. CASE SplitsGasCoin(in)
    <3>1. a = <<left>> /\ f = 1
      BY <2>1 DEF Offset
    <3> HIDE DEF a, f
    <3> QED BY <3>1, ShortLists
  <2>2. CASE ~ SplitsGasCoin(in)
    <3>1. a = <<>> /\ f = 0
      BY <2>2 DEF Offset
    <3> HIDE DEF a, f
    <3> QED BY <3>1, EmptyList
  <2> QED BY <2>1, <2>2
<1>4. IsSeq(b) /\ Len(b) = m /\ \A k \in 1..m : b[k] = ObjectInput(in.coins[k])
  <2> HIDE DEF b, m
  <2>1. b = [k \in 1..m |-> b[k]]
    BY <1>1
  <2> QED BY <1>1, <2>1, FunctionIsSeq
<1>5. IsSeq(c) /\ Len(c) = 2 /\ c[1] = amount1 /\ c[2] = address
  BY ShortLists
<1> HIDE DEF a, b, c, f, m, left, amount1, address, I
<1>6. /\ IsSeq(ab) /\ Len(ab) = f + m
      /\ \A i \in 1..f : ab[i] = a[i]
      /\ \A i \in 1..m : ab[f + i] = b[i]
  <2>1. IsSeq(a) /\ IsSeq(b)
    BY <1>3, <1>4
  <2>2. /\ IsSeq(a \o b) /\ Len(a \o b) = Len(a) + Len(b)
        /\ \A i \in 1..Len(a) : (a \o b)[i] = a[i]
        /\ \A i \in 1..Len(b) : (a \o b)[Len(a) + i] = b[i]
    BY ONLY <2>1, JoinFacts
  <2>3. ab = a \o b
    OBVIOUS
  <2> HIDE DEF ab
  <2> QED BY ONLY <1>3, <1>4, <2>2, <2>3
<1> HIDE DEF ab
<1>7. /\ IsSeq(I) /\ Len(I) = (f + m) + 2
      /\ \A i \in 1..(f + m) : I[i] = ab[i]
      /\ \A i \in 1..2 : I[(f + m) + i] = c[i]
  <2> DEFINE n == f + m
  <2>1. IsSeq(ab) /\ Len(ab) = n
    BY <1>6
  <2> HIDE DEF n
  <2>2. /\ IsSeq(I) /\ Len(I) = n + 2
        /\ \A i \in 1..n : I[i] = ab[i]
        /\ \A i \in 1..2 : I[n + i] = c[i]
    <3>1. /\ IsSeq(ab \o c) /\ Len(ab \o c) = Len(ab) + Len(c)
          /\ \A i \in 1..Len(ab) : (ab \o c)[i] = ab[i]
          /\ \A i \in 1..Len(c) : (ab \o c)[Len(ab) + i] = c[i]
      <4>1. IsSeq(ab)
        BY <2>1
      <4>2. IsSeq(c)
        BY <1>5
      <4> QED BY ONLY <4>1, <4>2, JoinFacts
    <3> QED BY <1>2, <1>5, <2>1, <3>1
  <2> QED BY <2>2 DEF n
<1>8. f = 1 => I[1] = left
  BY <1>1, <1>3, <1>6, <1>7
<1>9. \A k \in 1..m : I[f + k] = ObjectInput(in.coins[k])
  <2> TAKE k \in 1..m
  <2>1. f + k \in 1..(f + m)
    BY <1>1, <1>3
  <2> QED BY <2>1, <1>4, <1>6, <1>7
<1>10. I[f + m + 1] = amount1 /\ I[f + m + 2] = address
  BY <1>5, <1>7
<1> QED BY <1>7, <1>8, <1>9, <1>10, <1>1, <1>3 DEF f, m, left, amount1, address, I

LEMMA MergeInputsFacts ==
  ASSUME NEW in, ListOK(in.coins), in.coins # <<>>
  PROVE  LET M == MergeInputs(in)
             f == Offset(in)
             m == Len(in.coins)
         IN  /\ m > 0 /\ IsSeq(M) /\ Len(M) = f + (m - 1)
             /\ f = 1 => M[1] = Result(0)
             /\ \A k \in 1..(m - 1) : M[f + k] = Input(f + k)
<1> DEFINE f == Offset(in)
           m == Len(in.coins)
           a == IF SplitsGasCoin(in) THEN <<Result(0)>> ELSE <<>>
           b == [k \in 1..(m - 1) |-> Input(f + k)]
           M == MergeInputs(in)
<1>1. m \in Nat /\ m > 0
  <2>1. m \in Nat /\ IsSeq(in.coins)
    BY SpendableIsAll DEF ListOK
  <2>2. m = 0 => in.coins \in Seq({})
    BY <2>1, SeqOfItsElements
  <2>3. m = 0 => in.coins = <<>>
    BY <2>2
  <2> QED BY <2>1, <2>3
<1>2. M = a \o b
  BY SpendableIsAll DEF MergeInputs, Offset
<1>3. f \in {0, 1} /\ IsSeq(a) /\ Len(a) = f /\ (f = 1 => a[1] = Result(0))
  <2>1. CASE SplitsGasCoin(in)
    <3> DEFINE r == Result(0)
    <3>1. a = <<r>> /\ f = 1
      BY <2>1 DEF Offset
    <3> HIDE DEF a, f, r
    <3>2. f \in {0, 1} /\ IsSeq(a) /\ Len(a) = f /\ a[1] = r
      BY <3>1, ShortLists
    <3> QED BY <3>2 DEF r
  <2>2. CASE ~ SplitsGasCoin(in)
    <3>1. a = <<>> /\ f = 0
      BY <2>2 DEF Offset
    <3> HIDE DEF a, f
    <3> QED BY <3>1, EmptyList
  <2> QED BY <2>1, <2>2
<1>4. IsSeq(b) /\ Len(b) = m - 1 /\ \A k \in 1..(m - 1) : b[k] = Input(f + k)
  <2> DEFINE n == m - 1
  <2>1. n \in Nat /\ b = [k \in 1..n |-> b[k]] /\ \A k \in 1..n : b[k] = Input(f + k)
    BY <1>1
  <2> HIDE DEF b, n
  <2>2. IsSeq(b) /\ Len(b) = n
    BY <2>1, FunctionIsSeq
  <2> QED BY <2>1, <2>2 DEF n
<1> HIDE DEF a, b, f, m, M
<1>5. /\ IsSeq(M) /\ Len(M) = f + (m - 1)
      /\ \A i \in 1..f : M[i] = a[i]
      /\ \A i \in 1..(m - 1) : M[f + i] = b[i]
  BY <1>2, <1>3, <1>4, JoinFacts
<1> QED BY <1>1, <1>3, <1>4, <1>5 DEF f, m, M

SplitOff     == Val("Command__SplitCoins", <<Gas, <<Input(0)>>>>)
MergeAll(in) == Val("Command__MergeCoins", <<PrimaryCoin(in), MergeInputs(in)>>)
Pay(in) == Val("Command__SplitCoins",
               <<PrimaryCoin(in), <<Input(Offset(in) + Len(in.coins))>>>>)
Send(in, n) == Val("Command__TransferObjects",
                   << <<Result(n)>>, Input(Offset(in) + Len(in.coins) + 1)>>)

Merges(in) == in.coins # <<>> /\ MergeInputs(in) # <<>>

\* The number of commands before the last two.
Before(in) == Offset(in) + IF Merges(in) THEN 1 ELSE 0

LEMMA BeforeFacts ==
  ASSUME NEW in, ListOK(in.coins)
  PROVE  /\ Offset(in) \in {0, 1} /\ Before(in) \in 0..2 /\ Len(in.coins) \in Nat
         /\ Offset(in) = 1 <=> SplitsGasCoin(in)
         /\ Offset(in) = 1 => Before(in) = 2 /\ Merges(in) /\ in.coins # <<>>
         /\ in.coins = <<>> => Before(in) = 0 /\ Offset(in) = 0
<1>1. Offset(in) \in {0, 1} /\ (Offset(in) = 1 <=> SplitsGasCoin(in))
  BY DEF Offset
<1>2. in.coins = <<>> => ~ SplitsGasCoin(in) /\ ~ Merges(in)
  BY DEF SplitsGasCoin, Merges
<1>3. ASSUME Offset(in) = 1 PROVE Merges(in) /\ in.coins # <<>>
  <2>1. in.coins # <<>>
    BY <1>1, <1>2, <1>3
  <2> DEFINE M == MergeInputs(in)
             m == Len(in.coins)
  <2>2. m > 0 /\ IsSeq(M) /\ Len(M) = 1 + (m - 1) /\ m \in Nat
    BY <2>1, <1>3, MergeInputsFacts, SpendableIsAll
  <2> HIDE DEF M, m
  <2>3. M # <<>>
    BY <2>2, EmptyList
  <2> QED BY <2>1, <2>3 DEF M, Merges
<1> QED BY <1>1, <1>2, <1>3, SpendableIsAll DEF Before

LEMMA CommandsFacts ==
  ASSUME NEW in, ListOK(in.coins), NEW amt
  PROVE  LET C == Commands(in, amt)
             n == Before(in)
         IN  /\ IsSeq(C) /\ Len(C) = n + 2
             /\ \A k \in 1..n : C[k] = SplitOff \/ C[k] = MergeAll(in)
             /\ Offset(in) = 1 => C[1] = SplitOff /\ C[2] = MergeAll(in)
             /\ C[n + 1] = Pay(in)
             /\ C[n + 2] = Send(in, n)
<1> DEFINE C == Commands(in, amt)
           n == Before(in)
           f == Offset(in)
           t == IF Merges(in) THEN 1 ELSE 0
           a == IF SplitsGasCoin(in) THEN <<SplitOff>> ELSE <<>>
           b == IF Merges(in) THEN <<MergeAll(in)>> ELSE <<>>
           ab == a \o b
           pay == Pay(in)
           send == Send(in, Len(ab))
           c == <<pay, send>>
           place == Offset(in) + Len(in.coins)
<1>1. /\ Len(CmdInputs(in, amt)) - 2 = place
      /\ Len(CmdInputs(in, amt)) - 1 = place + 1
  <2> DEFINE l == Len(CmdInputs(in, amt))
  <2>1. l = place + 2 /\ place \in Nat
    BY CmdInputsFacts, BeforeFacts
  <2> HIDE DEF l, place
  <2>2. l - 2 = place /\ l - 1 = place + 1
    BY <2>1
  <2> QED BY <2>2 DEF l
<1>2. C = ab \o c
  <2>1. AmountInput(in, amt) = Input(place)
    BY <1>1 DEF AmountInput
  <2>2. Input(Len(CmdInputs(in, amt)) - 1) = Input(place + 1)
    BY <1>1
  <2> HIDE DEF place
  <2>3. pay = Val("Command__SplitCoins", <<PrimaryCoin(in), <<AmountInput(in, amt)>>>>)
    BY <2>1 DEF Pay, place
  <2>4. send = Val("Command__TransferObjects",
                   << <<Result(Len(ab))>>, Input(Len(CmdInputs(in, amt)) - 1)>>)
    BY <2>2 DEF Send, place
  <2> QED BY <2>3, <2>4 DEF Commands, Merges, SplitOff, MergeAll
<1> HIDE DEF C
<1>3. f \in {0, 1} /\ IsSeq(a) /\ Len(a) = f /\ (f = 1 => a[1] = SplitOff)
  <2> DEFINE r == SplitOff
  <2>1. CASE SplitsGasCoin(in)
    <3>1. a = <<r>> /\ f = 1
      BY <2>1 DEF Offset
    <3> HIDE DEF a, f, r
    <3>2. f \in {0, 1} /\ IsSeq(a) /\ Len(a) = f /\ a[1] = r
      BY <3>1, ShortLists
    <3> QED BY <3>2 DEF r
  <2>2. CASE ~ SplitsGasCoin(in)
    <3>1. a = <<>> /\ f = 0
      BY <2>2 DEF Offset
    <3> HIDE DEF a, f
    <3> QED BY <3>1, EmptyList
  <2> QED BY <2>1, <2>2
<1>4. t \in {0, 1} /\ IsSeq(b) /\ Len(b) = t /\ (t = 1 => b[1] = MergeAll(in))
  <2> DEFINE r == MergeAll(in)
  <2>1. CASE Merges(in)
    <3>1. b = <<r>> /\ t = 1
      BY <2>1
    <3> HIDE DEF b, t, r
    <3>2. t \in {0, 1} /\ IsSeq(b) /\ Len(b) = t /\ b[1] = r
      BY <3>1, ShortLists
    <3> QED BY <3>2 DEF r
  <2>2. CASE ~ Merges(in)
    <3>1. b = <<>> /\ t = 0
      BY <2>2
    <3> HIDE DEF b, t
    <3> QED BY <3>1, EmptyList
  <2> QED BY <2>1, <2>2
<1>5. n = f + t /\ (f = 1 => t = 1)
  BY BeforeFacts DEF Before
<1> HIDE DEF a, b, f, t, n
<1>6. /\ IsSeq(ab) /\ Len(ab) = n
      /\ \A i \in 1..f : ab[i] = a[i]
      /\ \A i \in 1..t : ab[f + i] = b[i]
  BY <1>3, <1>4, <1>5, JoinFacts
<1>7. send = Send(in, n)
  BY <1>6
<1> HIDE DEF ab, pay, send
<1>8. IsSeq(c) /\ Len(c) = 2 /\ c[1] = pay /\ c[2] = send
  BY ShortLists
<1> HIDE DEF c
<1>9. /\ IsSeq(C) /\ Len(C) = n + 2
      /\ \A i \in 1..n : C[i] = ab[i]
      /\ \A i \in 1..2 : C[n + i] = c[i]
  <2>1. IsSeq(ab) /\ IsSeq(c)
    BY <1>6, <1>8
  <2>2. /\ IsSeq(ab \o c) /\ Len(ab \o c) = Len(ab) + Len(c)
        /\ \A i \in 1..Len(ab) : (ab \o c)[i] = ab[i]
        /\ \A i \in 1..Len(c) : (ab \o c)[Len(ab) + i] = c[i]
    BY ONLY <2>1, JoinFacts
  <2> QED BY <1>2, <1>6, <1>8, <2>2
<1>10. \A k \in 1..n : C[k] = SplitOff \/ C[k] = MergeAll(in)
  <2> TAKE k \in 1..n
  <2>1. CASE k \in 1..f
    <3>1. k = 1 /\ f = 1
      BY <2>1, <1>3
    <3> QED BY <3>1, <2>1, <1>3, <1>6, <1>9
  <2>2. CASE k \notin 1..f
    <3>1. k = f + 1 /\ t = 1
      BY <2>2, <1>3, <1>4, <1>5
    <3> QED BY <3>1, <1>4, <1>6, <1>9
  <2> QED BY <2>1, <2>2
<1>11. f = 1 => C[1] = SplitOff /\ C[2] = MergeAll(in)
  BY <1>3, <1>4, <1>5, <1>6, <1>9
<1> QED BY <1>7, <1>8, <1>9, <1>10, <1>11 DEF C, n, f, pay
-----------------------------------------------------------------------------
(* What commands do *)

\* The equation by which DoAll(env, commands) is defined.
Steps(f, env, commands) ==
  f = [k \in 0..Len(commands) |-> IF k = 0 THEN env ELSE Do(f[k - 1], commands[k])]

LEMMA StepsExist ==
  ASSUME NEW env, NEW commands, Len(commands) \in Nat
  PROVE  \E f : Steps(f, env, commands)
<1> DEFINE n == Len(commands)
           Nxt(f) == [k \in 0..n |-> IF k = 0 THEN env ELSE Do(f[k - 1], commands[k])]
           Upto(f, i) == \A k \in 0..n : k <= i => f[k] = Nxt(f)[k]
           N == { i \in Nat : \E f : f = [k \in 0..n |-> f[k]] /\ Upto(f, i) }
<1>1. 0 \in N
  <2> DEFINE f == [k \in 0..n |-> env]
  <2>1. f = [k \in 0..n |-> f[k]] /\ Upto(f, 0)
    OBVIOUS
  <2> QED BY <2>1
<1>2. ASSUME NEW i \in Nat, i \in N PROVE i + 1 \in N
  <2>1. PICK f : f = [k \in 0..n |-> f[k]] /\ Upto(f, i)
    BY <1>2
  <2> DEFINE h == Nxt(f)
  <2>2. h = [k \in 0..n |-> h[k]]
    OBVIOUS
  <2>3. Upto(h, i + 1)
    <3> SUFFICES ASSUME NEW k \in 0..n, k <= i + 1, k # 0 PROVE h[k] = Nxt(h)[k]
      OBVIOUS
    <3>1. k - 1 \in 0..n /\ k - 1 <= i
      OBVIOUS
    <3>2. f[k - 1] = h[k - 1]
      BY <2>1, <3>1
    <3> QED BY <3>1, <3>2
  <2> HIDE DEF Nxt
  <2>4. \E e : e = [k \in 0..n |-> e[k]] /\ Upto(e, i + 1)
    <3> WITNESS h
    <3> HIDE DEF h, Upto
    <3> QED BY <2>2, <2>3
  <2> HIDE DEF Upto
  <2> QED BY <2>4
<1>3. n \in N
  <2> HIDE DEF N
  <2> QED BY <1>1, <1>2, NatSetInduction
<1>4. PICK f : f = [k \in 0..n |-> f[k]] /\ Upto(f, n)
  BY <1>3
<1>5. \A k \in 0..n : f[k] = Nxt(f)[k]
  <2> HIDE DEF Nxt
  <2>1. \A k \in 0..n : k <= n
    OBVIOUS
  <2> QED BY <1>4, <2>1
<1>6. f = Nxt(f)
  BY <1>4, <1>5
<1> QED BY <1>6 DEF Steps

LEMMA DoAllSteps ==
  ASSUME NEW env, NEW commands, Len(commands) \in Nat
  PROVE  \E f : /\ DoAll(env, commands) = f[Len(commands)]
                /\ f[0] = env
                /\ \A k \in 1..Len(commands) : f[k] = Do(f[k - 1], commands[k])
<1> DEFINE F == CHOOSE f : Steps(f, env, commands)
<1>1. Steps(F, env, commands)
  BY StepsExist, Zenon
<1> HIDE DEF F
<1>2. DoAll(env, commands) = (CHOOSE f : Steps(f, env, commands))[Len(commands)]
  BY DEF DoAll, Steps
<1>3. /\ F[0] = env
      /\ \A k \in 1..Len(commands) : F[k] = Do(F[k - 1], commands[k])
  BY <1>1 DEF Steps
<1> QED BY <1>2, <1>3 DEF F

IsEnv(env) ==
  /\ env = [at |-> env.at, ok |-> env.ok, done |-> env.done, sent |-> env.sent]
  /\ env.done \in Nat

Same(c, d) ==
  IsCoin(c) /\ IsCoin(d) /\ c.id = d.id /\ c.type = d.type /\ c.version = d.version

\* What commands have left of the environment they began with, if they work on
\* the coins at the given places and send nothing.
Early(env, first, places) ==
  /\ IsEnv(env) /\ env.sent = first.sent
  /\ DOMAIN env.at \subseteq DOMAIN first.at \cup { Result(k) : k \in 0..(env.done - 1) }
  /\ \A a \in DOMAIN env.at \cap DOMAIN first.at :
       Same(env.at[a], first.at[a]) /\ (a \notin places => env.at[a] = first.at[a])
  /\ \A a \in DOMAIN env.at \ DOMAIN first.at : IsCoin(env.at[a]) /\ env.at[a].id = 0

\* The arguments of a command.
ArgsOf(cmd) ==
  IF cmd[1] = "Command__TransferObjects" THEN Range(cmd[2][1]) \cup {cmd[2][2]}
  ELSE Range(cmd[2][2]) \cup {cmd[2][1]}

LEMMA DoneIfOk ==
  ASSUME NEW env, IsEnv(env), NEW cmd, Do(env, cmd).ok
  PROVE  /\ env.ok /\ ArgsOf(cmd) \subseteq DOMAIN env.at
         /\ cmd[1] = "Command__SplitCoins" =>
              Do(env, cmd) = SplitCoins(env, cmd[2][1], cmd[2][2][1])
         /\ cmd[1] = "Command__MergeCoins" =>
              Do(env, cmd) = MergeCoins(env, cmd[2][1], cmd[2][2])
         /\ cmd[1] = "Command__TransferObjects" =>
              Do(env, cmd) = TransferObjects(env, cmd[2][1], cmd[2][2])
<1> DEFINE failed == [env EXCEPT !.ok = FALSE]
           stuck == ~ env.ok \/ ~ (ArgsOf(cmd) \subseteq DOMAIN env.at)
<1>1. failed.ok = FALSE
  BY DEF IsEnv
<1> HIDE DEF failed
<1>2. stuck => Do(env, cmd) = failed
  BY DEF Do, ArgsOf, failed
<1>3. ~ stuck
  BY <1>1, <1>2
<1>4. Do(env, cmd) = CASE cmd[1] = "Command__SplitCoins" -> SplitCoins(env, cmd[2][1], cmd[2][2][1])
                       [] cmd[1] = "Command__MergeCoins" -> MergeCoins(env, cmd[2][1], cmd[2][2])
                       [] cmd[1] = "Command__TransferObjects" -> TransferObjects(env, cmd[2][1], cmd[2][2])
  BY <1>3 DEF Do, ArgsOf
<1> QED BY <1>3, <1>4

LEMMA ResultsAreNew ==
  ASSUME NEW j, NEW k
  PROVE  /\ Result(j) # Gas /\ Result(j) # Input(k) /\ Input(k) # Gas
         /\ Result(j) = Result(k) => j = k
         /\ Input(j) = Input(k) => j = k
         /\ Result(j)[1] = "Argument__Result" /\ Gas[1] # "Argument__Result"
         /\ Input(k)[1] # "Argument__Result" /\ Input(k)[2][1] = k
  BY DEF Result, Gas, Input, Val

\* The places there are to begin with.
Places(n) == {Gas} \cup { Input(k - 1) : k \in 1..n }

LEMMA SplitKeepsEarly ==
  ASSUME NEW env, NEW first, NEW places, NEW n, Early(env, first, places),
         DOMAIN first.at = Places(n),
         NEW coin \in DOMAIN env.at \cap places, NEW amt
  PROVE  LET e == SplitCoins(env, coin, amt)
         IN  /\ Early(e, first, places) /\ e.done = env.done + 1
             /\ e.at[Result(env.done)] = New(env.at[coin].type, env.at[amt].balance)
             /\ e.ok = (env.at[coin].type # "pure" /\ env.at[amt].type = "pure"
                          /\ env.at[amt].balance <= env.at[coin].balance)
             /\ DOMAIN e.at = DOMAIN env.at \cup {Result(env.done)}
             /\ e.at[coin] = Worth(env.at[coin], env.at[coin].balance - env.at[amt].balance)
             /\ \A a \in DOMAIN env.at : a # coin => e.at[a] = env.at[a]
<1> DEFINE r == Result(env.done)
           had == env.at[coin]
           b == env.at[amt].balance
           ok == had.type # "pure" /\ env.at[amt].type = "pure" /\ b <= had.balance
           at == [a \in DOMAIN env.at \cup {r} |->
                    IF a = coin THEN Worth(had, had.balance - b)
                    ELSE IF a \in DOMAIN env.at THEN env.at[a] ELSE New(had.type, b)]
           e == SplitCoins(env, coin, amt)
<1>1. /\ e.at = at /\ e.ok = ok /\ e.done = env.done + 1 /\ e.sent = env.sent
      /\ e = [at |-> e.at, ok |-> e.ok, done |-> e.done, sent |-> e.sent]
  BY DEF SplitCoins
<1> HIDE DEF e
<1>2. r \notin DOMAIN first.at /\ r \notin DOMAIN env.at
  <2>1. r \notin DOMAIN first.at
    BY ResultsAreNew DEF Places
  <2>2. \A k \in 0..(env.done - 1) : r # Result(k)
    BY ResultsAreNew DEF Early, IsEnv
  <2> QED BY <2>1, <2>2 DEF Early
<1>3. IsCoin(had)
  BY DEF Early, Same
<1>4. /\ DOMAIN e.at = DOMAIN env.at \cup {r} /\ e.at[coin] = Worth(had, had.balance - b)
      /\ e.at[r] = New(had.type, b)
      /\ \A a \in DOMAIN env.at : a # coin => e.at[a] = env.at[a]
  BY <1>1, <1>2
<1> HIDE DEF at
<1>5. Same(e.at[coin], had) /\ IsCoin(e.at[r]) /\ e.at[r].id = 0
  BY <1>3, <1>4, CoinParts, NewParts DEF Same
<1>6. Early(e, first, places)
  <2>1. IsEnv(e) /\ e.sent = first.sent
    BY <1>1 DEF Early, IsEnv
  <2>2. DOMAIN e.at \subseteq DOMAIN first.at \cup { Result(k) : k \in 0..(e.done - 1) }
    <3>1. env.done \in 0..(e.done - 1) /\ 0..(env.done - 1) \subseteq 0..(e.done - 1)
      BY <1>1 DEF Early, IsEnv
    <3>2. DOMAIN env.at \subseteq DOMAIN first.at \cup { Result(k) : k \in 0..(env.done - 1) }
      BY DEF Early
    <3>3. r \in { Result(k) : k \in 0..(e.done - 1) }
      BY <3>1
    <3>4. { Result(k) : k \in 0..(env.done - 1) } \subseteq { Result(k) : k \in 0..(e.done - 1) }
      BY <3>1
    <3> QED BY <3>2, <3>3, <3>4, <1>4
  <2>3. ASSUME NEW a \in DOMAIN e.at \cap DOMAIN first.at
        PROVE  Same(e.at[a], first.at[a]) /\ (a \notin places => e.at[a] = first.at[a])
    <3>1. a \in DOMAIN env.at \cap DOMAIN first.at
      BY <1>2, <1>4
    <3>2. Same(env.at[a], first.at[a]) /\ (a \notin places => env.at[a] = first.at[a])
      BY <3>1 DEF Early
    <3>3. a = coin \/ e.at[a] = env.at[a]
      BY <3>1, <1>4
    <3> QED BY <3>2, <3>3, <1>5 DEF Same
  <2>4. ASSUME NEW a \in DOMAIN e.at \ DOMAIN first.at
        PROVE  IsCoin(e.at[a]) /\ e.at[a].id = 0
    <3>1. a = r \/ (a \in DOMAIN env.at \ DOMAIN first.at /\ (a = coin \/ e.at[a] = env.at[a]))
      BY <1>4
    <3> QED BY <3>1, <1>5 DEF Early, Same
  <2> QED BY <2>1, <2>2, <2>3, <2>4 DEF Early
<1> QED BY <1>1, <1>4, <1>6 DEF e

LEMMA MergeKeepsEarly ==
  ASSUME NEW env, NEW first, NEW places, NEW n, Early(env, first, places),
         DOMAIN first.at = Places(n),
         NEW coin \in places, NEW others
  PROVE  LET e == MergeCoins(env, coin, others)
         IN  /\ Early(e, first, places) /\ e.done = env.done + 1
             /\ (\A k \in DOMAIN others : env.at[others[k]].type = env.at[coin].type) => e.ok
             /\ DOMAIN e.at = DOMAIN env.at \ Range(others)
             /\ coin \in DOMAIN e.at =>
                  e.at[coin] = Worth(env.at[coin], env.at[coin].balance + Total(env, others))
             /\ \A a \in DOMAIN e.at : a # coin => e.at[a] = env.at[a]
<1> DEFINE ok == \A k \in DOMAIN others : env.at[others[k]].type = env.at[coin].type
           sum == Total(env, others)
           at == [a \in DOMAIN env.at \ Range(others) |->
                    IF a = coin THEN Worth(env.at[a], env.at[a].balance + sum)
                    ELSE env.at[a]]
           e == MergeCoins(env, coin, others)
<1>1. /\ e.at = at /\ e.ok = ok /\ e.done = env.done + 1 /\ e.sent = env.sent
      /\ e = [at |-> e.at, ok |-> e.ok, done |-> e.done, sent |-> e.sent]
  BY DEF MergeCoins
<1> HIDE DEF e
<1>2. /\ DOMAIN e.at = DOMAIN env.at \ Range(others)
      /\ coin \in DOMAIN e.at => e.at[coin] = Worth(env.at[coin], env.at[coin].balance + sum)
      /\ \A a \in DOMAIN e.at : a # coin => e.at[a] = env.at[a]
  BY <1>1
<1> HIDE DEF at, sum
<1>3. \A a \in DOMAIN env.at : IsCoin(env.at[a])
  BY DEF Early, Same
<1>4. \A a \in DOMAIN e.at : Same(e.at[a], env.at[a]) /\ (a \notin places => e.at[a] = env.at[a])
  <2> TAKE a \in DOMAIN e.at
  <2>1. IsCoin(env.at[a])
    BY <1>2, <1>3
  <2>2. a = coin \/ e.at[a] = env.at[a]
    BY <1>2
  <2> QED BY <2>1, <2>2, <1>2, CoinParts DEF Same
<1>5. Early(e, first, places)
  <2>1. IsEnv(e) /\ e.sent = first.sent
    BY <1>1 DEF Early, IsEnv
  <2>2. DOMAIN e.at \subseteq DOMAIN first.at \cup { Result(k) : k \in 0..(e.done - 1) }
    <3>1. 0..(env.done - 1) \subseteq 0..(e.done - 1)
      BY <1>1 DEF Early, IsEnv
    <3>2. DOMAIN env.at \subseteq DOMAIN first.at \cup { Result(k) : k \in 0..(env.done - 1) }
      BY DEF Early
    <3>3. { Result(k) : k \in 0..(env.done - 1) } \subseteq { Result(k) : k \in 0..(e.done - 1) }
      BY <3>1
    <3> QED BY <3>2, <3>3, <1>2
  <2>3. ASSUME NEW a \in DOMAIN e.at \cap DOMAIN first.at
        PROVE  Same(e.at[a], first.at[a]) /\ (a \notin places => e.at[a] = first.at[a])
    <3>1. a \in DOMAIN env.at \cap DOMAIN first.at
      BY <1>2
    <3>2. Same(env.at[a], first.at[a]) /\ (a \notin places => env.at[a] = first.at[a])
      BY <3>1 DEF Early
    <3> QED BY <3>2, <1>4 DEF Same
  <2>4. ASSUME NEW a \in DOMAIN e.at \ DOMAIN first.at
        PROVE  IsCoin(e.at[a]) /\ e.at[a].id = 0
    <3>1. a \in DOMAIN env.at \ DOMAIN first.at
      BY <1>2
    <3> QED BY <3>1, <1>4 DEF Early, Same
  <2> QED BY <2>1, <2>2, <2>3, <2>4 DEF Early
<1> QED BY <1>1, <1>2, <1>5 DEF e, sum

LEMMA SumOfOne ==
  ASSUME NEW g, g[1] \in Nat
  PROVE  SumFunctionOnSet(g, {1}) = g[1]
<1>1. IsFiniteSet({1}) /\ {1} \ {1} = {}
  BY FS_Singleton
<1>2. SumFunctionOnSet(g, {1}) = g[1] + SumFunctionOnSet(g, {1} \ {1})
  BY <1>1, SumTakesAny
<1> QED BY <1>1, <1>2, SumEmpty

LEMMA TransferFacts ==
  ASSUME NEW env, NEW r, NEW to, env.at[r].balance \in Nat
  PROVE  LET e == TransferObjects(env, <<r>>, to)
         IN  /\ e.at = [a \in DOMAIN env.at \ {r} |-> env.at[a]]
             /\ env.at[to].type = "pure" /\ env.at[to].balance = Recipient => e.ok
             /\ e.sent = [env.sent EXCEPT ![env.at[r].type] = env.sent[env.at[r].type]
                                                               + env.at[r].balance]
             /\ IsEnv(env) => IsEnv(e)
<1> DEFINE objects == <<r>>
           g == [k \in DOMAIN objects |-> env.at[objects[k]].balance]
           e == TransferObjects(env, objects, to)
<1>1. DOMAIN objects = {1} /\ objects[1] = r /\ Range(objects) = {r}
  BY DEF Range
<1> HIDE DEF objects
<1>2. g[1] = env.at[r].balance /\ DOMAIN g = {1}
  BY <1>1
<1>3. Total(env, objects) = SumFunctionOnSet(g, {1})
  BY <1>2 DEF Total, SumFunction
<1> HIDE DEF g
<1>4. Total(env, objects) = env.at[r].balance
  BY <1>2, <1>3, SumOfOne
<1>5. /\ e.at = [a \in DOMAIN env.at \ Range(objects) |-> env.at[a]]
      /\ e.ok = (env.at[to].type = "pure" /\ env.at[to].balance = Recipient)
      /\ e.sent = [env.sent EXCEPT ![env.at[objects[1]].type] =
                     env.sent[env.at[objects[1]].type] + Total(env, objects)]
      /\ e.done = env.done + 1
      /\ e = [at |-> e.at, ok |-> e.ok, done |-> e.done, sent |-> e.sent]
  BY DEF TransferObjects
<1> HIDE DEF e
<1>6. IsEnv(env) => IsEnv(e)
  BY <1>5 DEF IsEnv
<1> QED BY <1>1, <1>4, <1>5, <1>6 DEF objects, e
-----------------------------------------------------------------------------
(* What a transfer begins with *)

LEMMA MinOfThree ==
  ASSUME NEW a \in Int, NEW b \in Int, NEW c \in Int
  PROVE  /\ Min({a, b, c}) \in {a, b, c}
         /\ Min({a, b, c}) <= a /\ Min({a, b, c}) <= b /\ Min({a, b, c}) <= c
<1> DEFINE S == {a, b, c}
<1>1. \E x \in S : \A y \in S : x <= y
  <2>1. CASE a <= b /\ a <= c
    BY <2>1
  <2>2. CASE b <= a /\ b <= c
    BY <2>2
  <2>3. CASE c <= a /\ c <= b
    BY <2>3
  <2> QED BY <2>1, <2>2, <2>3
<1> HIDE DEF S
<1>2. Min(S) \in S /\ \A y \in S : Min(S) <= y
  BY <1>1 DEF Min
<1> QED BY <1>2 DEF S

LEMMA Uint64Facts ==
  ASSUME NEW n \in Nat
  PROVE  Uint64(n) \in 0..(Size(U64Bytes) - 1) /\ Uint64(n) \in Nat /\ Uint64(n) <= n
<1> DEFINE S == Size(U64Bytes)
<1>1. S \in Nat \ {0}
  BY SizeFacts
<1> HIDE DEF S
<1>2. n % S \in 0..(S - 1) /\ n = S * (n \div S) + (n % S) /\ n \div S \in Nat
  BY <1>1
<1>3. S * (n \div S) \in Nat
  BY <1>1, <1>2
<1> QED BY <1>1, <1>2, <1>3 DEF Uint64, S

LEMMA BudgetFacts ==
  ASSUME NEW in, NEW amt, Planned(in, amt)
  PROVE  /\ in.gas.balance \in 0..(Size(U64Bytes) - 1) /\ in.gas.balance \in Nat
         /\ SumOf(in.coins) \in Nat
         /\ Budget(in, amt) \in Nat /\ Budget(in, amt) <= in.gas.balance
         /\ IsNativeTransfer(in) =>
              Budget(in, amt) + Uint64(amt) <= SumOf(in.coins) + in.gas.balance
<1> DEFINE total == SumOf(in.coins) + in.gas.balance
           spare == Uint64(total) - Uint64(amt)
           native == IsNativeTransfer(in)
           third == IF native THEN spare ELSE in.gas.balance
<1>1. /\ in.gas.balance \in 0..(Size(U64Bytes) - 1) /\ in.gas.balance \in Nat
      /\ in.budget \in Nat /\ amt \in Nat
  BY CoinObjectsAreCoins, SizeFacts DEF Planned
<1>2. SumOf(in.coins) \in Nat
  <2> DEFINE g == [k \in 1..Len(in.coins) |-> in.coins[k].balance]
             n == Len(in.coins)
  <2>1. n \in Nat
    BY SpendableIsAll DEF Planned
  <2>2. \A k \in 1..n : g[k] \in Nat
    BY CoinObjectsAreCoins, SizeFacts DEF Planned, ListOK
  <2>3. SumOf(in.coins) = SumFunctionOnSet(g, 1..n)
    BY DEF SumOf, SumFunction
  <2> HIDE DEF g, n
  <2> QED BY <2>1, <2>2, <2>3, SumOfPositions
<1>3. total \in Nat
  BY <1>1, <1>2
<1>4. /\ Uint64(total) \in Nat /\ Uint64(total) <= total
      /\ Uint64(amt) \in Nat
  <2> HIDE DEF total
  <2> QED BY <1>1, <1>3, Uint64Facts
<1>5. native => /\ TotalBalance(in) = total
                /\ spare \in Nat /\ spare + Uint64(amt) <= total
  <2> SUFFICES ASSUME native PROVE TotalBalance(in) = total /\ spare \in Nat /\ spare + Uint64(amt) <= total
    OBVIOUS
  <2>1. TotalBalance(in) = total
    BY DEF TotalBalance
  <2>2. ~ (Uint64(total) < Uint64(amt))
    BY <2>1 DEF Planned, Fails
  <2> HIDE DEF total
  <2> QED BY <2>1, <2>2, <1>3, <1>4
<1>6. Budget(in, amt) = Min({in.budget, in.gas.balance, third})
  BY <1>5 DEF Budget
<1>7. third \in Nat
  BY <1>1, <1>5
<1> HIDE DEF spare, third, total, native
<1>8. /\ Budget(in, amt) \in Nat /\ Budget(in, amt) <= in.gas.balance
      /\ Budget(in, amt) <= third
  <2> DEFINE a == in.budget
             b == in.gas.balance
             x == Min({a, b, third})
  <2>1. a \in Int /\ b \in Int /\ third \in Int /\ a \in Nat /\ b \in Nat /\ third \in Nat
    BY <1>1, <1>7
  <2>2. Budget(in, amt) = x
    BY <1>6
  <2> HIDE DEF a
  <2>3. x \in {a, b, third} /\ x <= a /\ x <= b /\ x <= third
    BY <2>1, MinOfThree
  <2> HIDE DEF x
  <2> QED BY <2>1, <2>2, <2>3
<1>9. native => Budget(in, amt) + Uint64(amt) <= total
  BY <1>3, <1>4, <1>5, <1>7, <1>8 DEF third
<1> QED BY <1>1, <1>2, <1>8, <1>9 DEF total, native

LEMMA InputParts ==
  ASSUME NEW c, NEW n
  PROVE  /\ IsObject(ObjectInput(c)) /\ RefOf(ObjectInput(c)) = coinToObject(c)
         /\ ~ IsObject(u64ToPure(n)) /\ u64ToPure(n)[2][1] = IntBytes(n, U64Bytes)
         /\ ~ IsObject(Val("CallArg__Pure", Address(n)))
         /\ Val("CallArg__Pure", Address(n))[2][1] = IntBytes(n, AddressBytes)
<1>1. IsObject(ObjectInput(c)) /\ RefOf(ObjectInput(c)) = coinToObject(c)
  <2> DEFINE object == coinToObject(c)
             arg == Val("ObjectArg__ImmOrOwnedObject", <<object>>)
  <2>1. arg[2][1] = object
    BY DEF Val
  <2> HIDE DEF arg
  <2>2. ObjectInput(c) = Val("CallArg__Object", <<arg>>)
    BY DEF ObjectInput, arg
  <2> QED BY <2>1, <2>2 DEF IsObject, RefOf, Val
<1>2. ~ IsObject(u64ToPure(n)) /\ u64ToPure(n)[2][1] = IntBytes(n, U64Bytes)
  BY DEF IsObject, u64ToPure, Val
<1>3. /\ ~ IsObject(Val("CallArg__Pure", Address(n)))
      /\ Val("CallArg__Pure", Address(n))[2][1] = IntBytes(n, AddressBytes)
  BY DEF IsObject, Address, Val
<1> QED BY <1>1, <1>2, <1>3

\* The coins that a transaction names are on the chain as it names them.
LEMMA NamedCoinsAreThere ==
  ASSUME NEW in, NEW amt, Planned(in, amt), ChainOK(in), Current(Plan(in, amt))
  PROVE  /\ in.gas \in coins /\ CoinAt(coinToObject(in.gas)) = in.gas
         /\ \A k \in 1..Len(in.coins) :
              in.coins[k] \in coins /\ CoinAt(coinToObject(in.coins[k])) = in.coins[k]
<1> DEFINE d == Plan(in, amt)
           I == CmdInputs(in, amt)
           f == Offset(in)
           m == Len(in.coins)
<1>1. ListOK(in.coins) /\ in.gas \in CoinObjects /\ coins \subseteq CoinObjects
  BY DEF Planned, ChainOK
<1>2. /\ InputsOf(d) = I /\ GasRef(d) = coinToObject(in.gas)
      /\ \A k \in DOMAIN Refs(d) : \E c \in coins : coinToObject(c) = Refs(d)[k]
  BY PlanParts DEF Current
<1>3. f \in {0, 1} /\ m \in Nat /\ DOMAIN I = 1..(f + m + 2)
  BY <1>1, BeforeFacts, CmdInputsFacts DEF IsSeq
<1> HIDE DEF d
<1>4. 0 \in DOMAIN Refs(d) /\ Refs(d)[0] = GasRef(d)
  BY DEF Refs
<1>5. in.gas \in coins /\ CoinAt(coinToObject(in.gas)) = in.gas
  <2>1. \E c \in coins : coinToObject(c) = coinToObject(in.gas)
    BY <1>2, <1>4
  <2>2. \A c \in coins : c.id = in.gas.id => c.type = in.gas.type
    BY DEF ChainOK
  <2> QED BY <1>1, <2>1, <2>2, CoinIsFound
<1>6. ASSUME NEW k \in 1..m
      PROVE  in.coins[k] \in coins /\ CoinAt(coinToObject(in.coins[k])) = in.coins[k]
  <2> DEFINE c == in.coins[k]
  <2>1. f + k \in DOMAIN I /\ f + k # 0 /\ I[f + k] = ObjectInput(c)
    BY <1>1, <1>3, CmdInputsFacts
  <2>2. f + k \in Objects(d)
    BY <2>1, <1>2, InputParts DEF Objects
  <2>3. f + k \in DOMAIN Refs(d) /\ Refs(d)[f + k] = coinToObject(c)
    BY <2>1, <2>2, <1>2, InputParts DEF Refs
  <2>4. \E x \in coins : coinToObject(x) = coinToObject(c)
    BY <1>2, <2>3
  <2>5. c \in CoinObjects /\ \A x \in coins : x.id = c.id => x.type = c.type
    BY <1>1 DEF ListOK, ChainOK
  <2> HIDE DEF c
  <2>6. c \in coins /\ CoinAt(coinToObject(c)) = c
    BY <2>4, <2>5, <1>1, CoinIsFound
  <2> QED BY <2>6 DEF c
<1> QED BY <1>5, <1>6

\* The environment that the commands of a transfer begin with.
LEMMA EnvironmentFacts ==
  ASSUME NEW in, NEW amt, Planned(in, amt), ChainOK(in), Current(Plan(in, amt))
  PROVE  LET e == Environment(Plan(in, amt))
             f == Offset(in)
             m == Len(in.coins)
         IN  /\ IsEnv(e) /\ e.done = 0 /\ e.sent = [type \in {"sui", "token"} |-> 0]
             /\ e.ok = (in.gas.balance >= Budget(in, amt) /\ Budget(in, amt) >= GasUsed)
             /\ DOMAIN e.at = Places(f + m + 2)
             /\ e.at[Gas] = Worth(in.gas, in.gas.balance - Budget(in, amt))
             /\ f = 1 => e.at[Input(0)] = New("pure", in.gas.balance - Budget(in, amt))
             /\ \A k \in 1..m : e.at[Input(f + k - 1)] = in.coins[k]
             /\ e.at[Input(f + m)] = New("pure", Uint64(amt))
             /\ e.at[Input(f + m + 1)] = New("pure", Recipient)
<1> DEFINE d == Plan(in, amt)
           e == Environment(d)
           I == CmdInputs(in, amt)
           f == Offset(in)
           m == Len(in.coins)
           At(i) == IF IsObject(i) THEN CoinAt(RefOf(i)) ELSE New("pure", IntValue(i[2][1]))
<1>1. /\ ListOK(in.coins) /\ InputsOf(d) = I /\ GasRef(d) = coinToObject(in.gas)
      /\ BudgetOf(d) = Budget(in, amt)
  BY PlanParts DEF Planned
<1>2. /\ CoinAt(GasRef(d)) = in.gas
      /\ \A k \in 1..m : CoinAt(coinToObject(in.coins[k])) = in.coins[k]
  BY <1>1, NamedCoinsAreThere
<1>3. /\ f \in {0, 1} /\ m \in Nat /\ DOMAIN I = 1..(f + m + 2)
      /\ f = 1 => I[1] = u64ToPure(in.gas.balance - Budget(in, amt))
      /\ \A k \in 1..m : I[f + k] = ObjectInput(in.coins[k])
      /\ I[f + m + 1] = u64ToPure(Uint64(amt))
      /\ I[f + m + 2] = Val("CallArg__Pure", Address(Recipient))
  BY <1>1, BeforeFacts, CmdInputsFacts DEF IsSeq
<1> HIDE DEF d, I
<1>4. /\ e.at = [a \in {Gas} \cup { Input(k - 1) : k \in DOMAIN I } |->
                   IF a = Gas THEN Worth(in.gas, in.gas.balance - Budget(in, amt))
                   ELSE At(I[a[2][1] + 1])]
      /\ e.ok = (in.gas.balance >= Budget(in, amt) /\ Budget(in, amt) >= GasUsed)
      /\ e.done = 0 /\ e.sent = [type \in {"sui", "token"} |-> 0]
      /\ e = [at |-> e.at, ok |-> e.ok, done |-> e.done, sent |-> e.sent]
  BY <1>1, <1>2 DEF Environment
<1> HIDE DEF e
<1>5. DOMAIN e.at = Places(f + m + 2)
  BY <1>3, <1>4 DEF Places
<1>6. e.at[Gas] = Worth(in.gas, in.gas.balance - Budget(in, amt))
  BY <1>4
<1> HIDE DEF At
<1>7. ASSUME NEW k \in 1..(f + m + 2)
      PROVE  e.at[Input(k - 1)] = At(I[k])
  <2>1. Input(k - 1) # Gas /\ Input(k - 1)[2][1] = k - 1
    BY ResultsAreNew
  <2>2. Input(k - 1) \in { Input(j - 1) : j \in DOMAIN I } /\ (k - 1) + 1 = k
    BY <1>3
  <2> QED BY <2>1, <2>2, <1>4
<1>8. ASSUME NEW n \in 0..(Size(U64Bytes) - 1) PROVE At(u64ToPure(n)) = New("pure", n)
  BY InputParts, SizeFacts, BytesKeepNumbers DEF At
<1>9. f = 1 => e.at[Input(0)] = New("pure", in.gas.balance - Budget(in, amt))
  <2> DEFINE n == in.gas.balance - Budget(in, amt)
  <2>1. n \in 0..(Size(U64Bytes) - 1)
    BY BudgetFacts, SizeFacts
  <2> HIDE DEF n
  <2>2. f = 1 => I[1] = u64ToPure(n) /\ e.at[Input(1 - 1)] = At(I[1])
    BY <1>3, <1>7 DEF n
  <2>3. 1 - 1 = 0
    OBVIOUS
  <2> QED BY <2>1, <2>2, <2>3, <1>8 DEF n
<1>10. ASSUME NEW k \in 1..m PROVE e.at[Input(f + k - 1)] = in.coins[k]
  <2> DEFINE c == in.coins[k]
             i == f + k
             o == ObjectInput(c)
  <2>1. i \in 1..(f + m + 2)
    BY <1>3
  <2>2. CoinAt(coinToObject(c)) = c /\ I[i] = o
    BY <1>2, <1>3
  <2>3. At(o) = c
    <3> HIDE DEF c
    <3> QED BY <2>2, InputParts DEF At
  <2>6. f + k - 1 = i - 1
    BY <1>3
  <2> HIDE DEF i, o, c
  <2>4. e.at[Input(i - 1)] = At(I[i])
    BY <2>1, <1>7
  <2>5. e.at[Input(i - 1)] = c
    BY <2>2, <2>3, <2>4
  <2> QED BY <2>5, <2>6 DEF c
<1>11. e.at[Input(f + m)] = New("pure", Uint64(amt))
  <2>1. Uint64(amt) \in 0..(Size(U64Bytes) - 1)
    BY Uint64Facts DEF Planned
  <2>2. f + m + 1 \in 1..(f + m + 2) /\ (f + m + 1) - 1 = f + m
    BY <1>3
  <2>3. e.at[Input((f + m + 1) - 1)] = At(u64ToPure(Uint64(amt)))
    <3> DEFINE i == f + m + 1
    <3>1. i \in 1..(f + m + 2) /\ I[i] = u64ToPure(Uint64(amt))
      BY <2>2, <1>3
    <3> HIDE DEF i
    <3>2. e.at[Input(i - 1)] = At(I[i])
      BY <3>1, <1>7, Zenon
    <3> QED BY <3>1, <3>2 DEF i
  <2> QED BY <2>1, <2>2, <2>3, <1>8
<1>12. e.at[Input(f + m + 1)] = New("pure", Recipient)
  <2>1. Recipient \in 0..(Size(AddressBytes) - 1)
    <3>1. AddressBytes \in Nat \ {0} /\ AddressBytes \in Widths
      BY SizeFacts, BytesAssumption
    <3>2. Size(AddressBytes) \in Nat /\ Size(AddressBytes) > 1
      BY <3>1, SizeFacts
    <3> QED BY <3>2 DEF Recipient
  <2>2. f + m + 2 \in 1..(f + m + 2) /\ (f + m + 2) - 1 = f + m + 1
    BY <1>3
  <2>3. e.at[Input((f + m + 2) - 1)] = At(Val("CallArg__Pure", Address(Recipient)))
    BY <2>2, <1>3, <1>7
  <2>4. IntValue(IntBytes(Recipient, AddressBytes)) = Recipient
    BY <2>1, SizeFacts, BytesKeepNumbers
  <2> QED BY <2>2, <2>3, <2>4, InputParts DEF At
<1>13. IsEnv(e)
  BY <1>4 DEF IsEnv
<1> QED BY <1>4, <1>5, <1>6, <1>9, <1>10, <1>11, <1>12, <1>13 DEF e, d
-----------------------------------------------------------------------------
(* What a transfer does *)

LEMMA DoIsEnv ==
  ASSUME NEW env, IsEnv(env), NEW cmd,
         cmd[1] \in {"Command__SplitCoins", "Command__MergeCoins", "Command__TransferObjects"}
  PROVE  IsEnv(Do(env, cmd))
<1> DEFINE failed == [env EXCEPT !.ok = FALSE]
           stuck == ~ env.ok \/ ~ (ArgsOf(cmd) \subseteq DOMAIN env.at)
<1>1. IsEnv(failed)
  <2>1. /\ failed.at = env.at /\ failed.done = env.done /\ failed.sent = env.sent
        /\ env.done \in Nat
    BY DEF IsEnv
  <2>2. DOMAIN failed = {"at", "ok", "done", "sent"}
    BY DEF IsEnv
  <2>3. failed = [x \in {"at", "ok", "done", "sent"} |-> failed[x]]
    BY <2>2
  <2> HIDE DEF failed
  <2>4. failed = [at |-> failed.at, ok |-> failed.ok, done |-> failed.done, sent |-> failed.sent]
    BY <2>3
  <2> QED BY <2>1, <2>4 DEF IsEnv
<1> HIDE DEF failed
<1>2. stuck => Do(env, cmd) = failed
  BY DEF Do, ArgsOf, failed
<1>3. ~ stuck => Do(env, cmd) =
        CASE cmd[1] = "Command__SplitCoins" -> SplitCoins(env, cmd[2][1], cmd[2][2][1])
          [] cmd[1] = "Command__MergeCoins" -> MergeCoins(env, cmd[2][1], cmd[2][2])
          [] cmd[1] = "Command__TransferObjects" -> TransferObjects(env, cmd[2][1], cmd[2][2])
  BY DEF Do, ArgsOf
<1>4. ASSUME NEW a, NEW b
      PROVE  /\ IsEnv(SplitCoins(env, a, b)) /\ IsEnv(MergeCoins(env, a, b))
             /\ IsEnv(TransferObjects(env, a, b))
  <2>1. env.done + 1 \in Nat
    BY DEF IsEnv
  <2>2. IsEnv(SplitCoins(env, a, b))
    BY <2>1 DEF IsEnv, SplitCoins
  <2>3. IsEnv(MergeCoins(env, a, b))
    BY <2>1 DEF IsEnv, MergeCoins
  <2>4. IsEnv(TransferObjects(env, a, b))
    BY <2>1 DEF IsEnv, TransferObjects
  <2> QED BY <2>2, <2>3, <2>4
<1> HIDE DEF stuck
<1> QED BY <1>1, <1>2, <1>3, <1>4

\* The type of what a transfer sends.
Sent(in) == IF in.coins = <<>> THEN "sui" ELSE in.coins[1].type

LEMMA PrimaryCoinFacts ==
  ASSUME NEW in, NEW amt, Planned(in, amt), ChainOK(in), Current(Plan(in, amt))
  PROVE  LET e == Environment(Plan(in, amt))
             f == Offset(in)
             m == Len(in.coins)
             p == PrimaryCoin(in)
         IN  /\ p \in DOMAIN e.at /\ e.at[p].type = Sent(in)
             /\ p \in {Gas, Input(f)} /\ p # Input(f + m) /\ Gas # Input(f + m)
             /\ in.coins # <<>> => p = Input(f) /\ m > 0
<1> DEFINE e == Environment(Plan(in, amt))
           f == Offset(in)
           m == Len(in.coins)
           p == PrimaryCoin(in)
<1>1. ListOK(in.coins) /\ in.gas \in CoinObjects /\ in.gas.type = "sui"
  BY DEF Planned
<1>2. f \in {0, 1} /\ m \in Nat
  BY <1>1, BeforeFacts
<1>3. /\ DOMAIN e.at = Places(f + m + 2)
      /\ e.at[Gas] = Worth(in.gas, in.gas.balance - Budget(in, amt))
      /\ \A k \in 1..m : e.at[Input(f + k - 1)] = in.coins[k]
  BY EnvironmentFacts
<1> HIDE DEF e
<1>4. Gas # Input(f + m)
  BY ResultsAreNew
<1>5. CASE in.coins = <<>>
  <2>1. p = Gas /\ Sent(in) = "sui"
    BY <1>5 DEF PrimaryCoin, Sent
  <2>2. e.at[Gas].type = "sui"
    BY <1>1, <1>3, CoinObjectsAreCoins, CoinParts
  <2>3. Gas \in Places(f + m + 2)
    BY DEF Places
  <2> QED BY <1>3, <1>4, <1>5, <2>1, <2>2, <2>3 DEF e
<1>6. CASE in.coins # <<>>
  <2>1. p = Input(f) /\ Sent(in) = in.coins[1].type
    BY <1>6 DEF PrimaryCoin, Sent, Offset
  <2>2. m > 0
    BY <1>1, <1>6, MergeInputsFacts
  <2>3. 1 \in 1..m /\ f + 1 - 1 = f /\ f + 1 \in 1..(f + m + 2) /\ (f + 1) - 1 = f /\ f # f + m
    BY <1>2, <2>2
  <2>4. e.at[Input(f)] = in.coins[1]
    BY <1>3, <2>3
  <2>5. Input(f) \in Places(f + m + 2)
    BY <2>3 DEF Places
  <2>6. Input(f) # Input(f + m)
    BY <2>3, ResultsAreNew
  <2> QED BY <1>3, <1>4, <2>1, <2>2, <2>4, <2>5, <2>6 DEF e
<1> QED BY <1>5, <1>6

\* They are coins, of the wallet or new.
LEMMA EnvironmentCoins ==
  ASSUME NEW in, NEW amt, Planned(in, amt), ChainOK(in), Current(Plan(in, amt))
  PROVE  LET first == Environment(Plan(in, amt))
         IN  \A a \in DOMAIN first.at :
               /\ IsCoin(first.at[a])
               /\ first.at[a].id # 0 =>
                    \E c \in coins : c.id = first.at[a].id /\ c.version = first.at[a].version
<1> DEFINE first == Environment(Plan(in, amt))
           f == Offset(in)
           m == Len(in.coins)
<1>1. ListOK(in.coins) /\ in.gas \in CoinObjects /\ f \in {0, 1} /\ m \in Nat
  BY BeforeFacts DEF Planned
<1>2. DOMAIN first.at = Places(f + m + 2)
  BY EnvironmentFacts
<1>3. \A k \in 1..m : in.coins[k] \in coins /\ IsCoin(in.coins[k])
  BY <1>1, NamedCoinsAreThere, CoinObjectsAreCoins DEF ListOK
<1>4. in.gas \in coins /\ IsCoin(in.gas)
  BY <1>1, NamedCoinsAreThere, CoinObjectsAreCoins
<1>5. ASSUME NEW k \in 1..(f + m + 2)
      PROVE  \/ \E j \in 1..m : first.at[Input(k - 1)] = in.coins[j]
             \/ \E x : first.at[Input(k - 1)] = New("pure", x)
  <2> DEFINE i == k - 1
  <2>1. (f = 1 /\ i = 0) \/ (\E j \in 1..m : i = f + j - 1) \/ i = f + m \/ i = f + m + 1
    <3>1. i \in 0..(f + m + 1)
      BY <1>1
    <3>2. i >= f /\ i < f + m => i - f + 1 \in 1..m /\ i = f + (i - f + 1) - 1
      BY <1>1, <3>1
    <3>3. i >= f /\ i < f + m => \E j \in 1..m : i = f + j - 1
      BY <3>2
    <3> QED BY <1>1, <3>1, <3>3
  <2> HIDE DEF i
  <2>2. /\ f = 1 => first.at[Input(0)] = New("pure", in.gas.balance - Budget(in, amt))
        /\ \A j \in 1..m : first.at[Input(f + j - 1)] = in.coins[j]
        /\ first.at[Input(f + m)] = New("pure", Uint64(amt))
        /\ first.at[Input(f + m + 1)] = New("pure", Recipient)
    BY EnvironmentFacts
  <2> HIDE DEF first
  <2> QED BY <2>1, <2>2 DEF i
<1>6. first.at[Gas] = Worth(in.gas, in.gas.balance - Budget(in, amt))
  BY EnvironmentFacts
<1> HIDE DEF first
<1>7. ASSUME NEW a \in DOMAIN first.at
      PROVE  \/ first.at[a] = Worth(in.gas, in.gas.balance - Budget(in, amt))
             \/ \E j \in 1..m : first.at[a] = in.coins[j]
             \/ \E x : first.at[a] = New("pure", x)
  <2>1. a = Gas \/ \E k \in 1..(f + m + 2) : a = Input(k - 1)
    BY <1>2 DEF Places
  <2> QED BY <2>1, <1>5, <1>6
<1>8. \A a \in DOMAIN first.at : /\ IsCoin(first.at[a])
                                 /\ first.at[a].id # 0 =>
                                      \E c \in coins : /\ c.id = first.at[a].id
                                                       /\ c.version = first.at[a].version
  BY <1>3, <1>4, <1>7, CoinParts, NewParts
<1> QED BY <1>8 DEF first

LEMMA EnvsAreEnvs ==
  ASSUME NEW F, NEW C, NEW n \in Nat, IsEnv(F[0]),
         \A k \in 1..n : /\ F[k] = Do(F[k - 1], C[k])
                        /\ C[k][1] \in {"Command__SplitCoins", "Command__MergeCoins",
                                        "Command__TransferObjects"}
  PROVE  \A k \in 0..n : IsEnv(F[k])
<1> DEFINE N == { k \in Nat : k <= n => IsEnv(F[k]) }
<1>1. 0 \in N
  OBVIOUS
<1>2. ASSUME NEW k \in Nat, k \in N PROVE k + 1 \in N
  <2> SUFFICES ASSUME k + 1 <= n PROVE IsEnv(F[k + 1])
    OBVIOUS
  <2>1. k + 1 \in 1..n /\ (k + 1) - 1 = k /\ k <= n
    OBVIOUS
  <2>2. F[k + 1] = Do(F[k], C[k + 1])
    BY <2>1
  <2> QED BY <2>1, <2>2, <1>2, DoIsEnv
<1> HIDE DEF N
<1>3. Nat \subseteq N
  BY <1>1, <1>2, NatSetInduction
<1> QED BY <1>3 DEF N

LEMMA CommandKinds ==
  ASSUME NEW in, ListOK(in.coins), NEW amt, NEW k \in 1..(Before(in) + 2)
  PROVE  Commands(in, amt)[k][1] \in {"Command__SplitCoins", "Command__MergeCoins",
                                     "Command__TransferObjects"}
<1> DEFINE n == Before(in)
           C == Commands(in, amt)
<1>1. /\ \A j \in 1..n : C[j] = SplitOff \/ C[j] = MergeAll(in)
      /\ C[n + 1] = Pay(in) /\ C[n + 2] = Send(in, n)
  BY CommandsFacts
<1>2. n \in Nat
  BY BeforeFacts
<1> HIDE DEF n, C
<1>3. k \in 1..n \/ k = n + 1 \/ k = n + 2
  BY <1>2 DEF n
<1> QED BY <1>1, <1>3 DEF C, SplitOff, MergeAll, Pay, Send, Val

LEMMA RangeOfOne == ASSUME NEW a PROVE Range(<<a>>) = {a}
  BY DEF Range

\* What the commands of a transfer leave, if they can all be done.
LEMMA TransferIsDone ==
  ASSUME NEW in, NEW amt, Planned(in, amt), ChainOK(in), Current(Plan(in, amt)),
         After(Plan(in, amt)).ok
  PROVE  LET e == After(Plan(in, amt))
         IN  /\ e.sent = [type \in {"sui", "token"} |->
                            IF type = Sent(in) THEN Uint64(amt) ELSE 0]
             /\ \A a \in DOMAIN e.at :
                  /\ IsCoin(e.at[a])
                  /\ e.at[a].id # 0 =>
                       \E c \in coins : c.id = e.at[a].id /\ c.version = e.at[a].version
<1> DEFINE d == Plan(in, amt)
           first == Environment(d)
           C == Commands(in, amt)
           n == Before(in)
           f == Offset(in)
           m == Len(in.coins)
           p == PrimaryCoin(in)
           places == {Gas, p}
           value == Input(f + m)
           to == Input(f + m + 1)
<1>1. /\ ListOK(in.coins) /\ in.gas \in CoinObjects /\ amt \in Nat
  BY DEF Planned
<1>2. /\ n \in 0..2 /\ f \in {0, 1} /\ m \in Nat
  BY <1>1, BeforeFacts
<1>3. /\ Len(C) = n + 2
      /\ \A k \in 1..n : C[k] = SplitOff \/ C[k] = MergeAll(in)
      /\ C[n + 1] = Pay(in) /\ C[n + 2] = Send(in, n)
  BY <1>1, CommandsFacts
<1>4. /\ p \in DOMAIN first.at /\ first.at[p].type = Sent(in)
      /\ value \notin places
  BY PrimaryCoinFacts
<1>5. /\ IsEnv(first) /\ first.done = 0 /\ first.sent = [type \in {"sui", "token"} |-> 0]
      /\ DOMAIN first.at = Places(f + m + 2)
      /\ first.at[value] = New("pure", Uint64(amt))
  BY EnvironmentFacts
<1>6. value \in DOMAIN first.at
  <2>1. f + m + 1 \in 1..(f + m + 2) /\ (f + m + 1) - 1 = f + m
    BY <1>2
  <2> QED BY <2>1, <1>5 DEF Places
<1>7. \A a \in DOMAIN first.at : /\ IsCoin(first.at[a])
                                 /\ first.at[a].id # 0 =>
                                      \E c \in coins : /\ c.id = first.at[a].id
                                                       /\ c.version = first.at[a].version
  BY EnvironmentCoins
<1>8. CommandsOf(d) = C
  BY PlanParts
<1> HIDE DEF C, first, d, n, f, m
<1>9. PICK F : /\ DoAll(first, C) = F[n + 2]
               /\ F[0] = first
               /\ \A k \in 1..(n + 2) : F[k] = Do(F[k - 1], C[k])
  <2>1. Len(C) \in Nat /\ Len(C) = n + 2
    BY <1>2, <1>3
  <2>2. PICK F : /\ DoAll(first, C) = F[Len(C)]
                 /\ F[0] = first
                 /\ \A k \in 1..Len(C) : F[k] = Do(F[k - 1], C[k])
    BY <2>1, DoAllSteps
  <2> QED BY <2>1, <2>2
<1>10. \A k \in 1..(n + 2) : C[k][1] \in {"Command__SplitCoins", "Command__MergeCoins",
                                            "Command__TransferObjects"}
  BY <1>1, CommandKinds DEF C, n
<1>11. \A k \in 0..(n + 2) : IsEnv(F[k])
  <2> DEFINE l == n + 2
  <2>1. /\ l \in Nat /\ IsEnv(F[0])
        /\ \A k \in 1..l : /\ F[k] = Do(F[k - 1], C[k])
                           /\ C[k][1] \in {"Command__SplitCoins", "Command__MergeCoins",
                                           "Command__TransferObjects"}
    BY <1>2, <1>5, <1>9, <1>10
  <2> HIDE DEF l
  <2>2. \A k \in 0..l : IsEnv(F[k])
    BY <2>1, EnvsAreEnvs
  <2> QED BY <2>2 DEF l
<1>12. /\ F[n + 2].ok /\ After(d).at = F[n + 2].at /\ After(d).sent = F[n + 2].sent
  <2> DEFINE env == F[n + 2]
             tidy == \A a \in DOMAIN env.at : a[1] # "Argument__Result"
             env2 == [env EXCEPT !.ok = env.ok /\ tidy]
  <2>1. After(d) = env2
    BY <1>8, <1>9 DEF After, first
  <2>2. IsEnv(env)
    BY <1>2, <1>11
  <2> HIDE DEF env, tidy
  <2>3. env2.ok = (env.ok /\ tidy) /\ env2.at = env.at /\ env2.sent = env.sent
    BY <2>2 DEF IsEnv
  <2> HIDE DEF env2
  <2>4. After(d).ok
    BY DEF d
  <2> QED BY <2>1, <2>3, <2>4 DEF env
<1>13. \A k \in 0..(n + 2) : F[k].ok
  <2> DEFINE N == { j \in Nat : j <= n + 2 => F[n + 2 - j].ok }
  <2>1. 0 \in N
    <3>1. n + 2 - 0 = n + 2
      BY <1>2
    <3> QED BY <3>1, <1>12
  <2>2. ASSUME NEW j \in Nat, j \in N PROVE j + 1 \in N
    <3> SUFFICES ASSUME j + 1 <= n + 2 PROVE F[n + 2 - (j + 1)].ok
      OBVIOUS
    <3> DEFINE k == n + 2 - j
    <3>1. k \in 1..(n + 2) /\ n + 2 - (j + 1) = k - 1 /\ j <= n + 2 /\ k - 1 \in 0..(n + 2)
      BY <1>2
    <3>2. F[k].ok
      BY <2>2, <3>1
    <3> HIDE DEF k
    <3>3. F[k] = Do(F[k - 1], C[k]) /\ IsEnv(F[k - 1])
      BY <3>1, <1>9, <1>11
    <3>4. F[k - 1].ok
      BY <3>2, <3>3, DoneIfOk
    <3> QED BY <3>1, <3>4
  <2> HIDE DEF N
  <2>3. Nat \subseteq N
    BY <2>1, <2>2, NatSetInduction
  <2>4. ASSUME NEW k \in 0..(n + 2) PROVE F[k].ok
    <3>1. n + 2 - k \in Nat /\ n + 2 - k <= n + 2 /\ n + 2 - (n + 2 - k) = k
      BY <1>2
    <3>2. n + 2 - k \in N
      BY <2>3, <3>1
    <3> QED BY <3>1, <3>2 DEF N
  <2> QED BY <2>4
<1>14. \A k \in 0..n : Early(F[k], first, places) /\ F[k].done = k
  <2> DEFINE N == { k \in Nat : k <= n => Early(F[k], first, places) /\ F[k].done = k }
  <2>1. 0 \in N
    <3>1. Early(first, first, places)
      BY <1>5, <1>7 DEF Early, Same
    <3> QED BY <3>1, <1>5, <1>9
  <2>2. ASSUME NEW k \in Nat, k \in N PROVE k + 1 \in N
    <3> SUFFICES ASSUME k + 1 <= n
                 PROVE  Early(F[k + 1], first, places) /\ F[k + 1].done = k + 1
      OBVIOUS
    <3> DEFINE i == k + 1
               env == F[k]
               cmd == C[i]
    <3>1. i \in 1..(n + 2) /\ i \in 1..n /\ i - 1 = k /\ k <= n /\ i \in 0..(n + 2) /\ k \in 0..(n + 2)
      BY <1>2
    <3>2. Early(env, first, places) /\ env.done = k
      BY <2>2, <3>1
    <3>3. F[i] = Do(env, cmd) /\ F[i].ok /\ IsEnv(env)
      BY <3>1, <1>9, <1>11, <1>13
    <3>4. cmd = SplitOff \/ cmd = MergeAll(in)
      BY <3>1, <1>3
    <3> HIDE DEF i, env, cmd, places
    <3>5. /\ ArgsOf(cmd) \subseteq DOMAIN env.at
          /\ cmd[1] = "Command__SplitCoins" => F[i] = SplitCoins(env, cmd[2][1], cmd[2][2][1])
          /\ cmd[1] = "Command__MergeCoins" => F[i] = MergeCoins(env, cmd[2][1], cmd[2][2])
      BY <3>3, DoneIfOk
    <3>6. CASE cmd = SplitOff
      <4>1. cmd[1] = "Command__SplitCoins" /\ cmd[2][1] = Gas /\ Gas \in ArgsOf(cmd)
        BY <3>6 DEF SplitOff, Val, ArgsOf
      <4>2. Gas \in DOMAIN env.at \cap places
        BY <4>1, <3>5 DEF places
      <4>3. Early(F[i], first, places) /\ F[i].done = env.done + 1
        BY <4>1, <4>2, <3>2, <3>5, <1>5, SplitKeepsEarly
      <4> QED BY <4>3, <3>2 DEF i
    <3>7. CASE cmd = MergeAll(in)
      <4>1. cmd[1] = "Command__MergeCoins" /\ cmd[2][1] = p
        BY <3>7 DEF MergeAll, Val
      <4>2. p \in places
        BY DEF places
      <4> DEFINE others == cmd[2][2]
      <4>4. F[i] = MergeCoins(env, p, others)
        BY <4>1, <3>5
      <4> HIDE DEF others, p
      <4>3. Early(F[i], first, places) /\ F[i].done = env.done + 1
        <5> DEFINE e == MergeCoins(env, p, others)
                   q == f + m + 2
        <5>1. DOMAIN first.at = Places(q)
          BY <1>5
        <5> HIDE DEF q
        <5>2. Early(e, first, places) /\ e.done = env.done + 1
          BY <5>1, <4>2, <3>2, MergeKeepsEarly
        <5> HIDE DEF e
        <5>3. F[i] = e
          BY <4>4 DEF e
        <5> QED BY <5>2, <5>3
      <4> QED BY <4>3, <3>2 DEF i
    <3> QED BY <3>4, <3>6, <3>7 DEF i
  <2> HIDE DEF N
  <2>3. Nat \subseteq N
    BY <2>1, <2>2, NatSetInduction
  <2> QED BY <2>3, <1>2 DEF N
<1> DEFINE before == F[n]
           paid == F[n + 1]
           done == F[n + 2]
           r == Result(n)
<1>15. /\ Early(before, first, places) /\ before.done = n /\ IsEnv(before) /\ IsEnv(paid)
       /\ paid = Do(before, Pay(in)) /\ paid.ok
       /\ done = Do(paid, Send(in, n)) /\ done.ok
  <2>1. /\ n \in 0..n /\ n \in 0..(n + 2) /\ n + 1 \in 0..(n + 2) /\ n + 1 \in 1..(n + 2)
        /\ n + 2 \in 1..(n + 2) /\ n + 2 \in 0..(n + 2) /\ (n + 1) - 1 = n /\ (n + 2) - 1 = n + 1
    BY <1>2
  <2> QED BY <2>1, <1>3, <1>9, <1>11, <1>13, <1>14
<1> HIDE DEF before, paid, done, places
<1>16. /\ value \in DOMAIN before.at /\ p \in DOMAIN before.at \cap places
       /\ paid = SplitCoins(before, p, value)
  <2> DEFINE cmd == Pay(in)
  <2>1. cmd[1] = "Command__SplitCoins" /\ cmd[2][1] = p /\ cmd[2][2] = <<value>> /\ cmd[2][2][1] = value
    BY DEF Pay, Val, f, m
  <2> HIDE DEF cmd
  <2>2. ArgsOf(cmd) \subseteq DOMAIN before.at /\ paid = SplitCoins(before, p, value)
    BY <1>15, <2>1, DoneIfOk DEF cmd
  <2>3. value \in ArgsOf(cmd) /\ p \in ArgsOf(cmd)
    BY <2>1, RangeOfOne DEF ArgsOf
  <2> QED BY <2>2, <2>3 DEF places
<1>17. before.at[p].type = Sent(in) /\ before.at[value] = New("pure", Uint64(amt))
  <2>1. Same(before.at[p], first.at[p])
    BY <1>4, <1>15, <1>16 DEF Early
  <2>2. before.at[value] = first.at[value]
    BY <1>4, <1>6, <1>15, <1>16 DEF Early, places
  <2> QED BY <2>1, <2>2, <1>4, <1>5 DEF Same
<1>18. /\ Early(paid, first, places)
       /\ paid.at[r] = New(Sent(in), Uint64(amt))
  <2>1. /\ Early(paid, first, places)
        /\ paid.at[Result(before.done)] = New(before.at[p].type, before.at[value].balance)
    BY <1>5, <1>15, <1>16, SplitKeepsEarly
  <2>2. before.at[value].balance = Uint64(amt)
    BY <1>17, NewParts
  <2> QED BY <2>1, <2>2, <1>15, <1>17
<1>19. done = TransferObjects(paid, <<r>>, to)
  <2> DEFINE cmd == Send(in, n)
  <2>1. cmd[1] = "Command__TransferObjects" /\ cmd[2][1] = <<r>> /\ cmd[2][2] = to
    BY DEF Send, Val, f, m
  <2> HIDE DEF cmd
  <2> QED BY <1>15, <2>1, DoneIfOk DEF cmd
<1>20. paid.at[r].type = Sent(in) /\ paid.at[r].balance = Uint64(amt) /\ Uint64(amt) \in Nat
  BY <1>1, <1>18, NewParts, Uint64Facts
<1>21. /\ done.at = [a \in DOMAIN paid.at \ {r} |-> paid.at[a]]
       /\ done.sent = [paid.sent EXCEPT ![Sent(in)] = paid.sent[Sent(in)] + Uint64(amt)]
  BY <1>19, <1>20, TransferFacts
<1>22. done.sent = [type \in {"sui", "token"} |-> IF type = Sent(in) THEN Uint64(amt) ELSE 0]
  <2>1. paid.sent = [type \in {"sui", "token"} |-> 0]
    BY <1>5, <1>18 DEF Early
  <2>2. Sent(in) \in {"sui", "token"}
    <3>1. CASE in.coins = <<>>
      BY <3>1 DEF Sent
    <3>2. CASE in.coins # <<>>
      <4>1. 1 \in 1..m
        BY <3>2, <1>1, <1>2, MergeInputsFacts DEF m
      <4>2. in.coins[1] \in CoinObjects
        BY <4>1, <1>1 DEF ListOK, m
      <4> QED BY <4>2, <3>2, CoinObjectsAreCoins DEF Sent
    <3> QED BY <3>1, <3>2
  <2> QED BY <2>1, <2>2, <1>20, <1>21
<1>23. ASSUME NEW a \in DOMAIN done.at
       PROVE  /\ IsCoin(done.at[a])
              /\ done.at[a].id # 0 =>
                   \E c \in coins : c.id = done.at[a].id /\ c.version = done.at[a].version
  <2>1. a \in DOMAIN paid.at /\ done.at[a] = paid.at[a]
    BY <1>21
  <2>2. CASE a \in DOMAIN first.at
    <3>1. Same(paid.at[a], first.at[a])
      BY <2>1, <2>2, <1>18 DEF Early
    <3> QED BY <3>1, <2>1, <2>2, <1>7 DEF Same
  <2>3. CASE a \notin DOMAIN first.at
    BY <2>1, <2>3, <1>18 DEF Early
  <2> QED BY <2>2, <2>3
<1> QED BY <1>12, <1>22, <1>23 DEF done, d

LEMMA DoneIfThere ==
  ASSUME NEW env, env.ok, NEW cmd, ArgsOf(cmd) \subseteq DOMAIN env.at
  PROVE  /\ cmd[1] = "Command__SplitCoins" =>
              Do(env, cmd) = SplitCoins(env, cmd[2][1], cmd[2][2][1])
         /\ cmd[1] = "Command__MergeCoins" =>
              Do(env, cmd) = MergeCoins(env, cmd[2][1], cmd[2][2])
         /\ cmd[1] = "Command__TransferObjects" =>
              Do(env, cmd) = TransferObjects(env, cmd[2][1], cmd[2][2])
<1>1. Do(env, cmd) = CASE cmd[1] = "Command__SplitCoins" -> SplitCoins(env, cmd[2][1], cmd[2][2][1])
                       [] cmd[1] = "Command__MergeCoins" -> MergeCoins(env, cmd[2][1], cmd[2][2])
                       [] cmd[1] = "Command__TransferObjects" -> TransferObjects(env, cmd[2][1], cmd[2][2])
  BY DEF Do, ArgsOf
<1> QED BY <1>1

NoResultLeft(env) == \A a \in DOMAIN env.at : a[1] # "Argument__Result"

\* The last two commands of a transfer, when the primary coin has the amount.
LEMMA PayAndSend ==
  ASSUME NEW in, NEW amt \in Nat, NEW env, NEW first, NEW places, NEW n, NEW size,
         Early(env, first, places), DOMAIN first.at = Places(size),
         env.ok, env.done = n, NoResultLeft(env),
         PrimaryCoin(in) \in DOMAIN env.at \cap places,
         env.at[PrimaryCoin(in)].type # "pure",
         Uint64(amt) <= env.at[PrimaryCoin(in)].balance,
         Input(Offset(in) + Len(in.coins)) \in DOMAIN env.at,
         env.at[Input(Offset(in) + Len(in.coins))] = New("pure", Uint64(amt)),
         Input(Offset(in) + Len(in.coins) + 1) \in DOMAIN env.at,
         Input(Offset(in) + Len(in.coins) + 1) # PrimaryCoin(in),
         env.at[Input(Offset(in) + Len(in.coins) + 1)] = New("pure", Recipient)
  PROVE  LET done == Do(Do(env, Pay(in)), Send(in, n))
         IN  done.ok /\ NoResultLeft(done)
<1> DEFINE p == PrimaryCoin(in)
           value == Input(Offset(in) + Len(in.coins))
           to == Input(Offset(in) + Len(in.coins) + 1)
           r == Result(n)
           paid == Do(env, Pay(in))
           done == Do(paid, Send(in, n))
<1>1. paid = SplitCoins(env, p, value)
  <2> DEFINE cmd == Pay(in)
  <2>1. /\ cmd[1] = "Command__SplitCoins" /\ cmd[2][1] = p
        /\ cmd[2][2] = <<value>> /\ cmd[2][2][1] = value
    BY DEF Pay, Val
  <2>2. paid = Do(env, cmd)
    OBVIOUS
  <2> HIDE DEF cmd, paid, p, value
  <2>3. ArgsOf(cmd) \subseteq DOMAIN env.at
    BY <2>1, RangeOfOne DEF ArgsOf, p, value
  <2> QED BY <2>1, <2>2, <2>3, DoneIfThere
<1> HIDE DEF paid, p, value, to, r
<1>2. env.at[value].type = "pure" /\ env.at[value].balance = Uint64(amt) /\ Uint64(amt) \in Nat
  BY NewParts, Uint64Facts DEF value
<1>3. /\ paid.ok = (env.at[p].type # "pure" /\ env.at[value].type = "pure"
                      /\ env.at[value].balance <= env.at[p].balance)
      /\ DOMAIN paid.at = DOMAIN env.at \cup {r}
      /\ paid.at[r] = New(env.at[p].type, env.at[value].balance)
      /\ \A a \in DOMAIN env.at : a # p => paid.at[a] = env.at[a]
  <2>1. p \in DOMAIN env.at \cap places
    BY DEF p
  <2>2. env.done = n
    OBVIOUS
  <2> HIDE DEF NoResultLeft
  <2> QED BY <1>1, <2>1, <2>2, SplitKeepsEarly DEF r
<1>4. paid.ok
  BY <1>2, <1>3 DEF p
<1>5. paid.at[to] = New("pure", Recipient) /\ to \in DOMAIN paid.at
  BY <1>3 DEF to, p
<1>6. paid.at[r].balance \in Nat
  BY <1>2, <1>3, NewParts
<1>7. done = TransferObjects(paid, <<r>>, to)
  <2> DEFINE cmd == Send(in, n)
  <2>1. cmd[1] = "Command__TransferObjects" /\ cmd[2][1] = <<r>> /\ cmd[2][2] = to
    BY DEF Send, Val, r, to
  <2>2. done = Do(paid, cmd)
    OBVIOUS
  <2> HIDE DEF cmd, done
  <2>3. ArgsOf(cmd) \subseteq DOMAIN paid.at
    BY <2>1, <1>3, <1>5, RangeOfOne DEF ArgsOf
  <2> QED BY <1>4, <2>1, <2>2, <2>3, DoneIfThere
<1> HIDE DEF done
<1>8. /\ DOMAIN done.at = DOMAIN paid.at \ {r}
      /\ paid.at[to].type = "pure" /\ paid.at[to].balance = Recipient => done.ok
  <2> DEFINE e == TransferObjects(paid, <<r>>, to)
  <2>1. DOMAIN done.at = DOMAIN paid.at \ {r}
    <3>1. DOMAIN e.at = DOMAIN paid.at \ Range(<<r>>)
      BY DEF TransferObjects
    <3> QED BY <3>1, <1>7, RangeOfOne
  <2>3. ASSUME paid.at[to].type = "pure", paid.at[to].balance = Recipient PROVE e.ok
    BY <2>3, <1>6, TransferFacts
  <2>2. done = e
    BY <1>7
  <2> HIDE DEF e
  <2> QED BY <2>1, <2>2, <2>3
<1>9. done.ok
  BY <1>5, <1>8, NewParts
<1>10. NoResultLeft(done)
  BY <1>3, <1>8 DEF NoResultLeft
<1> QED BY <1>9, <1>10 DEF done, paid

LEMMA NothingAddsUp == SumOf(<< >>) = 0
<1> DEFINE g == [k \in 1..Len(<< >>) |-> << >>[k].balance]
<1>1. DOMAIN g = {}
  BY EmptyList
<1>2. SumOf(<< >>) = SumFunctionOnSet(g, DOMAIN g)
  BY DEF SumOf, SumFunction
<1> HIDE DEF g
<1> QED BY <1>1, <1>2, SumEmpty

\* What the primary coin of a transfer of SUI gets: the rest of the gas coin, and
\* the other coins.
LEMMA MergedTotal ==
  ASSUME NEW in, ListOK(in.coins), in.coins # <<>>, Offset(in) = 1, NEW env, NEW left \in Nat,
         env.at[Result(0)].balance = left,
         \A k \in 1..(Len(in.coins) - 1) : env.at[Input(1 + k)] = in.coins[k + 1]
  PROVE  in.coins[1].balance + Total(env, MergeInputs(in)) = SumOf(in.coins) + left
<1> DEFINE M == MergeInputs(in)
           m == Len(in.coins)
           g == [k \in 1..m |-> in.coins[k].balance]
           h == [k \in DOMAIN M |-> env.at[M[k]].balance]
           S == 1..m
<1>1. /\ m \in Nat /\ m > 0 /\ IsSeq(M) /\ Len(M) = 1 + (m - 1) /\ M[1] = Result(0)
      /\ \A k \in 1..(m - 1) : M[1 + k] = Input(1 + k)
  BY MergeInputsFacts, SpendableIsAll
<1>2. \A k \in 1..m : in.coins[k].balance \in Nat
  BY CoinObjectsAreCoins, SizeFacts DEF ListOK
<1> HIDE DEF M
<1>3. DOMAIN M = 1..m /\ 1 \in 1..m
  BY <1>1 DEF IsSeq
<1>4. h[1] = left
  BY <1>1, <1>3
<1>5. ASSUME NEW k \in 1..m, k # 1 PROVE h[k] = g[k]
  <2> DEFINE j == k - 1
  <2>1. j \in 1..(m - 1) /\ 1 + j = k /\ j + 1 = k
    BY <1>1, <1>5
  <2> HIDE DEF j
  <2>2. M[1 + j] = Input(1 + j) /\ env.at[Input(1 + j)] = in.coins[j + 1]
    BY <2>1, <1>1
  <2> QED BY <2>1, <2>2, <1>3
<1>6. /\ SumOf(in.coins) = SumFunctionOnSet(g, S)
      /\ Total(env, M) = SumFunctionOnSet(h, S)
  BY <1>3 DEF SumOf, Total, SumFunction
<1>7. IsFiniteSet(S) /\ 1 \in S /\ \A k \in S : g[k] \in Int /\ h[k] \in Int
  <2>1. 1 \in Int /\ m \in Int
    BY <1>1
  <2>2. IsFiniteSet(S)
    BY <2>1, FS_Interval
  <2>3. ASSUME NEW k \in S PROVE g[k] \in Int /\ h[k] \in Int
    <3>1. g[k] \in Nat
      BY <1>2
    <3>2. k = 1 \/ h[k] = g[k]
      BY <1>5
    <3> HIDE DEF g, h
    <3> QED BY <3>1, <3>2, <1>4
  <2> QED BY <2>2, <2>3, <1>3
<1>8. \A k \in S \ {1} : h[k] = g[k]
  BY <1>5
<1>9. g[1] = in.coins[1].balance /\ g[1] \in Nat
  BY <1>2, <1>3
<1> HIDE DEF g, h, S
<1>10. SumFunctionOnSet(h, S) = SumFunctionOnSet(g, S) + h[1] - g[1]
  BY <1>7, <1>8, SumChanged
<1>11. SumFunctionOnSet(g, S) \in Int
  BY <1>7, SumOfInts
<1> QED BY <1>4, <1>6, <1>9, <1>10, <1>11 DEF M

\* What a transfer of SUI begins with, and what there is once its coins are
\* together: the primary coin has what all of them had.
Ready(in, first, left) ==
  /\ ListOK(in.coins) /\ Offset(in) = 1 /\ in.coins # <<>> /\ left \in Nat
  /\ \A k \in 1..Len(in.coins) : in.coins[k].type = "sui"
  /\ IsEnv(first) /\ first.ok /\ first.done = 0
  /\ DOMAIN first.at = Places(Len(in.coins) + 3)
  /\ \A a \in DOMAIN first.at : IsCoin(first.at[a])
  /\ first.at[Gas].type = "sui" /\ first.at[Gas].balance = left
  /\ first.at[Input(0)] = New("pure", left)
  /\ \A k \in 1..Len(in.coins) : first.at[Input(k)] = in.coins[k]

Merged(env, in, first, left) ==
  /\ Early(env, first, {Gas, Input(1)}) /\ env.ok /\ env.done = 2
  /\ NoResultLeft(env)
  /\ Input(1) \in DOMAIN env.at /\ env.at[Input(1)].type = "sui"
  /\ env.at[Input(1)].balance = SumOf(in.coins) + left
  /\ \A k \in {Len(in.coins) + 1, Len(in.coins) + 2} :
       Input(k) \in DOMAIN env.at /\ env.at[Input(k)] = first.at[Input(k)]

LEMMA CoinsAreMerged ==
  ASSUME NEW in, NEW first, NEW left, Ready(in, first, left)
  PROVE  Merged(Do(Do(first, SplitOff), MergeAll(in)), in, first, left)
<1> USE DEF Ready
<1> DEFINE m == Len(in.coins)
           places == {Gas, Input(1)}
           M == MergeInputs(in)
           p == Input(1)
           zero == Input(0)
           r == Result(0)
           e1 == Do(first, SplitOff)
           e2 == Do(e1, MergeAll(in))
<1>1. /\ m \in Nat /\ m > 0 /\ IsSeq(M) /\ Len(M) = 1 + (m - 1) /\ M[1] = r
      /\ \A k \in 1..(m - 1) : M[1 + k] = Input(1 + k)
  <2> DEFINE f == Offset(in)
  <2>1. /\ m > 0 /\ IsSeq(M) /\ Len(M) = f + (m - 1) /\ (f = 1 => M[1] = Result(0))
        /\ \A k \in 1..(m - 1) : M[f + k] = Input(f + k)
    BY MergeInputsFacts
  <2>2. m \in Nat /\ f = 1
    BY SpendableIsAll
  <2> HIDE DEF M, m, f
  <2> QED BY <2>1, <2>2
<1>2. Range(M) = {r} \cup { Input(k) : k \in 2..m }
  <2>1. DOMAIN M = 1..m
    BY <1>1 DEF IsSeq
  <2>2. \A k \in 2..m : k - 1 \in 1..(m - 1) /\ 1 + (k - 1) = k
    BY <1>1
  <2>3. \A k \in 2..m : M[k] = Input(k)
    BY <1>1, <2>2
  <2>4. 1..m = {1} \cup 2..m
    BY <1>1
  <2> HIDE DEF M
  <2> QED BY <1>1, <2>1, <2>3, <2>4 DEF Range
<1>3. ASSUME NEW k \in 0..(m + 2) PROVE Input(k) \in DOMAIN first.at
  <2>1. k + 1 \in 1..(m + 3) /\ (k + 1) - 1 = k
    BY <1>1
  <2> QED BY <2>1 DEF Places
<1>4. /\ p \in DOMAIN first.at /\ zero \in DOMAIN first.at /\ Gas \in DOMAIN first.at
      /\ \A k \in 2..m : Input(k) \in DOMAIN first.at
  <2>1. Gas \in DOMAIN first.at
    BY DEF Places
  <2> QED BY <2>1, <1>1, <1>3
<1>5. e1 = SplitCoins(first, Gas, zero)
  <2> DEFINE cmd == SplitOff
  <2>1. /\ cmd[1] = "Command__SplitCoins" /\ cmd[2][1] = Gas
        /\ cmd[2][2] = <<zero>> /\ cmd[2][2][1] = zero
    BY DEF SplitOff, Val
  <2> HIDE DEF cmd, zero
  <2>2. ArgsOf(cmd) = {Gas, zero}
    BY <2>1, RangeOfOne DEF ArgsOf
  <2>3. ArgsOf(cmd) \subseteq DOMAIN first.at
    BY <2>2, <1>4
  <2>4. Do(first, cmd) = SplitCoins(first, Gas, zero)
    BY <2>1, <2>3, DoneIfThere
  <2> QED BY <2>4 DEF cmd
<1>6. Early(first, first, places)
  BY DEF Early, Same
<1> HIDE DEF places, M
<1>7. /\ Early(e1, first, places) /\ e1.done = 1 /\ e1.ok
      /\ e1.at[r] = New("sui", left)
      /\ DOMAIN e1.at = DOMAIN first.at \cup {r}
      /\ \A a \in DOMAIN first.at : a # Gas => e1.at[a] = first.at[a]
  <2> DEFINE e == SplitCoins(first, Gas, zero)
             n == m + 3
  <2>1. Gas \in DOMAIN first.at \cap places
    BY <1>4 DEF places
  <2>2. DOMAIN first.at = Places(n)
    OBVIOUS
  <2> HIDE DEF zero, n
  <2>3. /\ Early(e, first, places) /\ e.done = first.done + 1
        /\ e.at[Result(first.done)] = New(first.at[Gas].type, first.at[zero].balance)
        /\ e.ok = (first.at[Gas].type # "pure" /\ first.at[zero].type = "pure"
                     /\ first.at[zero].balance <= first.at[Gas].balance)
        /\ DOMAIN e.at = DOMAIN first.at \cup {Result(first.done)}
        /\ \A a \in DOMAIN first.at : a # Gas => e.at[a] = first.at[a]
    BY <1>6, <2>1, <2>2, SplitKeepsEarly
  <2>4. first.at[zero].type = "pure" /\ first.at[zero].balance = left
    BY NewParts DEF zero
  <2>5. e1 = e
    BY <1>5 DEF zero
  <2> HIDE DEF e, e1
  <2>6. first.at[Gas].type = "sui" /\ first.at[Gas].balance = left /\ first.done = 0 /\ left <= left
    OBVIOUS
  <2>7. e.ok
    BY <2>3, <2>4, <2>6
  <2>8. /\ e.done = 1 /\ e.at[r] = New("sui", left)
        /\ DOMAIN e.at = DOMAIN first.at \cup {r}
    BY <2>3, <2>4, <2>6
  <2> QED BY <2>3, <2>5, <2>7, <2>8
<1> HIDE DEF e1
<1>8. /\ p # r /\ p # Gas /\ r \notin DOMAIN first.at
      /\ \A k : Input(k) # Gas /\ Input(k) # r
  BY ResultsAreNew DEF Places
<1>9. p \notin Range(M) /\ p \in DOMAIN e1.at /\ Range(M) \subseteq DOMAIN e1.at
  BY <1>2, <1>4, <1>7, <1>8, ResultsAreNew
<1>10. e2 = MergeCoins(e1, p, M)
  <2> DEFINE cmd == MergeAll(in)
  <2>1. PrimaryCoin(in) = p
    BY DEF PrimaryCoin, Offset
  <2>2. cmd[1] = "Command__MergeCoins" /\ cmd[2][1] = p /\ cmd[2][2] = M
    BY <2>1 DEF MergeAll, Val, M
  <2> HIDE DEF cmd, p
  <2>3. ArgsOf(cmd) \subseteq DOMAIN e1.at
    BY <2>2, <1>9 DEF ArgsOf
  <2>4. Do(e1, cmd) = MergeCoins(e1, p, M)
    BY <2>2, <2>3, <1>7, DoneIfThere
  <2> QED BY <2>4 DEF cmd
<1>11. \A a \in Range(M) : e1.at[a].type = "sui"
  <2>1. e1.at[r].type = "sui"
    BY <1>7, NewParts
  <2>2. ASSUME NEW k \in 2..m PROVE e1.at[Input(k)].type = "sui"
    <3>1. k \in 1..m
      BY <1>1
    <3>2. e1.at[Input(k)] = first.at[Input(k)]
      BY <1>4, <1>7, <1>8
    <3> QED BY <3>1, <3>2
  <2> QED BY <2>1, <2>2, <1>2
<1>12. e1.at[p] = in.coins[1] /\ in.coins[1].type = "sui" /\ IsCoin(in.coins[1])
  <2>1. 1 \in 1..m
    BY <1>1
  <2>2. e1.at[p] = first.at[p] /\ IsCoin(first.at[p])
    BY <1>4, <1>7, <1>8
  <2> QED BY <2>1, <2>2
<1>13. in.coins[1].balance + Total(e1, M) = SumOf(in.coins) + left
  <2>1. e1.at[r].balance = left
    BY <1>7, NewParts
  <2>2. ASSUME NEW k \in 1..(m - 1) PROVE e1.at[Input(1 + k)] = in.coins[k + 1]
    <3> DEFINE j == 1 + k
    <3>1. j \in 2..m /\ j \in 1..m /\ k + 1 = j
      BY <1>1
    <3> HIDE DEF j
    <3>2. e1.at[Input(j)] = first.at[Input(j)] /\ first.at[Input(j)] = in.coins[j]
      BY <3>1, <1>4, <1>7, <1>8
    <3> QED BY <3>1, <3>2 DEF j
  <2> QED BY <2>1, <2>2, MergedTotal DEF M
<1>14. /\ Early(e2, first, places) /\ e2.done = 2 /\ e2.ok
       /\ DOMAIN e2.at = DOMAIN e1.at \ Range(M)
       /\ e2.at[p] = Worth(e1.at[p], e1.at[p].balance + Total(e1, M))
       /\ \A a \in DOMAIN e2.at : a # p => e2.at[a] = e1.at[a]
  <2> DEFINE e == MergeCoins(e1, p, M)
             n == m + 3
  <2>1. p \in places
    BY DEF places
  <2>2. DOMAIN first.at = Places(n)
    OBVIOUS
  <2> HIDE DEF p, n
  <2>3. /\ Early(e, first, places) /\ e.done = e1.done + 1
        /\ (\A k \in DOMAIN M : e1.at[M[k]].type = e1.at[p].type) => e.ok
        /\ DOMAIN e.at = DOMAIN e1.at \ Range(M)
        /\ p \in DOMAIN e.at =>
             e.at[p] = Worth(e1.at[p], e1.at[p].balance + Total(e1, M))
        /\ \A a \in DOMAIN e.at : a # p => e.at[a] = e1.at[a]
    BY <1>7, <2>1, <2>2, MergeKeepsEarly
  <2>4. \A k \in DOMAIN M : e1.at[M[k]].type = e1.at[p].type
    BY <1>11, <1>12 DEF Range
  <2>5. e2 = e
    BY <1>10
  <2> HIDE DEF e, e2
  <2> QED BY <2>3, <2>4, <2>5, <1>7, <1>9
<1> HIDE DEF e2
<1>15. p \in DOMAIN e2.at /\ e2.at[p].type = "sui" /\ e2.at[p].balance = SumOf(in.coins) + left
  BY <1>9, <1>12, <1>13, <1>14, CoinParts
<1>16. ASSUME NEW k \in {m + 1, m + 2}
       PROVE  Input(k) \in DOMAIN e2.at /\ e2.at[Input(k)] = first.at[Input(k)]
  <2>1. k \in 0..(m + 2) /\ k # 1 /\ \A j \in 2..m : k # j
    BY <1>1
  <2>2. Input(k) \in DOMAIN first.at /\ Input(k) # p /\ Input(k) \notin Range(M)
    BY <2>1, <1>2, <1>3, <1>8, ResultsAreNew
  <2> QED BY <2>2, <1>7, <1>8, <1>14
<1>17. NoResultLeft(e2)
  <2>1. ASSUME NEW a \in DOMAIN e2.at PROVE a[1] # "Argument__Result"
    <3>1. a \in DOMAIN first.at
      BY <1>2, <1>7, <1>14
    <3> QED BY <3>1, ResultsAreNew DEF Places
  <2> QED BY <2>1 DEF NoResultLeft
<1> QED BY <1>14, <1>15, <1>16, <1>17 DEF e2, e1, places, Merged

\* A transfer of SUI whose coins are there and whose budget covers the gas runs.
LEMMA TransferCanBeDone ==
  ASSUME NEW in, NEW amt, Planned(in, amt), ChainOK(in), Current(Plan(in, amt)),
         \A k \in 1..Len(in.coins) : in.coins[k].type = "sui",
         Budget(in, amt) >= GasUsed
  PROVE  Runs(Plan(in, amt))
<1> DEFINE d == Plan(in, amt)
           first == Environment(d)
           C == Commands(in, amt)
           n == Before(in)
           f == Offset(in)
           m == Len(in.coins)
           p == PrimaryCoin(in)
           places == {Gas, p}
           value == Input(f + m)
           to == Input(f + m + 1)
           left == in.gas.balance - Budget(in, amt)
<1>1. /\ ListOK(in.coins) /\ in.gas \in CoinObjects /\ amt \in Nat /\ in.gas.type = "sui"
  BY DEF Planned
<1>2. /\ n \in 0..2 /\ f \in {0, 1} /\ m \in Nat
      /\ f = 1 <=> SplitsGasCoin(in)
      /\ f = 1 => n = 2
      /\ in.coins = <<>> => n = 0 /\ f = 0
  BY <1>1, BeforeFacts
<1>3. /\ Len(C) = n + 2
      /\ f = 1 => C[1] = SplitOff /\ C[2] = MergeAll(in)
      /\ C[n + 1] = Pay(in) /\ C[n + 2] = Send(in, n)
  BY <1>1, CommandsFacts
<1>4. IsNativeTransfer(in)
  <2>1. in.coins # <<>> => 1 \in 1..Len(in.coins)
    BY <1>1, <1>2, MergeInputsFacts
  <2> QED BY <1>1, <2>1 DEF IsNativeTransfer
<1>5. /\ Budget(in, amt) \in Nat /\ in.gas.balance \in Nat /\ SumOf(in.coins) \in Nat
      /\ Budget(in, amt) <= in.gas.balance
      /\ Budget(in, amt) + Uint64(amt) <= SumOf(in.coins) + in.gas.balance
  BY <1>4, BudgetFacts
<1>6. Uint64(amt) \in Nat
  BY <1>1, Uint64Facts
<1>7. left \in Nat /\ Uint64(amt) <= SumOf(in.coins) + left /\ in.gas.balance >= Budget(in, amt)
  <2> DEFINE a == in.gas.balance
             b == Budget(in, amt)
             u == Uint64(amt)
             t == SumOf(in.coins)
  <2>1. a \in Nat /\ b \in Nat /\ u \in Nat /\ t \in Nat /\ b <= a /\ b + u <= t + a
    BY <1>5, <1>6
  <2> HIDE DEF a, b, u, t
  <2>2. a - b \in Nat /\ u <= t + (a - b) /\ a >= b
    BY <2>1
  <2> QED BY <2>2 DEF a, b, u, t
<1>8. /\ IsEnv(first) /\ first.done = 0
      /\ first.ok = (in.gas.balance >= Budget(in, amt) /\ Budget(in, amt) >= GasUsed)
      /\ DOMAIN first.at = Places(f + m + 2)
      /\ first.at[Gas] = Worth(in.gas, left)
      /\ f = 1 => first.at[Input(0)] = New("pure", left)
      /\ \A k \in 1..m : first.at[Input(f + k - 1)] = in.coins[k]
      /\ first.at[value] = New("pure", Uint64(amt))
      /\ first.at[to] = New("pure", Recipient)
  BY EnvironmentFacts
<1>9. first.ok
  BY <1>7, <1>8
<1>10. CommandsOf(d) = C
  BY PlanParts
<1>11. first.at[Gas].type = "sui" /\ first.at[Gas].balance = left /\ IsCoin(first.at[Gas])
  BY <1>1, <1>8, CoinObjectsAreCoins, CoinParts
<1> HIDE DEF first, C, d, left
<1>12. PICK F : /\ DoAll(first, C) = F[n + 2]
                /\ F[0] = first
                /\ \A k \in 1..(n + 2) : F[k] = Do(F[k - 1], C[k])
  <2>1. Len(C) \in Nat /\ Len(C) = n + 2
    BY <1>2, <1>3
  <2>2. PICK F : /\ DoAll(first, C) = F[Len(C)]
                 /\ F[0] = first
                 /\ \A k \in 1..Len(C) : F[k] = Do(F[k - 1], C[k])
    BY <2>1, DoAllSteps
  <2> QED BY <2>1, <2>2
<1>13. F[n + 2] = Do(Do(F[n], Pay(in)), Send(in, n))
  <2>1. n + 1 \in 1..(n + 2) /\ n + 2 \in 1..(n + 2) /\ (n + 1) - 1 = n /\ (n + 2) - 1 = n + 1
    BY <1>2
  <2>2. F[n + 1] = Do(F[n], C[n + 1]) /\ F[n + 2] = Do(F[n + 1], C[n + 2])
    BY <2>1, <1>12
  <2> QED BY <2>2, <1>3
<1>14. F[n + 2].ok /\ NoResultLeft(F[n + 2]) => Runs(d)
  <2> DEFINE env == F[n + 2]
             after == Do(F[n], Pay(in))
             tidy == NoResultLeft(env)
             env2 == [env EXCEPT !.ok = env.ok /\ tidy]
  <2>1. After(d) = env2
    BY <1>10, <1>12 DEF After, NoResultLeft, first
  <2> SUFFICES ASSUME env.ok, tidy PROVE Runs(d)
    OBVIOUS
  <2>2. "ok" \in DOMAIN env
    <3> DEFINE l == n + 2
    <3>1. /\ l \in Nat /\ IsEnv(F[0])
          /\ \A k \in 1..l : /\ F[k] = Do(F[k - 1], C[k])
                             /\ C[k][1] \in {"Command__SplitCoins", "Command__MergeCoins",
                                             "Command__TransferObjects"}
      BY <1>1, <1>2, <1>8, <1>12, CommandKinds DEF C
    <3>2. l \in 0..l
      BY <3>1
    <3> HIDE DEF l
    <3>3. IsEnv(F[l])
      BY <3>1, <3>2, EnvsAreEnvs
    <3>4. IsEnv(env)
      BY <3>3 DEF l
    <3> HIDE DEF env
    <3> QED BY <3>4 DEF IsEnv
  <2> HIDE DEF env, tidy
  <2>3. env2.ok = (env.ok /\ tidy)
    BY <2>2
  <2> QED BY <2>1, <2>3 DEF Runs
<1>15. Input(f + m) # Gas /\ Input(f + m + 1) # Gas /\ Input(f + m + 1) # PrimaryCoin(in)
  <2>1. f # f + m + 1 /\ Gas # Input(f + m + 1)
    BY <1>2, ResultsAreNew
  <2>2. PrimaryCoin(in) \in {Gas, Input(f)}
    BY DEF PrimaryCoin, Offset
  <2> QED BY <2>1, <2>2, ResultsAreNew
<1>16. \A a \in DOMAIN first.at : IsCoin(first.at[a])
  BY EnvironmentCoins DEF first, d
<1>17. CASE in.coins = <<>>
  <2> DEFINE size == f + m + 2
  <2>1. n = 0 /\ f = 0 /\ p = Gas /\ F[0] = first
    BY <1>2, <1>17, <1>12 DEF PrimaryCoin
  <2>2. m = 0 /\ SumOf(in.coins) = 0
    BY <1>17, EmptyList, NothingAddsUp
  <2>3. Early(first, first, places)
    BY <1>8, <1>16 DEF Early, Same
  <2>4. NoResultLeft(first)
    BY <1>8, ResultsAreNew DEF Places, NoResultLeft
  <2>5. /\ Gas \in DOMAIN first.at /\ value \in DOMAIN first.at /\ to \in DOMAIN first.at
    <3>1. Gas \in Places(f + m + 2) /\ Input(1 - 1) \in Places(f + m + 2)
          /\ Input(2 - 1) \in Places(f + m + 2)
      BY <2>1, <2>2 DEF Places
    <3>2. 1 - 1 = f + m /\ 2 - 1 = f + m + 1
      BY <2>1, <2>2
    <3> QED BY <3>1, <3>2, <1>8
  <2>6. Uint64(amt) <= first.at[Gas].balance
    <3>1. 0 + left = left
      BY <1>7
    <3> QED BY <3>1, <1>7, <1>11, <2>2
  <2> HIDE DEF size
  <2>7. DOMAIN first.at = Places(size)
    BY <1>8 DEF size
  <2>8. LET done == Do(Do(first, Pay(in)), Send(in, 0)) IN done.ok /\ NoResultLeft(done)
    BY <1>1, <1>8, <1>9, <1>11, <1>15, <2>1, <2>3, <2>4, <2>5, <2>6, <2>7, PayAndSend
  <2> QED BY <2>1, <2>8, <1>13, <1>14 DEF d
<1>18. CASE f = 1
  <2> DEFINE env == F[2]
             size == m + 3
  <2>1. in.coins # <<>> /\ n = 2 /\ p = Input(1) /\ f + m + 2 = m + 3
    <3>1. in.coins # <<>> /\ n = 2
      BY <1>2, <1>18, <1>1, BeforeFacts
    <3>2. SplitsGasCoin(in)
      BY <1>2, <1>18
    <3>3. p = Input(1)
      BY <3>1, <3>2 DEF PrimaryCoin
    <3>4. f + m + 2 = m + 3
      BY <1>2, <1>18
    <3> QED BY <3>1, <3>3, <3>4
  <2>2. F[2] = Do(Do(first, SplitOff), MergeAll(in))
    <3>1. 1 \in 1..(n + 2) /\ 2 \in 1..(n + 2) /\ 1 - 1 = 0 /\ 2 - 1 = 1
      BY <2>1
    <3>2. F[1] = Do(F[0], C[1]) /\ F[2] = Do(F[1], C[2])
      BY <3>1, <1>12
    <3> QED BY <3>2, <1>3, <1>12, <1>18
  <2>3. \A k \in 1..m : first.at[Input(k)] = in.coins[k]
    <3>1. \A k \in 1..m : f + k - 1 = k
      BY <1>2, <1>18
    <3> QED BY <3>1, <1>8
  <2>4. /\ Early(env, first, {Gas, Input(1)}) /\ env.ok /\ env.done = 2
        /\ NoResultLeft(env)
        /\ Input(1) \in DOMAIN env.at /\ env.at[Input(1)].type = "sui"
        /\ env.at[Input(1)].balance = SumOf(in.coins) + left
        /\ \A k \in {m + 1, m + 2} :
             Input(k) \in DOMAIN env.at /\ env.at[Input(k)] = first.at[Input(k)]
    <3>1. DOMAIN first.at = Places(m + 3) /\ first.at[Input(0)] = New("pure", left)
      BY <1>8, <1>18, <2>1
    <3>2. Ready(in, first, left)
      BY <1>1, <1>7, <1>8, <1>9, <1>11, <1>16, <1>18, <2>1, <2>3, <3>1 DEF Ready
    <3>3. Merged(env, in, first, left)
      BY <2>2, <3>2, CoinsAreMerged
    <3> QED BY <3>3 DEF Merged
  <2> HIDE DEF env, size
  <2>5. value = Input(m + 1) /\ to = Input(m + 2)
    <3>1. f + m = m + 1 /\ f + m + 1 = m + 2
      BY <1>2, <1>18
    <3> QED BY <3>1
  <2>6. DOMAIN first.at = Places(size)
    BY <1>8, <2>1 DEF size
  <2>7. /\ p \in DOMAIN env.at \cap places /\ Early(env, first, places)
        /\ env.at[p].type # "pure" /\ Uint64(amt) <= env.at[p].balance
        /\ value \in DOMAIN env.at /\ env.at[value] = New("pure", Uint64(amt))
        /\ to \in DOMAIN env.at /\ env.at[to] = New("pure", Recipient)
    BY <2>1, <2>4, <2>5, <1>7, <1>8
  <2>8. LET done == Do(Do(env, Pay(in)), Send(in, 2)) IN done.ok /\ NoResultLeft(done)
    BY <1>1, <1>15, <2>4, <2>6, <2>7, PayAndSend
  <2> QED BY <2>1, <2>8, <1>13, <1>14 DEF d, env
<1>19. in.coins = <<>> \/ f = 1
  BY <1>2, <1>4 DEF SplitsGasCoin
<1> QED BY <1>17, <1>18, <1>19
-----------------------------------------------------------------------------
(* The lists of coins that are fetched *)

LEMMA ShortenFacts ==
  ASSUME NEW seq, IsSeq(seq)
  PROVE  /\ IsSeq(Shorten(seq)) /\ Len(Shorten(seq)) <= Len(seq)
         /\ Len(Shorten(seq)) <= MaxCoinObjects
         /\ \A k \in 1..Len(Shorten(seq)) : Shorten(seq)[k] = seq[k]
<1> DEFINE n == IF Len(seq) > MaxCoinObjects THEN MaxCoinObjects ELSE Len(seq)
           S == { seq[k] : k \in 1..Len(seq) }
           r == SubSeq(seq, 1, n)
<1>1. /\ Len(seq) \in Nat /\ MaxCoinObjects \in Nat /\ n \in Nat /\ n <= Len(seq)
      /\ n <= MaxCoinObjects
  BY SuiAssumption DEF IsSeq
<1>2. seq \in Seq(S)
  BY SeqOfItsElements
<1> HIDE DEF n, S
<1>3. r = [k \in 1..n |-> seq[k]]
  BY <1>1, <1>2
<1>4. r = [k \in 1..n |-> r[k]] /\ \A k \in 1..n : r[k] = seq[k]
  BY <1>3
<1> HIDE DEF r
<1>5. IsSeq(r) /\ Len(r) = n
  BY <1>1, <1>4, FunctionIsSeq
<1>6. Shorten(seq) = r
  BY DEF Shorten, r, n
<1> QED BY <1>1, <1>4, <1>5, <1>6

CoinsOK ==
  /\ IsFiniteSet(coins) /\ coins \subseteq CoinObjects
  /\ \A c1, c2 \in coins : c1.id = c2.id => c1 = c2

\* The coins of a type, in an order of their balances.
LEMMA SortedCoins ==
  ASSUME CoinsOK, NEW type, NEW seq \in SortCoins(OfType(type))
  PROVE  /\ seq = <<>> \/ seq[1] \in OfType(type)
         /\ ListOK(Shorten(seq))
         /\ \A k \in 1..Len(Shorten(seq)) : Shorten(seq)[k] \in OfType(type)
<1> DEFINE S == OfType(type)
           n == Cardinality(S)
           l == Shorten(seq)
<1>1. /\ S \subseteq coins /\ IsFiniteSet(S) /\ \A c \in S : c.type = type
  BY FS_Subset DEF CoinsOK, OfType
<1> HIDE DEF S
<1>2. n \in Nat
  BY <1>1, FS_CardinalityType
<1>3. /\ seq \in [1..n -> S]
      /\ \A i, j \in 1..n : i < j => seq[i] # seq[j]
  BY DEF SortCoins, S
<1> HIDE DEF n
<1>4. IsSeq(seq) /\ Len(seq) = n
  BY <1>2, <1>3, FunctionIsSeq
<1>5. seq = <<>> \/ seq[1] \in S
  <2>1. n # 0 => 1 \in 1..n
    BY <1>2
  <2>2. n = 0 => seq = <<>>
    BY <1>3
  <2> QED BY <2>1, <2>2, <1>3
<1>6. /\ IsSeq(l) /\ Len(l) <= n /\ Len(l) <= MaxCoinObjects
      /\ \A k \in 1..Len(l) : l[k] = seq[k]
  BY <1>4, ShortenFacts
<1> HIDE DEF l
<1>7. \A k \in 1..Len(l) : k \in 1..n
  BY <1>2, <1>6 DEF IsSeq
<1>8. \A k \in 1..Len(l) : l[k] \in S
  BY <1>3, <1>6, <1>7
<1>9. ListOK(l)
  <2>1. ASSUME NEW j \in 1..Len(l), NEW k \in 1..Len(l), l[j].id = l[k].id PROVE j = k
    <3>1. l[j] \in coins /\ l[k] \in coins
      BY <1>1, <1>8
    <3>2. l[j] = l[k]
      BY <2>1, <3>1 DEF CoinsOK
    <3>3. j \in 1..n /\ k \in 1..n /\ seq[j] = seq[k]
      BY <3>2, <1>6, <1>7
    <3>4. ~ (j < k) /\ ~ (k < j)
      BY <3>3, <1>3
    <3> QED BY <3>3, <3>4, <1>2
  <2>2. \A k \in 1..Len(l) : l[k] \in CoinObjects /\ l[k].type = type
    BY <1>1, <1>8 DEF CoinsOK
  <2> QED BY <2>1, <2>2, <1>6 DEF ListOK
<1> QED BY <1>5, <1>8, <1>9 DEF l, S

\* A list without a coin is one of the same coins, in which that one is not.
LEMMA WithoutFacts ==
  ASSUME NEW list, ListOK(list), NEW coin
  PROVE  /\ ListOK(Without(list, coin))
         /\ \A k \in 1..Len(Without(list, coin)) :
              /\ Without(list, coin)[k].id # coin.id
              /\ \E j \in 1..Len(list) : Without(list, coin)[k] = list[j]
         /\ (\A k \in 1..Len(list) : list[k].id # coin.id) => Without(list, coin) = list
<1> DEFINE same == { k \in DOMAIN list : list[k].id = coin.id }
           n == Len(list)
           l == Without(list, coin)
<1>1. n \in Nat /\ DOMAIN list = 1..n /\ MaxCoinObjects \in Nat /\ n <= MaxCoinObjects
  BY SuiAssumption DEF ListOK, IsSeq
<1>2. CASE same = {}
  <2>1. l = list
    BY <1>2 DEF Without
  <2>2. \A k \in 1..n : list[k].id # coin.id
    BY <1>1, <1>2
  <2> QED BY <2>1, <2>2
<1>3. CASE same # {}
  <2>1. PICK i \in 1..n : list[i].id = coin.id
    BY <1>1, <1>3
  <2>2. \A k \in 1..n : list[k].id = coin.id => k = i
    BY <2>1 DEF ListOK
  <2>3. same = {i}
    BY <1>1, <2>1, <2>2
  <2>4. Min({i}) = i
    <3> DEFINE T == {i}
    <3>1. i \in T /\ (\A y \in T : i <= y) /\ (\A y \in T : y \in Int)
      BY <1>1
    <3> HIDE DEF T
    <3>2. Min(T) = i
      BY <3>1, MinIsLeast
    <3> QED BY <3>2 DEF T
  <2> DEFINE from(k) == IF k < i THEN k ELSE k + 1
             m == n - 1
  <2>5. l = [k \in 1..m |-> IF k < i THEN list[k] ELSE list[k + 1]]
    BY <2>3, <2>4, <1>3 DEF Without
  <2>6. m \in Nat /\ m <= MaxCoinObjects
    BY <1>1, <2>1
  <2>7. l = [k \in 1..m |-> l[k]] /\ \A k \in 1..m : l[k] = list[from(k)]
    BY <2>5
  <2>8. \A k \in 1..m : from(k) \in 1..n /\ from(k) # i
    BY <1>1, <2>1
  <2>9. \A j, k \in 1..m : from(j) = from(k) => j = k
    BY <1>1
  <2> HIDE DEF l, m, from, n
  <2>10. IsSeq(l) /\ Len(l) = m
    BY <2>6, <2>7, FunctionIsSeq
  <2>11. ListOK(l)
    <3>1. \A k \in 1..m : l[k] \in CoinObjects
      BY <2>7, <2>8 DEF ListOK, n
    <3>2. \A j, k \in 1..m : l[j].id = l[k].id => j = k
      BY <2>7, <2>8, <2>9 DEF ListOK, n
    <3>3. \A j, k \in 1..m : l[j].type = l[k].type
      BY <2>7, <2>8 DEF ListOK, n
    <3> QED BY <3>1, <3>2, <3>3, <2>6, <2>10 DEF ListOK
  <2>12. \A k \in 1..m : l[k].id # coin.id /\ \E j \in 1..n : l[k] = list[j]
    BY <2>2, <2>7, <2>8
  <2> QED BY <2>1, <2>10, <2>11, <2>12 DEF l, n
<1> QED BY <1>2, <1>3
-----------------------------------------------------------------------------
(* The inductive invariant: what is fetched can be planned, what was built is *)
(* planned, and nothing has happened to the coins but what other transactions *)
(* did to them, until the transfer is submitted.                              *)

InputOK ==
  /\ asset.type \in {"sui", "token"}
  /\ epoch \in Nat /\ input.epoch \in Nat /\ input.epoch <= epoch
  /\ input = [coins |-> input.coins, gas |-> input.gas, price |-> input.price,
              budget |-> input.budget, epoch |-> input.epoch]
  /\ ListOK(input.coins) /\ \A k \in 1..Len(input.coins) : input.coins[k].type = asset.type
  /\ input.gas = NoCoin \/ (input.gas \in CoinObjects /\ input.gas.type = "sui")
  /\ input.budget \in Nat

\* The gas coin is not one of the coins to be spent.
Excluded ==
  stage \in {"fetched", "built", "signed", "lost", "submitted", "refused"} =>
    \A k \in 1..Len(input.coins) : input.coins[k].id # input.gas.id

TxOK ==
  /\ tx = [data |-> tx.data, signatures |-> tx.signatures]
  /\ amount \in Amounts \cup {0}
  /\ stage \in {"built", "signed", "lost", "submitted"} =>
       Planned(input, amount) /\ tx.data = Plan(input, amount)

Unspent == ChainOK(input) /\ received = [type \in {"sui", "token"} |-> 0]

InvBuilt ==
  /\ InputOK /\ Excluded /\ TxOK
  /\ stage \notin {"lost", "submitted", "error"} => Unspent

\* Inputs by their parts.
LEMMA FetchedParts ==
  ASSUME NEW in, in = [coins |-> in.coins, gas |-> in.gas, price |-> in.price,
                       budget |-> in.budget, epoch |-> in.epoch]
  PROVE  /\ \A e : [in EXCEPT !.epoch = e]
                     = [coins |-> in.coins, gas |-> in.gas, price |-> in.price,
                        budget |-> in.budget, epoch |-> e]
         /\ \A c : [in EXCEPT !.gas = c]
                     = [coins |-> in.coins, gas |-> c, price |-> in.price,
                        budget |-> in.budget, epoch |-> in.epoch]
         /\ \A l : [in EXCEPT !.coins = l]
                     = [coins |-> l, gas |-> in.gas, price |-> in.price,
                        budget |-> in.budget, epoch |-> in.epoch]
         /\ \A p, b : [in EXCEPT !.price = p, !.budget = b]
                     = [coins |-> in.coins, gas |-> in.gas, price |-> p,
                        budget |-> b, epoch |-> in.epoch]
<1>1. ASSUME NEW e PROVE [in EXCEPT !.epoch = e]
                     = [coins |-> in.coins, gas |-> in.gas, price |-> in.price,
                        budget |-> in.budget, epoch |-> e]
  OBVIOUS
<1>2. ASSUME NEW c PROVE [in EXCEPT !.gas = c]
                     = [coins |-> in.coins, gas |-> c, price |-> in.price,
                        budget |-> in.budget, epoch |-> in.epoch]
  OBVIOUS
<1>3. ASSUME NEW l PROVE [in EXCEPT !.coins = l]
                     = [coins |-> l, gas |-> in.gas, price |-> in.price,
                        budget |-> in.budget, epoch |-> in.epoch]
  OBVIOUS
<1>4. ASSUME NEW p, NEW b
      PROVE  [in EXCEPT !.price = p, !.budget = b]
                     = [coins |-> in.coins, gas |-> in.gas, price |-> p,
                        budget |-> b, epoch |-> in.epoch]
  <2>1. [in EXCEPT !.price = p, !.budget = b] = [[in EXCEPT !.price = p] EXCEPT !.budget = b]
    OBVIOUS
  <2> DEFINE y == [in EXCEPT !.price = p]
  <2>2. y = [coins |-> in.coins, gas |-> in.gas, price |-> p, budget |-> in.budget,
             epoch |-> in.epoch]
    OBVIOUS
  <2> HIDE DEF y
  <2>3. [y EXCEPT !.budget = b] = [coins |-> in.coins, gas |-> in.gas, price |-> p,
                                   budget |-> b, epoch |-> in.epoch]
    BY <2>2
  <2> QED BY <2>1, <2>3 DEF y
<1> QED BY <1>1, <1>2, <1>3, <1>4

LEMMA InitBuilt == Init => InvBuilt
<1> SUFFICES ASSUME Init PROVE InvBuilt
  OBVIOUS
<1>1. PICK s \in Starts : asset = s.asset /\ coins = s.coins
  BY DEF Init
<1>2. /\ epoch = 1 /\ received = [type \in {"sui", "token"} |-> 0] /\ input = NoInput
      /\ tx = NoTx /\ amount = 0 /\ stage = "start"
  BY DEF Init
<1>3. /\ input.coins = <<>> /\ input.gas = NoCoin /\ input.epoch = 0 /\ input.budget = 0
      /\ input.price = 0
  BY <1>2 DEF NoInput
<1>4. input = [coins |-> input.coins, gas |-> input.gas, price |-> input.price,
               budget |-> input.budget, epoch |-> input.epoch]
  BY <1>2 DEF NoInput
<1>5. ListOK(<<>>)
  BY EmptyList, SuiAssumption DEF ListOK
<1>6. InputOK
  <2>1. asset.type \in {"sui", "token"}
    BY <1>1, SuiAssumption
  <2> QED BY <2>1, <1>2, <1>3, <1>4, <1>5, EmptyList DEF InputOK
<1>7. Excluded /\ TxOK
  BY <1>2 DEF Excluded, TxOK, NoTx
<1>8. ChainOK(input)
  <2>1. CoinsOK
    BY <1>1, SuiAssumption DEF CoinsOK
  <2>2. \A c \in coins : c.id # 0
    BY <2>1, CoinObjectsAreCoins DEF CoinsOK
  <2>3. input.gas.id = 0 /\ \A k \in 1..Len(input.coins) : FALSE
    <3>1. Len(input.coins) = 0 /\ \A k \in 1..0 : FALSE
      BY <1>3, EmptyList
    <3>2. NoCoin.id = 0
      BY DEF NoCoin
    <3>3. input.gas.id = 0
      BY <1>3, <3>2
    <3>4. \A k \in 1..Len(input.coins) : FALSE
      BY <3>1
    <3> QED BY <3>3, <3>4
  <2> QED BY <2>1, <2>2, <2>3 DEF CoinsOK, ChainOK
<1> QED BY <1>2, <1>6, <1>7, <1>8 DEF InvBuilt, Unspent

LEMMA FetchCoinsBuilt == ASSUME InvBuilt, FetchCoins PROVE InvBuilt'
<1>1. /\ stage = "start" /\ stage' = "coins"
      /\ asset' = asset /\ coins' = coins /\ epoch' = epoch /\ received' = received
      /\ amount' = amount /\ tx' = tx
  BY DEF FetchCoins
<1>2. PICK seq \in SortCoins(OfType(asset.type)) : input' = [NoInput EXCEPT !.coins = Shorten(seq)]
  BY DEF FetchCoins
<1> DEFINE l == Shorten(seq)
<1>3. InputOK /\ TxOK /\ ChainOK(input) /\ received = [type \in {"sui", "token"} |-> 0]
  BY <1>1 DEF InvBuilt, Unspent
<1>4. CoinsOK
  BY <1>3 DEF ChainOK, CoinsOK
<1>5. ListOK(l) /\ \A k \in 1..Len(l) : l[k] \in coins /\ l[k].type = asset.type
  <2>1. ListOK(l) /\ \A k \in 1..Len(l) : l[k] \in OfType(asset.type)
    BY <1>2, <1>4, SortedCoins
  <2> HIDE DEF l
  <2> QED BY <2>1 DEF OfType
<1>6. input' = [coins |-> l, gas |-> NoCoin, price |-> 0, budget |-> 0, epoch |-> 0]
  BY <1>2 DEF NoInput
<1> HIDE DEF l
<1>7. InputOK'
  BY <1>1, <1>3, <1>5, <1>6 DEF InputOK
<1>8. Excluded' /\ TxOK'
  BY <1>1, <1>3 DEF Excluded, TxOK
<1>9. ChainOK(input)'
  <2>1. \A c \in coins : c.id # 0
    BY <1>4, CoinObjectsAreCoins DEF CoinsOK
  <2>2. NoCoin.id = 0
    BY DEF NoCoin
  <2>3. input'.gas = NoCoin /\ input'.coins = l
    BY <1>6
  <2>4. \A c \in coins : \A k \in 1..Len(l) : c.id = l[k].id => c.type = l[k].type
    BY <1>4, <1>5 DEF CoinsOK
  <2> QED BY <1>1, <1>4, <2>1, <2>2, <2>3, <2>4 DEF CoinsOK, ChainOK
<1> QED BY <1>1, <1>3, <1>7, <1>8, <1>9 DEF InvBuilt, Unspent

LEMMA FetchCheckpointBuilt == ASSUME InvBuilt, FetchLatestCheckpoint PROVE InvBuilt'
<1>1. /\ stage = "coins" /\ stage' = "epoch" /\ input' = [input EXCEPT !.epoch = epoch]
      /\ asset' = asset /\ coins' = coins /\ epoch' = epoch /\ received' = received
      /\ amount' = amount /\ tx' = tx
  BY DEF FetchLatestCheckpoint
<1>2. InputOK /\ TxOK /\ ChainOK(input) /\ received = [type \in {"sui", "token"} |-> 0]
  BY <1>1 DEF InvBuilt, Unspent
<1>3. input' = [coins |-> input.coins, gas |-> input.gas, price |-> input.price,
                budget |-> input.budget, epoch |-> epoch]
  BY <1>1, <1>2, FetchedParts DEF InputOK
<1>4. InputOK'
  BY <1>1, <1>2, <1>3 DEF InputOK
<1>5. Excluded' /\ TxOK'
  BY <1>1, <1>2 DEF Excluded, TxOK
<1>6. ChainOK(input)'
  BY <1>1, <1>2, <1>3 DEF ChainOK
<1> QED BY <1>1, <1>2, <1>4, <1>5, <1>6 DEF InvBuilt, Unspent

LEMMA FetchGasCoinBuilt == ASSUME InvBuilt, FetchGasCoin PROVE InvBuilt'
<1>1. /\ stage = "epoch" /\ stage' = "gas coin"
      /\ asset' = asset /\ coins' = coins /\ epoch' = epoch /\ received' = received
      /\ amount' = amount /\ tx' = tx
  BY DEF FetchGasCoin
<1>2. InputOK /\ TxOK /\ ChainOK(input) /\ received = [type \in {"sui", "token"} |-> 0]
  BY <1>1 DEF InvBuilt, Unspent
<1>3. CoinsOK
  BY <1>2 DEF ChainOK, CoinsOK
<1>4. PICK gas : /\ input' = [input EXCEPT !.gas = gas]
                 /\ \/ gas = NoCoin
                    \/ gas \in OfType("sui")
                    \/ asset.type = "sui" /\ input.coins # <<>> /\ gas = input.coins[1]
  <2>1. CASE asset.type = "token"
    <3>1. PICK seq \in SortCoins(OfType("sui")) :
            input' = [input EXCEPT !.gas = IF seq = <<>> THEN NoCoin ELSE seq[1]]
      BY <2>1 DEF FetchGasCoin
    <3>2. seq = <<>> \/ seq[1] \in OfType("sui")
      BY <1>3, SortedCoins
    <3> QED BY <3>1, <3>2
  <2>2. CASE asset.type = "sui"
    BY <2>2 DEF FetchGasCoin
  <2> QED BY <2>1, <2>2, <1>2 DEF InputOK
<1>5. input' = [coins |-> input.coins, gas |-> gas, price |-> input.price,
                budget |-> input.budget, epoch |-> input.epoch]
  BY <1>2, <1>4, FetchedParts DEF InputOK
<1>6. /\ gas = NoCoin \/ (gas \in CoinObjects /\ gas.type = "sui")
      /\ \A c \in coins : c.id = gas.id => c.type = gas.type
  <2>1. CASE gas = NoCoin
    <3>1. \A c \in coins : c.id # 0
      BY <1>3, CoinObjectsAreCoins DEF CoinsOK
    <3> QED BY <2>1, <3>1 DEF NoCoin
  <2>2. CASE gas \in OfType("sui")
    BY <2>2, <1>3 DEF OfType, CoinsOK
  <2>3. CASE asset.type = "sui" /\ input.coins # <<>> /\ gas = input.coins[1]
    <3>1. ListOK(input.coins)
      BY <1>2 DEF InputOK
    <3>2. 1 \in 1..Len(input.coins)
      BY <2>3, <3>1, MergeInputsFacts, SpendableIsAll
    <3> QED BY <2>3, <3>1, <3>2, <1>2 DEF InputOK, ListOK, ChainOK
  <2> QED BY <2>1, <2>2, <2>3, <1>4
<1>7. InputOK'
  BY <1>1, <1>2, <1>5, <1>6 DEF InputOK
<1>8. Excluded' /\ TxOK'
  BY <1>1, <1>2 DEF Excluded, TxOK
<1>9. ChainOK(input)'
  BY <1>1, <1>2, <1>5, <1>6 DEF ChainOK
<1> QED BY <1>1, <1>2, <1>7, <1>8, <1>9 DEF InvBuilt, Unspent

LEMMA EstimateGasBuilt == ASSUME InvBuilt, EstimateGas PROVE InvBuilt'
<1>1. /\ stage = "gas coin" /\ stage' \in {"fetched", "error"}
      /\ asset' = asset /\ coins' = coins /\ epoch' = epoch /\ received' = received
      /\ amount' = amount /\ tx' = tx
  BY DEF EstimateGas
<1>2. InputOK /\ TxOK /\ ChainOK(input) /\ received = [type \in {"sui", "token"} |-> 0]
  BY <1>1 DEF InvBuilt, Unspent
<1>3. CASE stage' = "error" /\ input' = input
  <2>1. InputOK'
    BY <1>1, <1>2, <1>3 DEF InputOK
  <2>2. Excluded' /\ TxOK'
    BY <1>1, <1>2, <1>3 DEF Excluded, TxOK
  <2> QED BY <1>1, <1>3, <2>1, <2>2 DEF InvBuilt
<1>4. ASSUME NEW price,
             stage' = "fetched",
             input' = ExcludeGasCoin([input EXCEPT !.price = price, !.budget = NormalBudget])
      PROVE  InvBuilt'
  <2> DEFINE in == [input EXCEPT !.price = price, !.budget = NormalBudget]
             l == Without(input.coins, input.gas)
             b == NormalBudget
  <2>1. in = [coins |-> input.coins, gas |-> input.gas, price |-> price,
              budget |-> b, epoch |-> input.epoch]
    BY <1>2, FetchedParts DEF InputOK
  <2>2. input' = ExcludeGasCoin(in)
    BY <1>4
  <2> HIDE DEF in
  <2>3. /\ in.coins = input.coins /\ in.gas = input.gas /\ in.budget = b
        /\ in.epoch = input.epoch /\ in.price = price
    BY <2>1
  <2>4. input' = [in EXCEPT !.coins = l]
    BY <2>2, <2>3 DEF ExcludeGasCoin
  <2>5. in = [coins |-> in.coins, gas |-> in.gas, price |-> in.price,
              budget |-> in.budget, epoch |-> in.epoch]
    BY <2>1, <2>3
  <2> HIDE DEF l
  <2>6. input' = [coins |-> l, gas |-> input.gas, price |-> price,
                  budget |-> b, epoch |-> input.epoch]
    BY <2>3, <2>4, <2>5, FetchedParts
  <2>7. /\ ListOK(l)
        /\ \A k \in 1..Len(l) :
             l[k].id # input.gas.id /\ \E j \in 1..Len(input.coins) : l[k] = input.coins[j]
    <3> DEFINE list == input.coins
               gas == input.gas
               r == Without(list, gas)
    <3>1. ListOK(list) /\ l = r
      BY <1>2 DEF InputOK, l
    <3> HIDE DEF list, gas
    <3>2. ListOK(r)
      BY <3>1, WithoutFacts
    <3>3. \A k \in 1..Len(r) : r[k].id # gas.id /\ \E j \in 1..Len(list) : r[k] = list[j]
      BY <3>1, WithoutFacts
    <3> HIDE DEF r
    <3>4. \A k \in 1..Len(l) : l[k].id # gas.id /\ \E j \in 1..Len(list) : l[k] = list[j]
      BY <3>1, <3>3
    <3> QED BY <3>1, <3>2, <3>4 DEF list, gas
  <2>8. b \in Nat
    BY SuiAssumption
  <2> HIDE DEF b
  <2>9. InputOK'
    <3>1. \A k \in 1..Len(l) : l[k].type = asset.type
      BY <2>7, <1>2 DEF InputOK
    <3> QED BY <3>1, <1>1, <1>2, <2>6, <2>7, <2>8 DEF InputOK
  <2>10. Excluded'
    BY <2>6, <2>7 DEF Excluded
  <2>11. TxOK'
    BY <1>1, <1>2, <1>4 DEF TxOK
  <2>12. ChainOK(input)'
    <3>1. ASSUME NEW c \in coins, NEW k \in 1..Len(l), c.id = l[k].id PROVE c.type = l[k].type
      <4>1. PICK j \in 1..Len(input.coins) : l[k] = input.coins[j]
        BY <2>7
      <4>2. c.id = input.coins[j].id => c.type = input.coins[j].type
        BY <1>2 DEF ChainOK
      <4> QED BY <3>1, <4>1, <4>2
    <3>2. input'.gas = input.gas /\ input'.coins = l
      BY <2>6
    <3> QED BY <3>1, <3>2, <1>1, <1>2 DEF ChainOK
  <2> QED BY <1>1, <1>2, <2>9, <2>10, <2>11, <2>12 DEF InvBuilt, Unspent
<1>5. \/ stage' = "error" /\ input' = input
      \/ \E price : /\ stage' = "fetched"
                    /\ input' = ExcludeGasCoin([input EXCEPT !.price = price,
                                                             !.budget = NormalBudget])
  BY DEF EstimateGas
<1> QED BY <1>3, <1>4, <1>5

LEMMA NewTransferBuilt ==
  ASSUME InvBuilt, NEW amt \in Amounts, NewTransfer(amt)
  PROVE  InvBuilt'
<1>1. /\ stage = "fetched" /\ amount' = amt /\ input' = input
      /\ asset' = asset /\ coins' = coins /\ epoch' = epoch /\ received' = received
      /\ IF Fails(ExcludeGasCoin(input), amt) THEN stage' = "refused" /\ UNCHANGED tx
         ELSE stage' = "built" /\ tx' = [NoTx EXCEPT !.data = Plan(ExcludeGasCoin(input), amt)]
  BY DEF NewTransfer
<1>2. /\ InputOK /\ Excluded /\ TxOK /\ ChainOK(input)
      /\ received = [type \in {"sui", "token"} |-> 0]
  BY <1>1 DEF InvBuilt, Unspent
<1>3. \A k \in 1..Len(input.coins) : input.coins[k].id # input.gas.id
  BY <1>1, <1>2 DEF Excluded
<1>4. ExcludeGasCoin(input) = input
  <2> DEFINE l == Without(input.coins, input.gas)
  <2>1. l = input.coins
    BY <1>2, <1>3, WithoutFacts DEF InputOK
  <2>2. ExcludeGasCoin(input) = [input EXCEPT !.coins = l]
    BY DEF ExcludeGasCoin
  <2> HIDE DEF l
  <2>3. [input EXCEPT !.coins = l] = input
    BY <1>2, <2>1 DEF InputOK
  <2> QED BY <2>2, <2>3
<1>5. InputOK'
  BY <1>1, <1>2 DEF InputOK
<1>6. Excluded'
  BY <1>1, <1>3 DEF Excluded
<1>7. ChainOK(input)'
  BY <1>1, <1>2 DEF ChainOK
<1>8. CASE Fails(input, amt)
  <2>1. stage' = "refused" /\ tx' = tx
    BY <1>1, <1>4, <1>8
  <2>2. TxOK'
    <3>1. amount' \in Amounts \cup {0}
      BY <1>1
    <3> QED BY <3>1, <1>2, <2>1 DEF TxOK
  <2> QED BY <1>1, <1>2, <1>5, <1>6, <1>7, <2>1, <2>2 DEF InvBuilt, Unspent
<1>9. CASE ~ Fails(input, amt)
  <2> DEFINE d == Plan(input, amt)
  <2>1. stage' = "built" /\ tx' = [NoTx EXCEPT !.data = d]
    BY <1>1, <1>4, <1>9
  <2>2. d = Plan(input, amount)'
    BY <1>1
  <2> HIDE DEF d
  <2>3. tx' = [data |-> d, signatures |-> <<>>]
    BY <2>1 DEF NoTx
  <2>4. Planned(input, amt)
    <3>1. input.gas \in CoinObjects /\ input.gas.type = "sui"
      BY <1>2, <1>9 DEF InputOK, Fails
    <3>2. amt \in Nat
      BY SuiAssumption
    <3> QED BY <3>1, <3>2, <1>2, <1>3, <1>9 DEF InputOK, Planned
  <2>5. Planned(input, amount)'
    BY <2>4, <1>1
  <2>6. TxOK'
    BY <1>1, <2>2, <2>3, <2>5 DEF TxOK
  <2> QED BY <1>1, <1>2, <1>5, <1>6, <1>7, <2>1, <2>6 DEF InvBuilt, Unspent
<1> QED BY <1>8, <1>9

LEMMA AddSignaturesBuilt == ASSUME InvBuilt, AddSignatures PROVE InvBuilt' /\ tx'.data = tx.data
<1> DEFINE signed == Append(tx.signatures, Sighashes(tx))
<1>1. /\ stage = "built" /\ stage' = "signed" /\ input' = input /\ amount' = amount
      /\ tx' = [tx EXCEPT !.signatures = signed]
      /\ asset' = asset /\ coins' = coins /\ epoch' = epoch /\ received' = received
  BY DEF AddSignatures
<1> HIDE DEF signed
<1>2. /\ InputOK /\ Excluded /\ TxOK /\ ChainOK(input)
      /\ received = [type \in {"sui", "token"} |-> 0]
  BY <1>1 DEF InvBuilt, Unspent
<1>3. tx' = [data |-> tx.data, signatures |-> signed]
  BY <1>1, <1>2 DEF TxOK
<1>4. InputOK'
  BY <1>1, <1>2 DEF InputOK
<1>5. Excluded'
  BY <1>1, <1>2 DEF Excluded
<1>6. ChainOK(input)'
  BY <1>1, <1>2 DEF ChainOK
<1>7. TxOK'
  BY <1>1, <1>2, <1>3 DEF TxOK
<1> QED BY <1>1, <1>2, <1>3, <1>4, <1>5, <1>6, <1>7 DEF InvBuilt, Unspent

LEMMA SubmitTxBuilt == ASSUME InvBuilt, SubmitTx PROVE InvBuilt'
<1>1. /\ stage \in {"signed", "lost"} /\ stage' \in {"submitted", "lost", "error"}
      /\ asset' = asset /\ epoch' = epoch /\ input' = input /\ amount' = amount /\ tx' = tx
  BY DEF SubmitTx
<1>2. InputOK /\ Excluded /\ TxOK
  BY DEF InvBuilt
<1>3. InputOK' /\ Excluded' /\ TxOK'
  BY <1>1, <1>2 DEF InputOK, Excluded, TxOK
<1> QED BY <1>1, <1>3 DEF InvBuilt

\* What another transaction makes of a coin is a coin with the same name.
LEMMA OtherTxKeepsChain ==
  ASSUME ChainOK(input), OtherTx
  PROVE  ChainOK(input)'
<1> DEFINE in == input
<1>1. PICK c \in coins : coins' = (coins \ {c}) \cup { Bumped(c, c.balance \div 2) }
  BY DEF OtherTx
<1>0. input' = input
  BY DEF OtherTx
<1> DEFINE b == c.balance \div 2
           d == Bumped(c, b)
<1>2. c \in CoinObjects /\ IsFiniteSet(coins) /\ coins \subseteq CoinObjects
  BY DEF ChainOK
<1>3. b \in 0..(Size(U64Bytes) - 1)
  <2> DEFINE n == c.balance
             m == Size(U64Bytes) - 1
  <2>1. n \in 0..m /\ m \in Nat
    BY <1>2, CoinObjectsAreCoins, SizeFacts
  <2> HIDE DEF n, m
  <2>2. n \div 2 \in 0..m
    BY <2>1
  <2> QED BY <2>2 DEF n, m
<1> HIDE DEF b
<1>4. IsCoin(d) /\ d.id = c.id /\ d.type = c.type /\ d.balance = b /\ d.version = c.version + 1
  BY <1>2, CoinObjectsAreCoins, CoinParts
<1> HIDE DEF d
<1>5. d \in CoinObjects
  <2>1. /\ c.id \in 1..(Size(AddressBytes) - 1) /\ c.type \in {"sui", "token"}
        /\ c.version + 1 \in Nat
    BY <1>2 DEF CoinObjects
  <2>2. d = [id |-> d.id, type |-> d.type, balance |-> d.balance, version |-> d.version]
    BY <1>4 DEF IsCoin
  <2> QED BY <2>1, <2>2, <1>3, <1>4 DEF CoinObjects
<1>6. coins' = (coins \ {c}) \cup {d}
  BY <1>1 DEF d, b
<1>7. IsFiniteSet(coins') /\ coins' \subseteq CoinObjects
  BY <1>2, <1>5, <1>6, FS_AddElement, FS_RemoveElement
<1>8. \A x \in coins' : \E y \in coins : x.id = y.id /\ x.type = y.type
  BY <1>4, <1>6
<1>9. \A x1, x2 \in coins' : x1.id = x2.id => x1 = x2
  BY <1>4, <1>6 DEF ChainOK
<1>10. \A x \in coins' : /\ x.id = in.gas.id => x.type = in.gas.type
                         /\ \A k \in 1..Len(in.coins) :
                              x.id = in.coins[k].id => x.type = in.coins[k].type
  BY <1>8 DEF ChainOK
<1> QED BY <1>7, <1>9, <1>10, <1>0 DEF ChainOK

LEMMA OtherTxBuilt == ASSUME InvBuilt, OtherTx PROVE InvBuilt'
<1>1. /\ stage \in {"coins", "signed"} /\ stage' = stage /\ input' = input /\ amount' = amount
      /\ asset' = asset /\ epoch' = epoch /\ received' = received /\ tx' = tx
  BY DEF OtherTx
<1>2. /\ InputOK /\ Excluded /\ TxOK /\ ChainOK(input)
      /\ received = [type \in {"sui", "token"} |-> 0]
  BY <1>1 DEF InvBuilt, Unspent
<1>3. InputOK' /\ Excluded' /\ TxOK'
  BY <1>1, <1>2 DEF InputOK, Excluded, TxOK
<1>4. ChainOK(input)'
  BY <1>2, OtherTxKeepsChain
<1> QED BY <1>1, <1>2, <1>3, <1>4 DEF InvBuilt, Unspent

LEMMA EndEpochBuilt == ASSUME InvBuilt, EndEpoch PROVE InvBuilt'
<1>1. /\ stage' = stage /\ input' = input /\ amount' = amount /\ epoch = 1 /\ epoch' = 2
      /\ asset' = asset /\ coins' = coins /\ received' = received /\ tx' = tx
  BY DEF EndEpoch
<1>2. InputOK /\ Excluded /\ TxOK
  BY DEF InvBuilt
<1>3. InputOK'
  BY <1>1, <1>2 DEF InputOK
<1>4. Excluded' /\ TxOK'
  BY <1>1, <1>2 DEF Excluded, TxOK
<1>5. Unspent => Unspent'
  BY <1>1 DEF Unspent, ChainOK
<1> QED BY <1>1, <1>3, <1>4, <1>5 DEF InvBuilt

LEMMA IdleBuilt == ASSUME InvBuilt, UNCHANGED vars PROVE InvBuilt'
<1>1. /\ stage' = stage /\ input' = input /\ amount' = amount /\ epoch' = epoch
      /\ asset' = asset /\ coins' = coins /\ received' = received /\ tx' = tx
  BY DEF vars
<1>2. InputOK /\ Excluded /\ TxOK
  BY DEF InvBuilt
<1>3. InputOK' /\ Excluded' /\ TxOK'
  BY <1>1, <1>2 DEF InputOK, Excluded, TxOK
<1>4. Unspent => Unspent'
  BY <1>1 DEF Unspent, ChainOK
<1> QED BY <1>1, <1>3, <1>4 DEF InvBuilt

LEMMA NextBuilt == InvBuilt /\ [Next]_vars => InvBuilt'
<1> SUFFICES ASSUME InvBuilt, [Next]_vars PROVE InvBuilt'
  OBVIOUS
<1> HIDE DEF InvBuilt
<1>1. CASE FetchCoins
  BY <1>1, FetchCoinsBuilt
<1>2. CASE FetchLatestCheckpoint
  BY <1>2, FetchCheckpointBuilt
<1>3. CASE FetchGasCoin
  BY <1>3, FetchGasCoinBuilt
<1>4. CASE EstimateGas
  BY <1>4, EstimateGasBuilt
<1>5. CASE \E amt \in Amounts : NewTransfer(amt)
  BY <1>5, NewTransferBuilt
<1>6. CASE AddSignatures
  BY <1>6, AddSignaturesBuilt
<1>7. CASE SubmitTx
  BY <1>7, SubmitTxBuilt
<1>8. CASE OtherTx
  BY <1>8, OtherTxBuilt
<1>9. CASE EndEpoch
  BY <1>9, EndEpochBuilt
<1>10. CASE UNCHANGED vars
  BY <1>10, IdleBuilt
<1> QED BY <1>1, <1>2, <1>3, <1>4, <1>5, <1>6, <1>7, <1>8, <1>9, <1>10 DEF Next

LEMMA AlwaysBuilt == Spec => []InvBuilt
  BY InitBuilt, NextBuilt, PTL DEF Spec

\* A SUI transfer whose coins are as they were fetched and whose budget covers
\* the gas goes through, for all coins, amounts, gas prices and budgets: what the
\* commands split off, merge and send is there when they do (tx.go:60-130).
THEOREM TransfersRun == Spec => []BuiltTransfersRun
<1>1. InvBuilt => BuiltTransfersRun
  <2> SUFFICES ASSUME InvBuilt, Built, asset.type = "sui", BudgetOf(tx.data) >= GasUsed,
                      Current(tx.data)
               PROVE  Runs(tx.data)
    BY DEF BuiltTransfersRun
  <2>1. /\ InputOK /\ Planned(input, amount) /\ tx.data = Plan(input, amount)
        /\ ChainOK(input)
    BY DEF Built, InvBuilt, TxOK, Unspent
  <2>2. \A k \in 1..Len(input.coins) : input.coins[k].type = "sui"
    BY <2>1 DEF InputOK
  <2>3. BudgetOf(Plan(input, amount)) = Budget(input, amount)
    BY PlanParts
  <2> QED BY <2>1, <2>2, <2>3, TransferCanBeDone
<1> QED BY <1>1, AlwaysBuilt, PTL
-----------------------------------------------------------------------------
(* What a transfer has done once it was submitted, if it is read as written *)

\* The gas coin is not there as it was named, and the amount was received, once.
Spent ==
  /\ \A c \in coins : /\ c.id \in 1..(Size(AddressBytes) - 1)
                      /\ c.id = input.gas.id => c.version # input.gas.version
  /\ \A type \in {"sui", "token"} :
       received[type] \in IF type = Sent(input) THEN {0, Uint64(amount)} ELSE {0}

InvPaid ==
  /\ stage \in {"signed", "lost"} => Decode(Encode(tx.data)) = {tx.data}
  /\ stage \in {"lost", "submitted", "error"} => Unspent \/ Spent

\* A spent gas coin is no longer the one a transfer names.
LEMMA SpentIsStale ==
  ASSUME InvBuilt, Spent, stage \in {"signed", "lost"}
  PROVE  ~ Current(tx.data)
<1>1. Planned(input, amount) /\ tx.data = Plan(input, amount)
  BY DEF InvBuilt, TxOK
<1>2. GasRef(tx.data) = coinToObject(input.gas) /\ input.gas \in CoinObjects
  BY <1>1, PlanParts DEF Planned
<1>3. ASSUME Current(tx.data) PROVE FALSE
  <2>1. \E c \in coins : coinToObject(c) = coinToObject(input.gas)
    BY <1>2, <1>3 DEF Current, Refs
  <2>2. PICK c \in coins : coinToObject(c) = coinToObject(input.gas)
    BY <2>1
  <2>3. c.id \in 0..(Size(AddressBytes) - 1)
    BY SizeFacts DEF Spent
  <2>4. c.id = input.gas.id /\ c.version = input.gas.version
    BY <1>2, <2>2, <2>3, CoinObjectsAreCoins, ReferencesTellCoins
  <2> QED BY <2>4 DEF Spent
<1> QED BY <1>3

\* What executing a transfer does to the wallet and the recipient.
LEMMA ExecutedIsSpent ==
  ASSUME InvBuilt, Unspent, stage \in {"signed", "lost"}, Current(tx.data), Execute(tx.data),
         input' = input, amount' = amount
  PROVE  Spent'
<1> DEFINE in == input
           d == tx.data
           env == After(d)
           gas == in.gas
           objects == { CoinAt(RefOf(InputsOf(d)[k])) : k \in Objects(d) }
           kept == { env.at[a] : a \in { b \in DOMAIN env.at : env.at[b].id # 0 } \ {Gas} }
           paid == env.at[Gas].balance + BudgetOf(d) - GasUsed
           lost == gas.balance - Min({GasUsed, BudgetOf(d)})
           A == 1..(Size(AddressBytes) - 1)
<1>1. Planned(in, amount) /\ d = Plan(in, amount) /\ ChainOK(in)
  BY DEF InvBuilt, TxOK, Unspent
<1>2. CoinAt(GasRef(d)) = gas /\ gas \in coins /\ gas \in CoinObjects
  BY <1>1, PlanParts, NamedCoinsAreThere DEF Planned
<1>3. \A c \in coins : /\ c.id \in A /\ c.version \in Nat /\ IsCoin(c)
                       /\ c.id = gas.id => c = gas
  BY <1>1, <1>2, CoinObjectsAreCoins DEF ChainOK, CoinObjects
<1>4. \A x : /\ Bumped(gas, x).id = gas.id /\ Bumped(gas, x).version = gas.version + 1
  BY <1>2, <1>3, CoinParts
<1>5. received = [type \in {"sui", "token"} |-> 0]
  BY DEF Unspent
<1> DEFINE Stale(c) == c.id \in A /\ (c.id = gas.id => c.version # gas.version)
<1>6. /\ \A c \in coins \ {gas} : Stale(c)
      /\ \A x : Stale(Bumped(gas, x))
  BY <1>2, <1>3, <1>4
<1>7. CASE env.ok
  <2>1. /\ coins' = (coins \ (objects \cup {gas})) \cup { Bumped(c, c.balance) : c \in kept }
                     \cup {Bumped(gas, paid)}
        /\ received' = [type \in {"sui", "token"} |-> received[type] + env.sent[type]]
    BY <1>2, <1>7 DEF Execute
  <2>2. /\ env.sent = [type \in {"sui", "token"} |->
                         IF type = Sent(in) THEN Uint64(amount) ELSE 0]
        /\ \A a \in DOMAIN env.at :
             /\ IsCoin(env.at[a])
             /\ env.at[a].id # 0 =>
                  \E c \in coins : c.id = env.at[a].id /\ c.version = env.at[a].version
    BY <1>1, <1>7, TransferIsDone
  <2> HIDE DEF env, objects, paid
  <2>3. \A c \in kept : Stale(Bumped(c, c.balance))
    <3> SUFFICES ASSUME NEW a \in DOMAIN env.at, env.at[a].id # 0
                 PROVE  Stale(Bumped(env.at[a], env.at[a].balance))
      OBVIOUS
    <3> DEFINE x == env.at[a]
               y == Bumped(x, x.balance)
    <3>1. PICK c \in coins : c.id = x.id /\ c.version = x.version
      BY <2>2
    <3>2. IsCoin(x)
      BY <2>2
    <3>3. y.id = x.id /\ y.version = x.version + 1
      <4> HIDE DEF x
      <4> QED BY <3>2, CoinParts
    <3> HIDE DEF x, y
    <3>4. Stale(y)
      BY <3>1, <3>3, <1>3
    <3> QED BY <3>4 DEF x, y
  <2> HIDE DEF kept, Stale
  <2>4. \A c \in coins' : Stale(c)
    BY <2>1, <2>3, <1>6
  <2>5. Uint64(amount) \in Nat
    BY <1>1, Uint64Facts DEF Planned
  <2>6. \A type \in {"sui", "token"} :
          received'[type] \in IF type = Sent(in) THEN {0, Uint64(amount)} ELSE {0}
    BY <2>1, <2>2, <2>5, <1>5
  <2> QED BY <2>4, <2>6 DEF Spent, Stale
<1>8. CASE ~ env.ok
  <2>1. coins' = (coins \ {gas}) \cup {Bumped(gas, lost)} /\ received' = received
    BY <1>2, <1>8 DEF Execute
  <2> HIDE DEF Stale, lost
  <2>2. \A c \in coins' : Stale(c)
    BY <2>1, <1>6
  <2> QED BY <2>1, <2>2, <1>5 DEF Spent, Stale
<1> QED BY <1>7, <1>8

\* The step that pays a transfer: in its epoch, and from coins not spent before.
LEMMA PayingStep ==
  ASSUME InvBuilt, InvPaid, stage \in {"signed", "lost"},
         NEW d \in Decode(Serialize(tx)), Takes(d, tx.signatures)
  PROVE  d = tx.data /\ Current(d) /\ Unspent /\ epoch = input.epoch
<1>1. d = tx.data
  BY DEF InvPaid, Serialize
<1>2. Current(d)
  BY DEF Takes
<1>3. ~ Spent
  BY <1>1, <1>2, SpentIsStale
<1>4. Unspent
  BY <1>3 DEF InvBuilt, InvPaid
<1>5. tx.data = Plan(input, amount) /\ InputOK
  BY DEF InvBuilt, TxOK
<1>6. ExpiryOf(d) = Val("TransactionExpiration__Epoch", <<input.epoch>>)
  BY <1>1, <1>5, PlanParts DEF Expiration
<1>7. ExpiryOf(d)[1] = "TransactionExpiration__Epoch" /\ ExpiryOf(d)[2][1] = input.epoch
  BY <1>6 DEF Val
<1>8. epoch <= input.epoch
  BY <1>7 DEF Takes
<1>9. epoch = input.epoch
  BY <1>5, <1>8 DEF InputOK
<1> QED BY <1>1, <1>2, <1>4, <1>9

LEMMA InitPaid == Init => InvPaid
  BY DEF Init, InvPaid

LEMMA NextPaid == InvBuilt /\ InvPaid /\ ReadsAsBuilt /\ [Next]_vars => InvPaid'
<1> SUFFICES ASSUME InvBuilt, InvPaid, ReadsAsBuilt, [Next]_vars PROVE InvPaid'
  OBVIOUS
<1>1. CASE FetchCoins \/ FetchLatestCheckpoint \/ FetchGasCoin
  BY <1>1 DEF FetchCoins, FetchLatestCheckpoint, FetchGasCoin, InvPaid
<1>2. CASE EstimateGas
  <2>1. /\ stage = "gas coin" /\ stage' \in {"fetched", "error"}
        /\ stage' = "error" => input' = input
        /\ coins' = coins /\ received' = received
    BY <1>2 DEF EstimateGas
  <2>2. Unspent
    BY <2>1 DEF InvBuilt
  <2>3. stage' = "error" => Unspent'
    <3>1. ASSUME input' = input PROVE ChainOK(input)' = ChainOK(input)
      BY <2>1, <3>1, Zenon DEF ChainOK
    <3> QED BY <2>1, <2>2, <3>1 DEF Unspent
  <2> QED BY <2>1, <2>3 DEF InvPaid
<1>3. CASE \E amt \in Amounts : NewTransfer(amt)
  <2>1. stage' \in {"refused", "built"}
    BY <1>3 DEF NewTransfer
  <2> QED BY <2>1 DEF InvPaid
<1>4. CASE AddSignatures
  <2>1. stage = "built" /\ stage' = "signed"
    BY <1>4 DEF AddSignatures
  <2>2. tx'.data = tx.data
    BY <1>4, AddSignaturesBuilt
  <2>3. Decode(Encode(tx.data)) = {tx.data}
    BY <2>1 DEF ReadsAsBuilt, Built, Serialize
  <2> QED BY <2>1, <2>2, <2>3 DEF InvPaid
<1>5. CASE SubmitTx
  <2> DEFINE taken == { d \in Decode(Serialize(tx)) : Takes(d, tx.signatures) }
  <2>1. /\ stage \in {"signed", "lost"} /\ input' = input /\ amount' = amount /\ tx' = tx
        /\ stage' \in {"submitted", "lost", "error"}
    BY <1>5 DEF SubmitTx
  <2>2. Decode(Encode(tx'.data)) = {tx'.data}
    BY <2>1 DEF InvPaid
  <2>3. (\E d \in taken : Execute(d)) \/ (coins' = coins /\ received' = received)
    BY <1>5 DEF SubmitTx
  <2>4. CASE coins' = coins /\ received' = received
    <3>1. Unspent \/ Spent
      BY <2>1 DEF InvBuilt, InvPaid
    <3>2. (Unspent => Unspent') /\ (Spent => Spent')
      BY <2>1, <2>4 DEF Unspent, Spent, ChainOK
    <3> QED BY <2>2, <3>1, <3>2 DEF InvPaid
  <2>5. CASE \E d \in taken : Execute(d)
    <3>1. PICK d \in taken : Execute(d)
      BY <2>5
    <3>2. d = tx.data /\ Current(d) /\ Unspent
      BY <2>1, <3>1, PayingStep
    <3>3. Spent'
      BY <2>1, <3>1, <3>2, ExecutedIsSpent
    <3> QED BY <2>2, <3>3 DEF InvPaid
  <2> QED BY <2>3, <2>4, <2>5
<1>6. CASE OtherTx
  BY <1>6 DEF OtherTx, InvPaid
<1>7. CASE EndEpoch \/ UNCHANGED vars
  <2>1. /\ stage' = stage /\ input' = input /\ amount' = amount /\ coins' = coins
        /\ received' = received /\ tx' = tx
    BY <1>7 DEF EndEpoch, vars
  <2>2. (Unspent => Unspent') /\ (Spent => Spent')
    BY <2>1 DEF Unspent, Spent, ChainOK
  <2> QED BY <2>1, <2>2 DEF InvPaid
<1> QED BY <1>1, <1>2, <1>3, <1>4, <1>5, <1>6, <1>7 DEF Next

LEMMA AlwaysPaid == Spec /\ []ReadsAsBuilt => [](InvBuilt /\ InvPaid)
<1>1. Spec => []InvBuilt
  BY AlwaysBuilt
<1>2. Init => InvPaid
  BY InitPaid
<1>3. InvBuilt /\ InvPaid /\ ReadsAsBuilt /\ [Next]_vars => InvPaid'
  BY NextPaid
<1> QED BY <1>1, <1>2, <1>3, PTL DEF Spec

\* All amounts asked for are ones that a uint64 holds.
AmountsFit == \A amt \in Amounts : amt < Size(U64Bytes)

\* If transactions are read as they were written, the recipient gets the amount of
\* the asset, once, and nothing else: however often SubmitTx repeats the
\* transaction and whatever other transactions do to the coins before it.
THEOREM RecipientIsPaidOnce == AmountsFit => (Spec /\ []ReadsAsBuilt => []PaysTheAmount)
<1> SUFFICES ASSUME AmountsFit PROVE Spec /\ []ReadsAsBuilt => []PaysTheAmount
  OBVIOUS
<1>1. InvBuilt /\ InvPaid => PaysTheAmount
  <2> SUFFICES ASSUME InvBuilt, InvPaid, NEW type \in {"sui", "token"}
               PROVE  received[type] \in IF type = Leaving THEN {0, amount} ELSE {0}
    BY DEF PaysTheAmount
  <2>1. Unspent \/ Spent
    BY DEF InvBuilt, InvPaid
  <2>2. CASE Unspent
    BY <2>2 DEF Unspent
  <2>3. CASE Spent
    <3>1. Leaving = Sent(input)
      <4>1. CASE input.coins = <<>>
        BY <4>1 DEF Leaving, Sent
      <4>2. CASE input.coins # <<>>
        <5>1. InputOK /\ ListOK(input.coins)
          BY DEF InvBuilt, InputOK
        <5>2. 1 \in 1..Len(input.coins)
          BY <4>2, <5>1, MergeInputsFacts, SpendableIsAll
        <5>3. input.coins[1].type = asset.type
          BY <5>1, <5>2 DEF InputOK
        <5> QED BY <4>2, <5>3 DEF Leaving, Sent
      <4> QED BY <4>1, <4>2
    <3>2. Uint64(amount) = amount
      <4> DEFINE m == Size(U64Bytes)
      <4>1. m \in Nat \ {0}
        BY SizeFacts
      <4>2. amount \in Nat /\ amount < m
        BY <4>1, SuiAssumption DEF InvBuilt, TxOK, AmountsFit
      <4> HIDE DEF m
      <4>3. amount % m = amount
        BY <4>1, <4>2
      <4> QED BY <4>3 DEF Uint64, m
    <3> QED BY <2>3, <3>1, <3>2 DEF Spent
  <2> QED BY <2>1, <2>2, <2>3
<1> QED BY <1>1, AlwaysPaid, PTL

\* If transactions are read as they were written, one is only paid in the epoch
\* that its input was fetched in: it expires with it, and SubmitTx, however late it
\* is repeated, gets an error.
THEOREM PaidOnlyInItsEpoch == Spec /\ []ReadsAsBuilt => PaidInItsEpoch
<1>1. InvBuilt /\ InvPaid /\ [Next]_vars => [received' # received => epoch = input.epoch]_vars
  <2> SUFFICES ASSUME InvBuilt, InvPaid, Next, received' # received PROVE epoch = input.epoch
    OBVIOUS
  <2>1. SubmitTx
    BY DEF Next, FetchCoins, FetchLatestCheckpoint, FetchGasCoin, EstimateGas, NewTransfer,
           AddSignatures, OtherTx, EndEpoch
  <2>2. PICK d \in Decode(Serialize(tx)) : Takes(d, tx.signatures)
    BY <2>1 DEF SubmitTx
  <2>3. stage \in {"signed", "lost"}
    BY <2>1 DEF SubmitTx
  <2> QED BY <2>2, <2>3, PayingStep
<1> QED BY <1>1, AlwaysPaid, PTL DEF Spec, PaidInItsEpoch
=============================================================================
