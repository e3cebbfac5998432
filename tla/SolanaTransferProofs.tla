---------------------- MODULE SolanaTransferProofs ----------------------
(***************************************************************************)
(* For any amounts and holders, whatever requests are lost and whatever    *)
(* happens to the accounts: who is paid is who was to be, what is read back*)
(* is the order, and what was built on answers that still hold runs.       *)
(***************************************************************************)
EXTENDS SolanaTransfer, Facts
-----------------------------------------------------------------------------
(* Transfers on Solana. Addresses tell whose account it is, so whatever    *)
(* code is executed pays the holder it was built for; the code itself is   *)
(* one of a few forms (CodeOK), whatever the program believed. What it     *)
(* read is right for as long as nothing changed (InputOK).                 *)

Mine  == Ata(Me, Token)
Yours == Ata(You, Token)
Wraps == Ata(Me, Wrapped)
Owners == {Me, You, Custom, Yours}

\* The accounts there are: who holds one can be told from its address.
SolOK(s) ==
  /\ s = [a \in DOMAIN s |-> s[a]] /\ Me \in DOMAIN s /\ DOMAIN s \subseteq {Me, You, Wraps}
  /\ \A a \in DOMAIN s : s[a] \in Nat

AccountOK(a, e) ==
  /\ e = Account(e.holder, e.mint, e.amount) /\ e.amount \in Nat
  /\ \/ a = Custom /\ e.holder = You /\ e.mint = Token
     \/ a = Ata(e.holder, e.mint) /\ e.holder \in Owners /\ e.mint \in {Token, Wrapped}

TokOK(t) ==
  /\ t = [a \in DOMAIN t |-> t[a]] /\ IsFiniteSet(DOMAIN t) /\ {Custom, Mine} \subseteq DOMAIN t
  /\ \A a \in DOMAIN t : AccountOK(a, t[a])

LEMMA NamesFacts ==
  /\ Me # You /\ Custom \notin {Me, You} /\ None \notin {Me, You, Custom, Token, Wrapped}
  /\ Token # Wrapped
  /\ {Mine, Yours, Wraps} \cap {Me, You, Custom, None} = {}
  /\ Mine # Yours /\ Mine # Wraps /\ Yours # Wraps
  /\ \A o \in Owners, m \in {Token, Wrapped} :
       Ata(o, m) \notin {Me, You, Custom, None}
  /\ \A o1, o2, m1, m2 : Ata(o1, m1) = Ata(o2, m2) => o1 = o2 /\ m1 = m2
<1>1. \A o1, o2, m1, m2 : Ata(o1, m1) = Ata(o2, m2) => o1 = o2 /\ m1 = m2
  BY DEF Ata
<1>2. /\ Me # You /\ Custom \notin {Me, You} /\ None \notin {Me, You, Custom, Token, Wrapped}
      /\ Token # Wrapped
      /\ \A o \in Owners, m \in {Token, Wrapped} :
           Ata(o, m) \notin {Me, You, Custom, None}
  BY NamesAssumption DEF Owners, Yours
<1> QED BY <1>1, <1>2 DEF Mine, Yours, Wraps, Owners

LEMMA Distinct ==
  /\ Me # You /\ Custom # Me /\ Custom # You
  /\ None # Me /\ None # You /\ None # Custom /\ None # Token /\ None # Wrapped
  /\ Mine # Me /\ Mine # You /\ Mine # Custom /\ Mine # None
  /\ Yours # Me /\ Yours # You /\ Yours # Custom /\ Yours # None
  /\ Wraps # Me /\ Wraps # You /\ Wraps # Custom /\ Wraps # None
  /\ Mine # Yours /\ Mine # Wraps /\ Yours # Wraps /\ Token # Wrapped
<1>1. /\ Me # You /\ Custom \notin {Me, You} /\ None \notin {Me, You, Custom, Token, Wrapped}
      /\ {Mine, Yours, Wraps} \cap {Me, You, Custom, None} = {}
      /\ Mine # Yours /\ Mine # Wraps /\ Yours # Wraps /\ Token # Wrapped
  BY NamesFacts
<1> QED BY <1>1

\* S are the accounts of w, and g is what they have.
TokensAre(S, g, t, w) ==
  /\ S \subseteq DOMAIN t
  /\ \A a \in DOMAIN t : a \in S <=> t[a].holder = w /\ t[a].mint = Token
  /\ \A a \in S : g[a] = t[a].amount

LEMMA HoldingIs ==
  ASSUME NEW t, IsFiniteSet(DOMAIN t), NEW w,
         NEW S, NEW g, TokensAre(S, g, t, w)
  PROVE  IsFiniteSet(S) /\ Holding(t, w) = SumFunctionOnSet(g, S)
<1>0. /\ S = { a \in DOMAIN t : t[a].holder = w /\ t[a].mint = Token }
      /\ \A a \in S : g[a] = t[a].amount
  BY DEF TokensAre
<1>1. IsFiniteSet(S)
  BY <1>0, FS_Subset
<1> DEFINE h == [a \in DOMAIN t |-> t[a].amount]
<1>2. Holding(t, w) = SumFunctionOnSet(h, S)
  BY <1>0 DEF Holding
<1>3. \A a \in S : h[a] = g[a]
  BY <1>0
<1> HIDE DEF h
<1>4. SumFunctionOnSet(h, S) = SumFunctionOnSet(h, S)
  BY DEF SumFunctionOnSet, FoldFunctionOnSet, MapThenFoldSet,
         SumFunctionOnSet, FoldFunctionOnSet, MapThenFoldSet
<1>5. SumFunctionOnSet(h, S) = SumFunctionOnSet(g, S)
  BY <1>1, <1>3, SumSame
<1> QED BY <1>1, <1>2, <1>4, <1>5

\* An account without tokens changes nobody's tokens.
LEMMA AccountOpened ==
  ASSUME NEW t, TokOK(t), NEW a, a \notin DOMAIN t, NEW o \in Owners, NEW m \in {Token, Wrapped},
         a = Ata(o, m),
         NEW u, u = With(t, a, Account(o, m, 0))
  PROVE  TokOK(u) /\ \A w : Holding(u, w) = Holding(t, w)
<1>1. /\ u = [x \in DOMAIN u |-> u[x]] /\ DOMAIN u = DOMAIN t \cup {a}
      /\ u[a] = Account(o, m, 0) /\ \A x \in DOMAIN t : u[x] = t[x]
  BY DEF With
<1>2. /\ u[a].holder = o /\ u[a].mint = m /\ u[a].amount = 0
  BY <1>1 DEF Account
<1>3. AccountOK(a, u[a])
  BY <1>1, <1>2 DEF AccountOK
<1>4. IsFiniteSet(DOMAIN t) /\ IsFiniteSet(DOMAIN u)
  BY <1>1, FS_AddElement DEF TokOK
<1>5. TokOK(u)
  BY <1>1, <1>3, <1>4 DEF TokOK
<1>6. \A x \in DOMAIN t : t[x].amount \in Nat
  BY DEF TokOK, AccountOK
<1>7. ASSUME NEW w PROVE Holding(u, w) = Holding(t, w)
  <2> DEFINE S == { x \in DOMAIN t : t[x].holder = w /\ t[x].mint = Token }
             T == { x \in DOMAIN u : u[x].holder = w /\ u[x].mint = Token }
             g == [x \in DOMAIN u |-> u[x].amount]
  <2>1. TokensAre(S, g, t, w) /\ TokensAre(T, g, u, w)
    BY <1>1 DEF TokensAre
  <2>3. \/ T = S
        \/ a \in T /\ S = T \ {a}
    BY <1>1
  <2>4. \A x \in T : g[x] \in Int
    BY <1>1, <1>2, <1>6
  <2>5. g[a] = 0
    BY <1>1, <1>2
  <2> HIDE DEF S, T, g
  <2>7. IsFiniteSet(S) /\ Holding(t, w) = SumFunctionOnSet(g, S)
    BY ONLY <1>4, <2>1, HoldingIs
  <2>8. IsFiniteSet(T) /\ Holding(u, w) = SumFunctionOnSet(g, T)
    BY ONLY <1>4, <2>1, HoldingIs
  <2>9. CASE a \in T /\ S = T \ {a}
    <3>1. SumFunctionOnSet(g, T) = g[a] + SumFunctionOnSet(g, S)
      BY <2>8, <2>4, <2>9, SumTakesAny
    <3>2. SumFunctionOnSet(g, S) \in Int
      BY <2>8, <2>4, <2>9, SumOfInts
    <3> QED BY <2>7, <2>8, <2>5, <3>1, <3>2
  <2> QED BY <2>7, <2>8, <2>3, <2>9
<1> QED BY <1>5, <1>7

\* What is left when n tokens are sent to the account x.
Sent(t, x, n) ==
  [t EXCEPT ![Mine] = Account(Me, Token, t[Mine].amount - n),
            ![x] = Account(t[x].holder, Token, t[x].amount + n)]

\* Tokens that are moved from my account to one of yours.
LEMMA TokensMoved ==
  ASSUME Me # You, NEW t, TokOK(t), NEW x, x = Mine, x \in DOMAIN t, NEW y \in DOMAIN t, NEW n \in Nat,
         t[x].holder = Me, t[x].mint = Token, t[y].holder = You, t[y].mint = Token,
         t[x].amount >= n,
         NEW u, u = Sent(t, y, n)
  PROVE  /\ TokOK(u)
         /\ Holding(u, You) = Holding(t, You) + n
         /\ Holding(u, Me) = Holding(t, Me) - n
<1>1. x # y /\ t = [a \in DOMAIN t |-> t[a]] /\ IsFiniteSet(DOMAIN t)
  BY DEF TokOK
<1> DEFINE p == Account(Me, Token, t[x].amount - n)
           q == Account(You, Token, t[y].amount + n)
<1>2. /\ \A a \in DOMAIN t : AccountOK(a, t[a]) /\ t[a].amount \in Nat
      /\ t[x].amount - n \in Nat /\ t[y].amount + n \in Nat
  BY DEF TokOK, AccountOK
<1>3. /\ p.holder = Me /\ p.mint = Token /\ p.amount = t[x].amount - n
      /\ q.holder = You /\ q.mint = Token /\ q.amount = t[y].amount + n
  BY DEF Account
<1>4. AccountOK(x, p) /\ AccountOK(y, q)
  BY <1>2, <1>3 DEF AccountOK
<1> HIDE DEF p, q
<1>5. u = [t EXCEPT ![x] = p, ![y] = q]
  BY DEF p, q, Sent
<1>6. /\ u = [a \in DOMAIN u |-> u[a]] /\ DOMAIN u = DOMAIN t /\ u[x] = p /\ u[y] = q
      /\ \A a \in DOMAIN t \ {x, y} : u[a] = t[a]
  BY <1>1, <1>5
<1>7. TokOK(u)
  BY <1>1, <1>2, <1>4, <1>6 DEF TokOK
<1> DEFINE g == [a \in DOMAIN t |-> t[a].amount]
           h == [a \in DOMAIN t |-> u[a].amount]
<1>8. \A a \in DOMAIN t : u[a].holder = t[a].holder /\ u[a].mint = t[a].mint
  BY <1>3, <1>6
<1>9. ASSUME NEW w, NEW S, TokensAre(S, g, t, w)
      PROVE  /\ IsFiniteSet(S) /\ Holding(t, w) = SumFunctionOnSet(g, S)
             /\ Holding(u, w) = SumFunctionOnSet(h, S)
             /\ (\A a \in S : g[a] \in Int /\ h[a] \in Int)
             /\ S \subseteq DOMAIN t
  <2>1. IsFiniteSet(DOMAIN u) /\ TokensAre(S, h, u, w) /\ S \subseteq DOMAIN t
    BY <1>1, <1>6, <1>8, <1>9 DEF TokensAre
  <2>2. \A a \in S : g[a] \in Int /\ h[a] \in Int
    BY <1>2, <1>3, <1>6, <2>1
  <2>3. IsFiniteSet(DOMAIN t)
    BY <1>1
  <2>4. TokensAre(S, g, t, w)
    BY <1>9
  <2> HIDE DEF g, h
  <2>5. IsFiniteSet(S) /\ Holding(t, w) = SumFunctionOnSet(g, S)
    BY ONLY <2>3, <2>4, HoldingIs
  <2>6. Holding(u, w) = SumFunctionOnSet(h, S)
    BY ONLY <2>1, HoldingIs
  <2> QED BY <2>1, <2>2, <2>5, <2>6
<1>10. /\ \A a \in DOMAIN t \ {x, y} : h[a] = g[a]
       /\ h[x] = g[x] - n /\ h[y] = g[y] + n /\ g[x] \in Int /\ g[y] \in Int
  BY <1>2, <1>3, <1>6
<1> HIDE DEF g, h
<1>11. Holding(u, You) = Holding(t, You) + n
  <2> DEFINE S == { a \in DOMAIN t : t[a].holder = You /\ t[a].mint = Token }
  <2>1. /\ y \in S /\ x \notin S /\ S \subseteq DOMAIN t
        /\ TokensAre(S, g, t, You)
    BY DEF TokensAre, g
  <2> HIDE DEF S
  <2>2. /\ IsFiniteSet(S) /\ Holding(t, You) = SumFunctionOnSet(g, S)
        /\ Holding(u, You) = SumFunctionOnSet(h, S)
        /\ \A a \in S : g[a] \in Int /\ h[a] \in Int
    BY <1>9, <2>1
  <2>3. \A a \in S \ {y} : h[a] = g[a]
    BY <1>10, <2>1, <2>2
  <2>4. SumFunctionOnSet(h, S) = SumFunctionOnSet(g, S) + h[y] - g[y]
    BY ONLY <2>1, <2>2, <2>3, SumChanged
  <2>5. SumFunctionOnSet(g, S) \in Int
    BY <2>2, SumOfInts
  <2> QED BY <1>10, <2>2, <2>4, <2>5
<1>12. Holding(u, Me) = Holding(t, Me) - n
  <2> DEFINE S == { a \in DOMAIN t : t[a].holder = Me /\ t[a].mint = Token }
  <2>1. /\ x \in S /\ y \notin S /\ S \subseteq DOMAIN t
        /\ TokensAre(S, g, t, Me)
    BY DEF TokensAre, g
  <2> HIDE DEF S
  <2>2. /\ IsFiniteSet(S) /\ Holding(t, Me) = SumFunctionOnSet(g, S)
        /\ Holding(u, Me) = SumFunctionOnSet(h, S)
        /\ \A a \in S : g[a] \in Int /\ h[a] \in Int
    BY <1>9, <2>1
  <2>3. \A a \in S \ {x} : h[a] = g[a]
    BY <1>10, <2>1, <2>2
  <2>4. SumFunctionOnSet(h, S) = SumFunctionOnSet(g, S) + h[x] - g[x]
    BY ONLY <2>1, <2>2, <2>3, SumChanged
  <2>5. SumFunctionOnSet(g, S) \in Int
    BY <2>2, SumOfInts
  <2> QED BY <1>10, <2>2, <2>4, <2>5
<1> QED BY <1>7, <1>11, <1>12

State(A, B) == [ok |-> TRUE, sol |-> A, tok |-> B]
Refused(A, B) == [ok |-> FALSE, sol |-> A, tok |-> B]

Fails(s, r) == r = [s EXCEPT !.ok = FALSE]
SetsSol(s, v, r) == r = [s EXCEPT !.sol = v]
SetsTok(s, w, r) == r = [s EXCEPT !.tok = w]
SetsBoth(s, v, w, r) == r = [s EXCEPT !.sol = v, !.tok = w]

\* What it makes of a state to change a field of it.
LEMMA FieldsChanged ==
  ASSUME NEW A, NEW B, NEW v, NEW w
  PROVE  /\ Fails(State(A, B), Refused(A, B)) /\ SetsSol(State(A, B), v, State(v, B))
         /\ SetsTok(State(A, B), w, State(A, w)) /\ SetsBoth(State(A, B), v, w, State(v, w))
<1> DEFINE b == TRUE
           c == FALSE
           r == [ok |-> b, sol |-> A, tok |-> B]
           q == [ok |-> b, sol |-> v, tok |-> w]
           S == {"ok", "sol", "tok"}
<1> HIDE DEF b, c
<1>1. [r EXCEPT !.ok = c] = [ok |-> c, sol |-> A, tok |-> B]
  OBVIOUS
<1>2. [r EXCEPT !.sol = v] = [ok |-> b, sol |-> v, tok |-> B]
  OBVIOUS
<1>3. [r EXCEPT !.tok = w] = [ok |-> b, sol |-> A, tok |-> w]
  OBVIOUS
<1>4. [r EXCEPT !.sol = v, !.tok = w] = q
  <2>1. r = [f \in S |-> r[f]] /\ r.ok = b /\ r.sol = A /\ r.tok = B
    OBVIOUS
  <2>2. q = [f \in S |-> q[f]] /\ q.ok = b /\ q.sol = v /\ q.tok = w
    OBVIOUS
  <2> HIDE DEF r, q
  <2>3. [r EXCEPT !.sol = v, !.tok = w] = q
    BY <2>1, <2>2
  <2> QED BY <2>3
<1>5. [State(A, B) EXCEPT !.ok = FALSE] = Refused(A, B)
  BY <1>1, Zenon DEF State, Refused, b, c
<1>6. [State(A, B) EXCEPT !.sol = v] = State(v, B)
  BY <1>2, Zenon DEF State, b
<1>7. [State(A, B) EXCEPT !.tok = w] = State(A, w)
  BY <1>3, Zenon DEF State, b
<1>8. [State(A, B) EXCEPT !.sol = v, !.tok = w] = State(v, w)
  BY <1>4, Zenon DEF State, b
<1> QED BY <1>5, <1>6, <1>7, <1>8, Zenon DEF Fails, SetsSol, SetsTok, SetsBoth

PayTo(x, n) == [op |-> "transferChecked", from |-> Mine, to |-> x, amount |-> n]
Close == [op |-> "close", account |-> Wraps]

\* What each instruction needs, and what it does.
LEMMA CreateDoes ==
  ASSUME NEW A, NEW B, NEW o, NEW m
  PROVE  Instruction(State(A, B), Create(o, m)) =
           IF Ata(o, m) \notin DOMAIN B
           THEN State(A, With(B, Ata(o, m), Account(o, m, 0)))
           ELSE Refused(A, B)
<1> DEFINE s == State(A, B)
           i == Create(o, m)
           v == With(B, Ata(o, m), Account(o, m, 0))
<1>1. i.op = "create" /\ i.owner = o /\ i.mint = m
  BY DEF Create
<1>2. s.ok = TRUE /\ s.sol = A /\ s.tok = B
  BY DEF State
<1>3. Can(s, i) <=> Ata(o, m) \notin DOMAIN B
  BY <1>1, <1>2 DEF Can
<1>4. Do(s, i) = [s EXCEPT !.tok = v]
  BY <1>1, <1>2 DEF Do
<1> HIDE DEF i, v
<1>5. Fails(s, Refused(A, B)) /\ SetsTok(s, v, State(A, v))
  BY FieldsChanged
<1> HIDE DEF s
<1>6. Instruction(s, i) = IF Ata(o, m) \notin DOMAIN B THEN State(A, v) ELSE Refused(A, B)
  BY <1>2, <1>3, <1>4, <1>5 DEF Instruction, Fails, SetsSol, SetsTok, SetsBoth
<1> QED BY <1>6 DEF s, i, v

LEMMA TransferDoes ==
  ASSUME NEW A, NEW B, NEW to, NEW n
  PROVE  Instruction(State(A, B), Transfer(to, n)) =
           IF Sol(A, Me) >= n
           THEN State(With(With(A, to, Sol(A, to) + n), Me, A[Me] - n), B)
           ELSE Refused(A, B)
<1> DEFINE s == State(A, B)
           i == Transfer(to, n)
           v == With(With(A, to, Sol(A, to) + n), Me, A[Me] - n)
<1>1. i.op = "transfer" /\ i.from = Me /\ i.to = to /\ i.amount = n
  BY DEF Transfer
<1>2. s.ok = TRUE /\ s.sol = A /\ s.tok = B
  BY DEF State
<1>3. Can(s, i) <=> Sol(A, Me) >= n
  BY <1>1, <1>2 DEF Can
<1>4. Do(s, i) = [s EXCEPT !.sol = v]
  BY <1>1, <1>2 DEF Do
<1> HIDE DEF i, v
<1>5. Fails(s, Refused(A, B)) /\ SetsSol(s, v, State(v, B))
  BY FieldsChanged
<1> HIDE DEF s
<1>6. Instruction(s, i) = IF Sol(A, Me) >= n THEN State(v, B) ELSE Refused(A, B)
  BY <1>2, <1>3, <1>4, <1>5 DEF Instruction, Fails, SetsSol, SetsTok, SetsBoth
<1> QED BY <1>6 DEF s, i, v

LEMMA CloseDoes ==
  ASSUME NEW A, NEW B
  PROVE  Instruction(State(A, B), Close) =
           IF Wraps \in DOMAIN B
           THEN State(With(With(A, Me, A[Me] + Sol(A, Wraps)), Wraps, 0),
                      [a \in DOMAIN B \ {Wraps} |-> B[a]])
           ELSE Refused(A, B)
<1> DEFINE s == State(A, B)
           v == With(With(A, Me, A[Me] + Sol(A, Wraps)), Wraps, 0)
           w == [a \in DOMAIN B \ {Wraps} |-> B[a]]
<1>1. Close.op = "close" /\ Close.account = Wraps
  BY DEF Close
<1>2. s.ok = TRUE /\ s.sol = A /\ s.tok = B
  BY DEF State
<1>3. Can(s, Close) <=> Wraps \in DOMAIN B
  BY <1>1, <1>2 DEF Can
<1>4. Do(s, Close) = [s EXCEPT !.sol = v, !.tok = w]
  BY <1>1, <1>2 DEF Do
<1> HIDE DEF v, w
<1>5. Fails(s, Refused(A, B)) /\ SetsBoth(s, v, w, State(v, w))
  BY FieldsChanged
<1> HIDE DEF s
<1>6. Instruction(s, Close) = IF Wraps \in DOMAIN B THEN State(v, w) ELSE Refused(A, B)
  BY <1>2, <1>3, <1>4, <1>5 DEF Instruction, Fails, SetsSol, SetsTok, SetsBoth
<1> QED BY <1>6 DEF s, v, w

LEMMA PayDoes ==
  ASSUME NEW A, NEW B, TokOK(B), NEW x, NEW n, x # Mine
  PROVE  Instruction(State(A, B), PayTo(x, n)) =
           IF x \in DOMAIN B /\ B[x].mint = Token /\ B[Mine].amount >= n
           THEN State(A, Sent(B, x, n))
           ELSE Refused(A, B)
<1> DEFINE s == State(A, B)
           i == PayTo(x, n)
           v == [B EXCEPT ![Mine].amount = @ - n, ![x].amount = @ + n]
           w == Sent(B, x, n)
           runs == x \in DOMAIN B /\ B[x].mint = Token /\ B[Mine].amount >= n
<1>1. i.op = "transferChecked" /\ i.from = Mine /\ i.to = x /\ i.amount = n
  BY DEF PayTo
<1>2. s.ok = TRUE /\ s.sol = A /\ s.tok = B
  BY DEF State
<1>3. Mine \in DOMAIN B /\ B = [a \in DOMAIN B |-> B[a]] /\ AccountOK(Mine, B[Mine])
  BY DEF TokOK
<1>4. B[Mine].mint = Token /\ B[Mine] = Account(Me, Token, B[Mine].amount)
  <2>1. Mine = Ata(B[Mine].holder, B[Mine].mint)
    BY <1>3, NamesFacts DEF AccountOK
  <2>2. B[Mine].holder = Me /\ B[Mine].mint = Token
    BY <2>1 DEF Mine, Ata
  <2> QED BY <1>3, <2>2 DEF AccountOK
<1>5. Can(s, i) <=> runs
  BY <1>1, <1>2, <1>3, <1>4 DEF Can
<1>6. Do(s, i) = [s EXCEPT !.tok = v]
  <2>1. Do(s, i) = [s EXCEPT !.tok = Moved(s.tok, i)]
    BY <1>1 DEF Do
  <2>2. Moved(s.tok, i) = v
    BY <1>1, <1>2 DEF Moved
  <2> QED BY <2>1, <2>2
<1>7. ASSUME runs PROVE v = w
  <2>1. AccountOK(x, B[x])
    BY <1>7 DEF TokOK
  <2>2. B[x] = Account(B[x].holder, Token, B[x].amount)
    BY <1>7, <2>1 DEF AccountOK
  <2>3. [B[Mine] EXCEPT !.amount = @ - n] = Account(Me, Token, B[Mine].amount - n)
    BY <1>4 DEF Account
  <2>4. [B[x] EXCEPT !.amount = @ + n] = Account(B[x].holder, Token, B[x].amount + n)
    BY <2>2 DEF Account
  <2> DEFINE p == Account(Me, Token, B[Mine].amount - n)
             q == Account(B[x].holder, Token, B[x].amount + n)
  <2> HIDE DEF p, q
  <2>5. [B EXCEPT ![Mine].amount = @ - n] = [B EXCEPT ![Mine] = p]
    BY <2>3 DEF p
  <2>6. [[B EXCEPT ![Mine] = p] EXCEPT ![x].amount = @ + n] = [[B EXCEPT ![Mine] = p] EXCEPT ![x] = q]
    BY <2>4 DEF q
  <2>7. v = [[B EXCEPT ![Mine].amount = @ - n] EXCEPT ![x].amount = @ + n]
    OBVIOUS
  <2>8. v = [[B EXCEPT ![Mine] = p] EXCEPT ![x] = q]
    BY <2>5, <2>6, <2>7
  <2> QED BY <2>8 DEF p, q, Sent
<1> HIDE DEF i, v, w, runs
<1>8. Fails(s, Refused(A, B)) /\ SetsTok(s, v, State(A, v))
  BY FieldsChanged
<1> HIDE DEF s
<1>9. Instruction(s, i) = IF runs THEN State(A, w) ELSE Refused(A, B)
  BY <1>2, <1>5, <1>6, <1>7, <1>8 DEF Instruction, Fails, SetsTok
<1> QED BY <1>9 DEF s, i, w, runs

LEMMA AfterOne ==
  ASSUME NEW i
  PROVE  After(<<i>>) = Instruction(State(sol, tok), i)
<1>1. Len(<<i>>) = 1 /\ <<i>>[1] = i
  OBVIOUS
<1> QED BY <1>1, Zenon DEF After, State

LEMMA AfterTwo ==
  ASSUME NEW i, NEW j
  PROVE  After(<<i, j>>) =
           Instruction(Instruction(State(sol, tok), i), j)
<1>1. Len(<<i, j>>) # 1 /\ <<i, j>>[1] = i /\ <<i, j>>[2] = j
  OBVIOUS
<1> QED BY <1>1, Zenon DEF After, State

\* A state that has been refused stays so.
LEMMA RefusedStays ==
  ASSUME NEW A, NEW B, NEW i
  PROVE  Instruction(Refused(A, B), i).ok = FALSE
<1> DEFINE s == Refused(A, B)
           r == [s EXCEPT !.ok = FALSE]
<1>1. s.ok = FALSE
  BY DEF Refused
<1>2. r.ok = FALSE
  BY DEF Refused
<1>3. Instruction(s, i) = r
  BY <1>1, Zenon DEF Instruction
<1> QED BY <1>2, <1>3, Zenon

LEMMA StateFields ==
  ASSUME NEW A, NEW B
  PROVE  /\ State(A, B).ok = TRUE /\ State(A, B).sol = A /\ State(A, B).tok = B
         /\ Refused(A, B).ok = FALSE
  BY DEF State, Refused

LEMMA WithFacts ==
  ASSUME NEW f, NEW a, NEW v, NEW u, u = With(f, a, v)
  PROVE  /\ u = [x \in DOMAIN u |-> u[x]] /\ DOMAIN u = DOMAIN f \cup {a} /\ u[a] = v
         /\ \A x \in DOMAIN f : x # a => u[x] = f[x]
  BY DEF With

\* Lamports that are sent, and those that come back when an account is closed.
SendsLamports(A, n, to, u) ==
  /\ SolOK(A) /\ n \in Nat /\ Sol(A, Me) >= n /\ to \in {You, Wraps}
  /\ u = With(With(A, to, Sol(A, to) + n), Me, A[Me] - n)

LEMMA LamportsMoved ==
  ASSUME NEW A, NEW n, NEW to, NEW u, SendsLamports(A, n, to, u)
  PROVE  SolOK(u) /\ Sol(u, to) = Sol(A, to) + n /\ u[Me] = A[Me] - n
<1>0. /\ SolOK(A) /\ n \in Nat /\ Sol(A, Me) >= n /\ to \in {You, Wraps}
      /\ u = With(With(A, to, Sol(A, to) + n), Me, A[Me] - n)
  BY DEF SendsLamports
<1> DEFINE v == With(A, to, Sol(A, to) + n)
<1>1. to # Me /\ Me \in DOMAIN A /\ A[Me] \in Nat /\ A[Me] >= n
  <2>1. to # Me
    BY <1>0, Distinct
  <2>2. Me \in DOMAIN A /\ A[Me] \in Nat
    BY <1>0 DEF SolOK
  <2>3. Sol(A, Me) = A[Me]
    BY <2>2 DEF Sol
  <2> QED BY <1>0, <2>1, <2>2, <2>3
<1>2. Sol(A, to) \in Nat
  BY <1>0 DEF SolOK, Sol
<1>3. /\ DOMAIN v = DOMAIN A \cup {to} /\ v[to] = Sol(A, to) + n
      /\ \A x \in DOMAIN A : x # to => v[x] = A[x]
  BY DEF With
<1> HIDE DEF v
<1>4. u = With(v, Me, A[Me] - n)
  BY <1>0 DEF v
<1>5. /\ u = [x \in DOMAIN u |-> u[x]] /\ DOMAIN u = DOMAIN v \cup {Me} /\ u[Me] = A[Me] - n
      /\ \A x \in DOMAIN v : x # Me => u[x] = v[x]
  BY <1>4 DEF With
<1>6. to \in DOMAIN u /\ u[to] = Sol(A, to) + n
  BY <1>0, <1>1, <1>3, <1>5
<1>7. SolOK(u)
  <2>1. DOMAIN u \subseteq {Me, You, Wraps} /\ Me \in DOMAIN u
    BY <1>0, <1>3, <1>5 DEF SolOK
  <2>2. ASSUME NEW x \in DOMAIN u PROVE u[x] \in Nat
    <3>1. CASE x = Me
      BY <3>1, <1>0, <1>1, <1>5
    <3>2. CASE x = to
      BY <3>2, <1>0, <1>2, <1>6
    <3>3. CASE x # Me /\ x # to
      <4>1. x \in DOMAIN A /\ u[x] = A[x]
        BY <3>3, <1>3, <1>5
      <4> QED BY <1>0, <4>1 DEF SolOK
    <3> QED BY <3>1, <3>2, <3>3
  <2> QED BY <2>1, <2>2, <1>5 DEF SolOK
<1>8. Sol(u, to) = Sol(A, to) + n
  BY <1>6 DEF Sol
<1> QED BY <1>5, <1>7, <1>8

LEMMA LamportsReturned ==
  ASSUME NEW A, SolOK(A),
         NEW u, u = With(With(A, Me, A[Me] + Sol(A, Wraps)), Wraps, 0)
  PROVE  SolOK(u) /\ u[Me] = A[Me] + Sol(A, Wraps)
<1> DEFINE v == With(A, Me, A[Me] + Sol(A, Wraps))
<1>1. Wraps # Me /\ Me \in DOMAIN A /\ A[Me] \in Nat /\ Sol(A, Wraps) \in Nat
  BY Distinct DEF SolOK, Sol
<1>2. /\ DOMAIN v = DOMAIN A \cup {Me} /\ v[Me] = A[Me] + Sol(A, Wraps)
      /\ \A x \in DOMAIN A : x # Me => v[x] = A[x]
  BY DEF With
<1> HIDE DEF v
<1>3. u = With(v, Wraps, 0)
  BY DEF v
<1>4. /\ u = [x \in DOMAIN u |-> u[x]] /\ DOMAIN u = DOMAIN v \cup {Wraps} /\ u[Wraps] = 0
      /\ \A x \in DOMAIN v : x # Wraps => u[x] = v[x]
  BY <1>3 DEF With
<1>5. u[Me] = A[Me] + Sol(A, Wraps) /\ u[Me] \in Nat
  BY <1>1, <1>2, <1>4
<1>6. DOMAIN u \subseteq {Me, You, Wraps} /\ Me \in DOMAIN u
  BY <1>1, <1>2, <1>4 DEF SolOK
<1>7. ASSUME NEW x \in DOMAIN u PROVE u[x] \in Nat
  <2>1. CASE x = Me
    BY <2>1, <1>5
  <2>2. CASE x = Wraps
    BY <2>2, <1>4
  <2>3. CASE x # Me /\ x # Wraps
    <3>1. x \in DOMAIN A /\ u[x] = A[x]
      BY <2>3, <1>2, <1>4
    <3> QED BY <3>1 DEF SolOK
  <2> QED BY <2>1, <2>2, <2>3
<1> QED BY <1>4, <1>5, <1>6, <1>7 DEF SolOK

Without(t, a) == [b \in DOMAIN t \ {a} |-> t[b]]

\* Closing the account of wrapped SOL leaves the others as they are.
LEMMA WrapsClosed ==
  ASSUME NEW t, TokOK(t), NEW a \in {Yours, Wraps},
         NEW u, u = Without(t, a)
  PROVE  TokOK(u)
<1>1. a \notin {Custom, Mine}
  BY Distinct
<1>2. /\ u = [b \in DOMAIN u |-> u[b]] /\ DOMAIN u = DOMAIN t \ {a}
      /\ \A b \in DOMAIN u : u[b] = t[b]
  BY DEF Without
<1>3. IsFiniteSet(DOMAIN u)
  <2>1. IsFiniteSet(DOMAIN t) /\ DOMAIN u \subseteq DOMAIN t
    BY <1>2 DEF TokOK
  <2> QED BY <2>1, FS_Subset
<1> QED BY <1>1, <1>2, <1>3 DEF TokOK

-----------------------------------------------------------------------------
\* What the chain may be asked to execute: code that was built for an order,
\* on whatever the program believes of the accounts.
CodeOK(t) ==
  LET o == t.for
  IN  /\ o \in Orders
      /\ \/ o.kind = "native" /\ t.code = <<Transfer(You, o.amount)>>
         \/ /\ o.kind = "wrap"
            /\ t.code = <<Create(Me, Wrapped), Transfer(Wraps, o.amount)>>
         \/ o.kind = "unwrap" /\ t.code = <<Close>>
         \/ /\ o.kind = "token"
            /\ \E x \in {o.to, Yours} :
                 /\ x = o.to \/ o.to = You
                 /\ \/ t.code = <<PayTo(x, o.amount)>>
                    \/ t.code = <<Create(o.to, Token), PayTo(x, o.amount)>>

\* Paid of two states of the chain.
PaidBy(o, s, t, u, v) ==
  CASE o.kind = "native" -> /\ Sol(u, You) = Sol(s, You) + o.amount
                            /\ u[Me] = s[Me] - o.amount
    [] o.kind = "token"  -> /\ Holding(v, You) = Holding(t, You) + o.amount
                            /\ Holding(v, Me) = Holding(t, Me) - o.amount
    [] o.kind = "wrap"   -> /\ Sol(u, Wraps) = Sol(s, Wraps) + o.amount
                            /\ u[Me] = s[Me] - o.amount
    [] o.kind = "unwrap" -> u[Me] = s[Me] + Sol(s, Wraps)

LEMMA OrderFacts ==
  ASSUME NEW o \in Orders
  PROVE  /\ o.amount \in Nat \ {0} /\ o.kind \in {"token", "native", "wrap", "unwrap"}
         /\ o.kind = "token" => o.to \in {You, Custom, Yours}
         /\ o.kind = "native" => o.to = You
         /\ o.kind \in {"wrap", "unwrap"} => o.to = Me
  BY AmountsAssumption DEF Orders, Yours

\* An account that tokens may be sent to is one of yours.
LEMMA Recipient ==
  ASSUME NEW B, TokOK(B),
         NEW x \in {You, Custom, Yours}, x \in DOMAIN B
  PROVE  B[x].holder = You /\ B[x].mint = Token /\ x # Mine
<1>1. AccountOK(x, B[x])
  BY DEF TokOK
<1>2. x # Mine
  BY Distinct
<1>3. \A o \in Owners, m \in {Token, Wrapped} : Ata(o, m) \notin {You, Custom}
  BY NamesFacts
<1>4. \A o \in Owners, m \in {Token, Wrapped} : Ata(o, m) = Yours => o = You /\ m = Token
  BY DEF Ata, Yours
<1>5. Custom # Yours /\ Custom # You
  BY Distinct
<1>6. CASE x = Custom
  BY <1>1, <1>2, <1>3, <1>6 DEF AccountOK
<1>7. CASE x # Custom
  BY <1>1, <1>2, <1>3, <1>4, <1>7 DEF AccountOK
<1> QED BY <1>2, <1>6, <1>7

LEMMA MineFacts ==
  ASSUME NEW B, TokOK(B)
  PROVE  Mine \in DOMAIN B /\ B[Mine].holder = Me /\ B[Mine].mint = Token /\ B[Mine].amount \in Nat
<1>1. Mine \in DOMAIN B /\ AccountOK(Mine, B[Mine])
  BY DEF TokOK
<1>2. Mine # Custom
  BY Distinct
<1> QED BY <1>1, <1>2 DEF AccountOK, Mine, Ata

\* Code that runs does what it was built for.
Does(t) ==
  /\ SolOK(After(t.code).sol) /\ TokOK(After(t.code).tok)
  /\ PaidBy(t.for, sol, tok, After(t.code).sol, After(t.code).tok)

LEMMA NativeDoes ==
  ASSUME SolOK(sol), TokOK(tok),
         NEW t, t.for \in Orders, t.for.kind = "native",
         t.code = <<Transfer(You, t.for.amount)>>, Runs(t.code)
  PROVE  Does(t)
<1> DEFINE n == t.for.amount
           u == With(With(sol, You, Sol(sol, You) + n), Me, sol[Me] - n)
           after == After(t.code)
<1>1. n \in Nat
  BY OrderFacts
<1> HIDE DEF n
<1>2. after = Instruction(State(sol, tok), Transfer(You, n))
  BY AfterOne DEF n
<1>3. after = IF Sol(sol, Me) >= n THEN State(u, tok) ELSE Refused(sol, tok)
  BY <1>2, TransferDoes
<1>4. after.ok
  BY DEF Runs
<1> HIDE DEF u, after
<1>5. Sol(sol, Me) >= n /\ after = State(u, tok)
  BY <1>3, <1>4, StateFields
<1>6. after.sol = u /\ after.tok = tok
  BY <1>5, StateFields, ZenonT(40)
<1>7. SolOK(u) /\ Sol(u, You) = Sol(sol, You) + n /\ u[Me] = sol[Me] - n
  <2>1. SendsLamports(sol, n, You, u)
    BY <1>1, <1>5 DEF SendsLamports, u
  <2> QED BY <2>1, LamportsMoved
<1>8. PaidBy(t.for, sol, tok, u, tok)
  BY <1>7 DEF PaidBy, n
<1> QED BY <1>6, <1>7, <1>8 DEF Does, after

LEMMA WrapDoes ==
  ASSUME SolOK(sol), TokOK(tok),
         NEW t, t.for \in Orders, t.for.kind = "wrap",
         t.code = <<Create(Me, Wrapped), Transfer(Wraps, t.for.amount)>>,
         Runs(t.code)
  PROVE  Does(t)
<1> DEFINE n == t.for.amount
           u == With(With(sol, Wraps, Sol(sol, Wraps) + n), Me, sol[Me] - n)
           v == With(tok, Wraps, Account(Me, Wrapped, 0))
           first == Instruction(State(sol, tok), Create(Me, Wrapped))
           after == After(t.code)
<1>1. n \in Nat
  BY OrderFacts
<1> HIDE DEF n
<1>2. after = Instruction(first, Transfer(Wraps, n))
  BY AfterTwo DEF n
<1>3. first = IF Wraps \notin DOMAIN tok THEN State(sol, v) ELSE Refused(sol, tok)
  BY CreateDoes DEF Wraps
<1>4. after.ok
  BY DEF Runs
<1> HIDE DEF u, v, first, after
<1>5. Wraps \notin DOMAIN tok /\ first = State(sol, v)
  BY <1>2, <1>3, <1>4, RefusedStays
<1>6. after = IF Sol(sol, Me) >= n THEN State(u, v) ELSE Refused(sol, v)
  BY <1>2, <1>5, TransferDoes DEF u
<1>7. Sol(sol, Me) >= n /\ after = State(u, v)
  BY <1>4, <1>6, StateFields
<1>8. after.sol = u /\ after.tok = v
  BY <1>7, StateFields, ZenonT(40)
<1>9. SolOK(u) /\ Sol(u, Wraps) = Sol(sol, Wraps) + n /\ u[Me] = sol[Me] - n
  <2>1. SendsLamports(sol, n, Wraps, u)
    BY <1>1, <1>7 DEF SendsLamports, u
  <2> QED BY <2>1, LamportsMoved
<1>10. TokOK(v)
  <2>1. Me \in Owners /\ Wrapped \in {Token, Wrapped} /\ Wraps = Ata(Me, Wrapped)
    BY DEF Owners, Wraps
  <2> QED BY <2>1, <1>5, AccountOpened DEF v
<1>11. PaidBy(t.for, sol, tok, u, v)
  BY <1>9 DEF PaidBy, n
<1> QED BY <1>8, <1>9, <1>10, <1>11 DEF Does, after

LEMMA UnwrapDoes ==
  ASSUME SolOK(sol), TokOK(tok),
         NEW t, t.for.kind = "unwrap", t.code = <<Close>>, Runs(t.code)
  PROVE  Does(t)
<1> DEFINE u == With(With(sol, Me, sol[Me] + Sol(sol, Wraps)), Wraps, 0)
           v == [a \in DOMAIN tok \ {Wraps} |-> tok[a]]
           after == After(t.code)
<1>1. after = Instruction(State(sol, tok), Close)
  BY AfterOne
<1>2. after = IF Wraps \in DOMAIN tok THEN State(u, v) ELSE Refused(sol, tok)
  BY <1>1, CloseDoes
<1>3. after.ok
  BY DEF Runs
<1> HIDE DEF u, v, after
<1>4. after.sol = u /\ after.tok = v
  <2>1. after = State(u, v)
    BY <1>2, <1>3, StateFields
  <2> QED BY <2>1, StateFields, ZenonT(40)
<1>5. SolOK(u) /\ u[Me] = sol[Me] + Sol(sol, Wraps)
  BY LamportsReturned DEF u
<1>6. TokOK(v)
  <2>1. v = Without(tok, Wraps) /\ Wraps \in {Yours, Wraps}
    BY DEF v, Without
  <2> QED BY <2>1, WrapsClosed
<1>7. PaidBy(t.for, sol, tok, u, v)
  BY <1>5 DEF PaidBy
<1> QED BY <1>4, <1>5, <1>6, <1>7 DEF Does, after

\* Tokens are paid to the account of x, whatever was opened before.
SendsTokens(B, n, x, r) ==
  /\ TokOK(B) /\ n \in Nat /\ x \in {You, Custom, Yours}
  /\ r = Instruction(State(sol, B), PayTo(x, n)) /\ r.ok
TokensSent(B, n, r) ==
  /\ r.sol = sol /\ TokOK(r.tok)
  /\ Holding(r.tok, You) = Holding(B, You) + n
  /\ Holding(r.tok, Me) = Holding(B, Me) - n

LEMMA TokensDoes ==
  ASSUME NEW B, NEW n, NEW x, NEW r, SendsTokens(B, n, x, r)
  PROVE  TokensSent(B, n, r)
<1>0. /\ TokOK(B) /\ n \in Nat /\ x \in {You, Custom, Yours}
      /\ r = Instruction(State(sol, B), PayTo(x, n)) /\ r.ok
  BY DEF SendsTokens
<1> DEFINE runs == x \in DOMAIN B /\ B[x].mint = Token /\ B[Mine].amount >= n
           w == Sent(B, x, n)
<1>1. x # Mine
  BY <1>0, Distinct
<1>2. r = IF runs THEN State(sol, w) ELSE Refused(sol, B)
  BY <1>0, <1>1, PayDoes
<1> HIDE DEF w, runs
<1>3. runs /\ r = State(sol, w)
  <2>1. ASSUME ~runs PROVE FALSE
    <3>1. r = Refused(sol, B)
      BY ONLY <2>1, <1>2
    <3>2. r.ok = FALSE
      BY ONLY <3>1, Zenon DEF Refused
    <3> QED BY <3>2, <1>0
  <2> QED BY <2>1, <1>2
<1>4. r.sol = sol /\ r.tok = w
  BY ONLY <1>3, StateFields, ZenonT(40)
<1>5. /\ Mine \in DOMAIN B /\ B[Mine].holder = Me /\ B[Mine].mint = Token
      /\ B[x].holder = You /\ B[x].mint = Token /\ Me # You
  BY <1>0, <1>3, MineFacts, Recipient, Distinct DEF runs
<1>6. w = Sent(B, x, n) /\ x \in DOMAIN B /\ B[Mine].amount >= n
  BY <1>3 DEF w, runs
<1>7. /\ TokOK(w) /\ Holding(w, You) = Holding(B, You) + n
      /\ Holding(w, Me) = Holding(B, Me) - n
  BY ONLY <1>0, <1>5, <1>6, TokensMoved
<1> QED BY <1>4, <1>7 DEF TokensSent

LEMMA TokenDoes ==
  ASSUME SolOK(sol), TokOK(tok),
         NEW t, t.for \in Orders, t.for.kind = "token",
         NEW x \in {t.for.to, Yours},
         \/ t.code = <<PayTo(x, t.for.amount)>>
         \/ t.code = <<Create(t.for.to, Token), PayTo(x, t.for.amount)>>,
         Runs(t.code)
  PROVE  Does(t)
<1> DEFINE n == t.for.amount
           to == t.for.to
           after == After(t.code)
<1>1. n \in Nat /\ to \in {You, Custom, Yours} /\ x \in {You, Custom, Yours}
  BY OrderFacts
<1>2. after.ok
  BY DEF Runs
<1> DEFINE Opened(B) == /\ TokOK(B) /\ after = Instruction(State(sol, B), PayTo(x, n))
                        /\ Holding(B, You) = Holding(tok, You)
                        /\ Holding(B, Me) = Holding(tok, Me)
<1>3. ASSUME t.code = <<PayTo(x, n)>> PROVE Opened(tok)
  BY <1>3, AfterOne
<1>4. ASSUME t.code = <<Create(to, Token), PayTo(x, n)>> PROVE \E B : Opened(B)
  <2> DEFINE first == Instruction(State(sol, tok), Create(to, Token))
             a == Ata(to, Token)
             B == With(tok, a, Account(to, Token, 0))
  <2>1. after = Instruction(first, PayTo(x, n))
    BY <1>4, AfterTwo
  <2>2. first = IF a \notin DOMAIN tok THEN State(sol, B) ELSE Refused(sol, tok)
    BY CreateDoes
  <2> HIDE DEF n, to, after, first, a, B
  <2>3. a \notin DOMAIN tok /\ first = State(sol, B)
    BY <1>2, <2>1, <2>2, RefusedStays
  <2>4. a = Ata(to, Token) /\ B = With(tok, a, Account(to, Token, 0))
        /\ to \in Owners /\ Token \in {Token, Wrapped}
    BY <1>1 DEF a, B, Owners
  <2>5. TokOK(tok)
    OBVIOUS
  <2>6. TokOK(B) /\ \A w : Holding(B, w) = Holding(tok, w)
    BY ONLY <2>3, <2>4, <2>5, AccountOpened
  <2> QED BY <2>1, <2>3, <2>6
<1>5. \E B : Opened(B)
  BY <1>3, <1>4
<1> HIDE DEF n, to, after
<1>6. PICK B : Opened(B)
  BY <1>5
<1>7. SendsTokens(B, n, x, after)
  BY <1>1, <1>2, <1>6 DEF SendsTokens
<1>8. /\ after.sol = sol /\ TokOK(after.tok)
      /\ Holding(after.tok, You) = Holding(B, You) + n
      /\ Holding(after.tok, Me) = Holding(B, Me) - n
  BY <1>7, TokensDoes DEF TokensSent
<1>9. PaidBy(t.for, sol, tok, after.sol, after.tok)
  BY <1>6, <1>8 DEF PaidBy, n
<1> QED BY <1>8, <1>9 DEF Does, after

LEMMA CodeDoes ==
  ASSUME SolOK(sol), TokOK(tok),
         NEW t, CodeOK(t), Runs(t.code)
  PROVE  Does(t)
<1>1. t.for \in Orders
  BY DEF CodeOK
<1>2. CASE t.for.kind = "native" /\ t.code = <<Transfer(You, t.for.amount)>>
  BY <1>1, <1>2, NativeDoes
<1>3. CASE /\ t.for.kind = "wrap"
           /\ t.code = <<Create(Me, Wrapped), Transfer(Wraps, t.for.amount)>>
  BY <1>1, <1>3, WrapDoes
<1>4. CASE t.for.kind = "unwrap" /\ t.code = <<Close>>
  BY <1>1, <1>4, UnwrapDoes
<1>5. ASSUME t.for.kind = "token", NEW x \in {t.for.to, Yours},
             \/ t.code = <<PayTo(x, t.for.amount)>>
             \/ t.code = <<Create(t.for.to, Token), PayTo(x, t.for.amount)>>
      PROVE  Does(t)
  BY <1>1, <1>5, TokenDoes
<1> QED BY <1>2, <1>3, <1>4, <1>5 DEF CodeOK
-----------------------------------------------------------------------------
\* What the program believes of the accounts, and what it may not believe.
InputOK ==
  /\ input = [hash |-> input.hash, toIsATA |-> input.toIsATA,
              shouldCreateATA |-> input.shouldCreateATA]
  /\ pc \in {"ata", "build"} /\ order.kind = "token" /\ ~input.toIsATA => order.to = You
  /\ pc \in {"ata", "build", "sign", "send"} /\ order.kind = "token" /\ fresh =>
       (input.toIsATA <=> ~Exists(order.to) \/ order.to \in DOMAIN tok)
  /\ pc \in {"build", "sign", "send"} /\ order.kind = "token" /\ fresh =>
       (input.shouldCreateATA <=> ~Exists(AtaTo(order)))

ChainOK ==
  /\ SolOK(sol) /\ TokOK(tok)
  /\ \A t \in pool : CodeOK(t)
  /\ \A l \in landed : CodeOK(l.tx)

ProgramOK ==
  /\ pc \in {"idle", "to", "ata", "build", "sign", "send"}
  /\ pc # "idle" => order \in Orders
  /\ pc \in {"to", "ata"} => order.kind \in {"token", "unwrap"}
  /\ InputOK
  /\ pc \in {"sign", "send"} =>
       CodeOK(tx) /\ tx.for = order /\ tx.code = Code(order)

SolanaInv == ChainOK /\ ProgramOK

LEMMA SolanaInit ==
  ASSUME Init
  PROVE  SolanaInv
<1>1. SolOK(sol)
  <2>1. Me # You
    BY Distinct
  <2>2. \/ sol = [a \in {Me} |-> 3]
        \/ sol = [a \in {Me, You} |-> IF a = Me THEN 3 ELSE 1]
    BY DEF Init
  <2>3. CASE sol = [a \in {Me} |-> 3]
    BY <2>3 DEF SolOK
  <2>4. CASE sol = [a \in {Me, You} |-> IF a = Me THEN 3 ELSE 1]
    BY <2>4 DEF SolOK
  <2> QED BY <2>2, <2>3, <2>4
<1>2. TokOK(tok)
  <2>1. PICK more \in SUBSET {Yours, Wraps} :
          tok = [a \in {Mine, Custom} \cup more |->
                   IF a = Custom THEN Account(You, Token, 0)
                   ELSE Account(a[1], a[2], IF a = Mine THEN 2 ELSE 0)]
    BY DEF Init, Yours, Wraps, Mine
  <2> DEFINE D == {Mine, Custom} \cup more
  <2>2. IsFiniteSet(D)
    <3>1. IsFiniteSet({}) /\ IsFiniteSet({Mine, Custom, Yours, Wraps})
      <4>1. IsFiniteSet({})
        BY FS_EmptySet
      <4>2. IsFiniteSet({} \cup {Mine})
        BY <4>1, FS_AddElement
      <4>3. IsFiniteSet(({} \cup {Mine}) \cup {Custom})
        BY <4>2, FS_AddElement
      <4>4. IsFiniteSet((({} \cup {Mine}) \cup {Custom}) \cup {Yours})
        BY <4>3, FS_AddElement
      <4>5. IsFiniteSet(((({} \cup {Mine}) \cup {Custom}) \cup {Yours}) \cup {Wraps})
        BY <4>4, FS_AddElement
      <4>6. ((({} \cup {Mine}) \cup {Custom}) \cup {Yours}) \cup {Wraps} = {Mine, Custom, Yours, Wraps}
        OBVIOUS
      <4> QED BY <4>1, <4>5, <4>6
    <3>2. D \subseteq {Mine, Custom, Yours, Wraps}
      OBVIOUS
    <3> HIDE DEF D
    <3> QED BY <3>1, <3>2, FS_Subset
  <2>3. ASSUME NEW a \in D PROVE AccountOK(a, tok[a])
    <3>1. CASE a = Custom
      <4>1. tok[a] = Account(You, Token, 0)
        BY <2>1, <3>1
      <4> QED BY <3>1, <4>1 DEF AccountOK, Account
    <3>2. ASSUME NEW o \in Owners, NEW m \in {Token, Wrapped}, a = Ata(o, m), a # Custom
          PROVE  AccountOK(a, tok[a])
      <4>1. a[1] = o /\ a[2] = m
        BY <3>2 DEF Ata
      <4>2. tok[a] = Account(o, m, IF a = Mine THEN 2 ELSE 0)
        BY <2>1, <3>2, <4>1
      <4>3. (IF a = Mine THEN 2 ELSE 0) \in Nat
        OBVIOUS
      <4> QED BY <3>2, <4>2, <4>3 DEF AccountOK, Account
    <3>3. CASE a # Custom
      <4>1. a \in {Mine, Yours, Wraps}
        BY <3>3
      <4>2. Me \in Owners /\ You \in Owners
        BY DEF Owners
      <4> QED BY <3>2, <3>3, <4>1, <4>2 DEF Mine, Yours, Wraps
    <3> QED BY <3>1, <3>3
  <2>4. DOMAIN tok = D /\ tok = [a \in DOMAIN tok |-> tok[a]]
    BY <2>1
  <2> QED BY <2>2, <2>3, <2>4 DEF TokOK
<1>3. pool = {} /\ landed = {} /\ pc = "idle" /\ input = NoInput
  BY DEF Init
<1> QED BY <1>1, <1>2, <1>3 DEF SolanaInv, ChainOK, ProgramOK, InputOK, NoInput

\* What NewTransfer builds is code for the order.
LEMMA BuiltCodeOK ==
  ASSUME ProgramOK, pc = "build",
         NEW t, t.for = order, t.code = Code(order)
  PROVE  CodeOK(t)
<1> DEFINE o == order
<1>1. /\ o \in Orders /\ InputOK
      /\ o.kind = "token" /\ ~input.toIsATA => o.to = You
  BY DEF ProgramOK, InputOK
<1>2. o.kind \in {"token", "native", "wrap", "unwrap"} /\ (o.kind = "native" => o.to = You)
  BY <1>1, OrderFacts
<1>3. CASE o.kind = "native"
  <2>1. t.code = <<Transfer(You, o.amount)>>
    BY <1>2, <1>3 DEF Code
  <2> QED BY <1>1, <1>3, <2>1 DEF CodeOK
<1>4. CASE o.kind = "wrap"
  <2>1. t.code = <<Create(Me, Wrapped), Transfer(Wraps, o.amount)>>
    BY <1>4 DEF Code, BuildWrapTx, Wraps
  <2> QED BY <1>1, <1>4, <2>1 DEF CodeOK
<1>5. CASE o.kind = "unwrap"
  <2>1. t.code = <<Close>>
    BY <1>5 DEF Code, BuildUnwrapEverythingTx, Close, Wraps
  <2> QED BY <1>1, <1>5, <2>1 DEF CodeOK
<1>6. CASE o.kind = "token"
  <2> DEFINE x == AtaTo(o)
             pay == PayTo(x, o.amount)
             create == Create(o.to, Token)
  <2>1. x = IF input.toIsATA THEN o.to ELSE Ata(o.to, Token)
    BY <1>6 DEF AtaTo, Contract
  <2>2. x \in {o.to, Yours} /\ (x = o.to \/ o.to = You)
    BY <1>1, <1>6, <2>1 DEF Yours
  <2>3. t.code = (IF input.shouldCreateATA THEN <<create>> ELSE << >>) \o <<pay>>
    BY <1>6 DEF Code, NewTokenTransfer, PayTo, Mine
  <2> HIDE DEF x, pay, create
  <2>4. <<create>> \o <<pay>> = <<create, pay>> /\ << >> \o <<pay>> = <<pay>>
    BY Joined
  <2>5. t.code = <<pay>> \/ t.code = <<create, pay>>
    BY <2>3, <2>4
  <2> QED BY <1>1, <1>6, <2>2, <2>5 DEF CodeOK, pay, create
<1> QED BY <1>2, <1>3, <1>4, <1>5, <1>6

-----------------------------------------------------------------------------
(* Each step keeps the invariant. *)
LEMMA FetchBlockhashKeeps ==
  ASSUME SolanaInv, FetchBlockhash
  PROVE  SolanaInv'
<1>1. /\ pc = "idle" /\ order' \in Orders /\ fresh' = TRUE
      /\ input' = [NoInput EXCEPT !.hash = height]
      /\ pc' = IF Contract(order') = None THEN "build" ELSE "to"
      /\ UNCHANGED <<sol, tok, height, pool, landed, tx>>
  BY DEF FetchBlockhash, chain
<1>2. ChainOK'
  BY <1>1 DEF SolanaInv, ChainOK
<1>3. input' = [hash |-> height, toIsATA |-> FALSE, shouldCreateATA |-> FALSE]
  BY <1>1 DEF NoInput
<1>4. None # Token /\ None # Wrapped
  BY Distinct
<1>5. order'.kind \in {"token", "native", "wrap", "unwrap"}
  BY <1>1 DEF Orders
<1>6. /\ order'.kind = "token" => Contract(order') = Token
      /\ order'.kind = "unwrap" => Contract(order') = Wrapped
      /\ order'.kind \in {"native", "wrap"} => Contract(order') = None
  BY DEF Contract
<1>7. \/ pc' = "build" /\ order'.kind \in {"native", "wrap"}
      \/ pc' = "to" /\ order'.kind \in {"token", "unwrap"}
  BY <1>1, <1>4, <1>5, <1>6
<1>8. InputOK'
  BY <1>3, <1>7 DEF InputOK
<1>9. ProgramOK'
  BY <1>1, <1>7, <1>8 DEF ProgramOK
<1> QED BY <1>2, <1>9 DEF SolanaInv

LEMMA FetchToKeeps ==
  ASSUME SolanaInv, FetchTo
  PROVE  SolanaInv'
<1>1. PICK answered \in BOOLEAN :
        /\ answered \in {Exists(order.to), FALSE}
        /\ fresh' = (fresh /\ answered = Exists(order.to))
        /\ input' = [input EXCEPT !.toIsATA = ~answered \/ order.to \in DOMAIN tok]
  BY DEF FetchTo, GetAccountInfo
<1>2. /\ pc = "to" /\ pc' = "ata"
      /\ UNCHANGED <<sol, tok, height, pool, landed, order, tx, orders>>
  BY DEF FetchTo, chain
<1>3. ChainOK'
  BY <1>2 DEF SolanaInv, ChainOK
<1>4. /\ order \in Orders /\ order.kind \in {"token", "unwrap"}
      /\ input = [hash |-> input.hash, toIsATA |-> input.toIsATA,
                  shouldCreateATA |-> input.shouldCreateATA]
  BY <1>2 DEF SolanaInv, ProgramOK, InputOK
<1> DEFINE is == ~answered \/ order.to \in DOMAIN tok
<1> HIDE DEF is
<1>5. input' = [hash |-> input.hash, toIsATA |-> is, shouldCreateATA |-> input.shouldCreateATA]
  <2>1. input' = [input EXCEPT !.toIsATA = is]
    BY <1>1 DEF is
  <2> QED BY <2>1, <1>4
<1>6. /\ input'.toIsATA = is
      /\ input' = [hash |-> input'.hash, toIsATA |-> input'.toIsATA,
                   shouldCreateATA |-> input'.shouldCreateATA]
  BY <1>5
<1>7. ASSUME ~is, order.kind = "token" PROVE order.to = You
  <2>1. answered /\ order.to \notin DOMAIN tok
    BY <1>7 DEF is
  <2>2. Exists(order.to)
    BY <2>1, <1>1
  <2>3. order.to \in DOMAIN sol
    BY <2>1, <2>2 DEF Exists, Sol
  <2>4. order.to \in {You, Custom, Yours} /\ DOMAIN sol \subseteq {Me, You, Wraps}
    BY <1>4, <1>7, OrderFacts DEF SolanaInv, ChainOK, SolOK
  <2> QED BY <2>3, <2>4, Distinct
<1>8. ASSUME fresh' PROVE is <=> ~Exists(order.to) \/ order.to \in DOMAIN tok
  BY <1>8, <1>1 DEF is
<1>9. Exists(order.to)' <=> Exists(order.to)
  BY <1>2 DEF Exists
<1>10. InputOK'
  <2>1. (order.to \in DOMAIN tok)' <=> order.to \in DOMAIN tok
    BY <1>2
  <2> QED BY <1>2, <1>6, <1>7, <1>8, <1>9, <2>1 DEF InputOK
<1>11. ProgramOK'
  BY <1>2, <1>4, <1>10 DEF ProgramOK
<1> QED BY <1>3, <1>11 DEF SolanaInv

LEMMA FetchAtaKeeps ==
  ASSUME SolanaInv, FetchAta
  PROVE  SolanaInv'
<1>1. PICK answered \in BOOLEAN :
        /\ answered \in {Exists(AtaTo(order)), FALSE}
        /\ fresh' = (fresh /\ answered = Exists(AtaTo(order)))
        /\ input' = [input EXCEPT !.shouldCreateATA = ~answered]
  BY DEF FetchAta, GetAccountInfo
<1>2. /\ pc = "ata" /\ pc' = "build"
      /\ UNCHANGED <<sol, tok, height, pool, landed, order, tx, orders>>
  BY DEF FetchAta, chain
<1>3. ChainOK'
  BY <1>2 DEF SolanaInv, ChainOK
<1>4. /\ order \in Orders /\ order.kind \in {"token", "unwrap"} /\ InputOK
      /\ input = [hash |-> input.hash, toIsATA |-> input.toIsATA,
                  shouldCreateATA |-> input.shouldCreateATA]
  BY <1>2 DEF SolanaInv, ProgramOK, InputOK
<1> DEFINE no == ~answered
<1> HIDE DEF no
<1>5. input' = [hash |-> input.hash, toIsATA |-> input.toIsATA, shouldCreateATA |-> no]
  <2>1. input' = [input EXCEPT !.shouldCreateATA = no]
    BY <1>1 DEF no
  <2> QED BY <2>1, <1>4
<1>6. /\ input'.toIsATA = input.toIsATA /\ input'.shouldCreateATA = no
      /\ input' = [hash |-> input'.hash, toIsATA |-> input'.toIsATA,
                   shouldCreateATA |-> input'.shouldCreateATA]
  BY <1>5
<1>7. AtaTo(order)' = AtaTo(order)
  BY <1>2, <1>6 DEF AtaTo, Contract
<1>8. ASSUME NEW a PROVE Exists(a)' <=> Exists(a)
  BY <1>2 DEF Exists
<1>9. Exists(AtaTo(order))' <=> Exists(AtaTo(order))
  BY <1>2, <1>7 DEF Exists
<1>10. ASSUME fresh' PROVE fresh /\ (no <=> ~Exists(AtaTo(order)))
  BY <1>10, <1>1 DEF no
<1>11. Exists(order.to)' <=> Exists(order.to)
  BY <1>2 DEF Exists
<1>12. InputOK'
  <2>1. (order.to \in DOMAIN tok)' <=> order.to \in DOMAIN tok
    BY <1>2
  <2>2. order.kind = "token" /\ ~input.toIsATA => order.to = You
    BY <1>2, <1>4 DEF InputOK
  <2>3. order.kind = "token" /\ fresh' =>
          (input.toIsATA <=> ~Exists(order.to) \/ order.to \in DOMAIN tok)
    BY <1>2, <1>4, <1>10 DEF InputOK
  <2> QED BY <1>2, <1>6, <1>9, <1>10, <1>11, <2>1, <2>2, <2>3 DEF InputOK
<1>13. ProgramOK'
  BY <1>2, <1>4, <1>12 DEF ProgramOK
<1> QED BY <1>3, <1>13 DEF SolanaInv

LEMMA NewTransferKeeps ==
  ASSUME SolanaInv, NewTransfer
  PROVE  SolanaInv'
<1>1. /\ pc = "build" /\ pc' = "sign"
      /\ tx' = [hash |-> input.hash, code |-> Code(order), for |-> order]
      /\ UNCHANGED <<sol, tok, height, pool, landed, order, input, orders, fresh>>
  BY DEF NewTransfer, chain
<1>2. ChainOK'
  BY <1>1 DEF SolanaInv, ChainOK
<1>3. ProgramOK /\ tx'.for = order /\ tx'.code = Code(order)
  BY <1>1 DEF SolanaInv
<1>4. \A t : t.for = order /\ t.code = Code(order) => CodeOK(t)
  BY <1>1, <1>3, BuiltCodeOK
<1>5. CodeOK(tx')
  BY <1>3, <1>4
<1>6. Code(order)' = Code(order)
  BY <1>1 DEF Code, NewTokenTransfer, AtaTo, Contract,
              Transfer, Create, BuildWrapTx, BuildUnwrapEverythingTx
<1>7. CodeOK(tx)'
  BY <1>5 DEF CodeOK, PayTo, Mine, Yours, Wraps, Close, Create, Transfer, Ata
<1>8. InputOK'
  BY <1>1, <1>3 DEF ProgramOK, InputOK, Exists, AtaTo, Contract
<1>9. ProgramOK'
  BY <1>1, <1>3, <1>6, <1>7, <1>8 DEF ProgramOK
<1> QED BY <1>2, <1>9 DEF SolanaInv

LEMMA DoneKeeps ==
  ASSUME Done
  PROVE  ProgramOK'
<1>1. pc' = "idle" /\ input' = NoInput
  BY DEF Done
<1> QED BY <1>1 DEF ProgramOK, InputOK, NoInput

\* The program knows what it knew.
LEMMA ProgramStays ==
  ASSUME ProgramOK, UNCHANGED <<sol, tok, pc, order, input, tx, fresh>>
  PROVE  ProgramOK'
<1>1. InputOK'
  BY DEF ProgramOK, InputOK, Exists, AtaTo, Contract
<1>2. Code(order)' = Code(order)
  BY DEF Code, NewTokenTransfer, AtaTo, Contract,
         Transfer, Create, BuildWrapTx, BuildUnwrapEverythingTx
<1>3. CodeOK(tx) => CodeOK(tx)'
  BY DEF CodeOK
<1> QED BY <1>1, <1>2, <1>3 DEF ProgramOK

\* Whatever becomes of the accounts is not what the program has just read.
LEMMA ProgramIsBehind ==
  ASSUME ProgramOK, UNCHANGED <<pc, order, input, tx>>, ~fresh'
  PROVE  ProgramOK'
<1>1. InputOK'
  BY DEF ProgramOK, InputOK
<1>2. Code(order)' = Code(order)
  BY DEF Code, NewTokenTransfer, AtaTo, Contract,
         Transfer, Create, BuildWrapTx, BuildUnwrapEverythingTx
<1>3. CodeOK(tx) => CodeOK(tx)'
  BY DEF CodeOK
<1> QED BY <1>1, <1>2, <1>3 DEF ProgramOK

LEMMA AddSignaturesKeeps ==
  ASSUME SolanaInv, AddSignatures
  PROVE  SolanaInv'
<1>1. pc = "sign" /\ UNCHANGED <<sol, tok, height, pool, landed, orders>>
  BY DEF AddSignatures, chain
<1>2. ChainOK' /\ ProgramOK
  BY <1>1 DEF SolanaInv, ChainOK
<1>3. CASE pc' = "send" /\ UNCHANGED <<order, input, tx, fresh>>
  <2>1. InputOK'
    BY <1>1, <1>2, <1>3 DEF ProgramOK, InputOK, Exists, AtaTo, Contract
  <2>2. Code(order)' = Code(order)
    BY <1>3 DEF Code, NewTokenTransfer, AtaTo, Contract,
         Transfer, Create, BuildWrapTx, BuildUnwrapEverythingTx
  <2>3. CodeOK(tx) => CodeOK(tx)'
    BY <1>3 DEF CodeOK
  <2>4. ProgramOK'
    BY <1>1, <1>2, <1>3, <2>1, <2>2, <2>3 DEF ProgramOK
  <2> QED BY <1>2, <2>4 DEF SolanaInv
<1>4. CASE Done
  BY <1>2, <1>4, DoneKeeps DEF SolanaInv
<1> QED BY <1>3, <1>4 DEF AddSignatures

LEMMA SubmitTxKeeps ==
  ASSUME SolanaInv, SubmitTx
  PROVE  SolanaInv'
<1>1. pc = "send" /\ UNCHANGED <<sol, tok, height, landed, orders>>
  BY DEF SubmitTx
<1>2. ProgramOK /\ CodeOK(tx)
  BY <1>1 DEF SolanaInv, ProgramOK
<1>3. pool' \in {pool, pool \cup {tx}}
  BY DEF SubmitTx
<1>4. ChainOK'
  BY <1>1, <1>2, <1>3 DEF SolanaInv, ChainOK
<1>5. CASE UNCHANGED <<pc, order, input, tx, fresh>>
  BY <1>1, <1>2, <1>4, <1>5, ProgramStays DEF SolanaInv
<1>6. CASE Done
  BY <1>4, <1>6, DoneKeeps DEF SolanaInv
<1> QED BY <1>5, <1>6 DEF SubmitTx

LEMMA BlockKeeps ==
  ASSUME SolanaInv, Block
  PROVE  SolanaInv'
<1>1. UNCHANGED <<sol, tok, pool, landed, pc, order, input, tx, fresh>>
  BY DEF Block, program
<1>2. ChainOK' /\ ProgramOK
  BY <1>1 DEF SolanaInv, ChainOK
<1> QED BY <1>1, <1>2, ProgramStays DEF SolanaInv

\* What is executed is what its order asks for.
LEMMA LandPays ==
  ASSUME SolanaInv, Land
  PROVE  /\ SolanaInv'
         /\ \A l \in landed' \ landed : l.ok => Paid(l.tx.for)
<1>1. PICK t \in pool :
        /\ pool' = pool \ {t}
        /\ IF Valid(t.hash)
           THEN /\ landed' = landed \cup {[tx |-> t, ok |-> Runs(t.code)]}
                /\ IF Runs(t.code)
                   THEN sol' = After(t.code).sol /\ tok' = After(t.code).tok
                   ELSE UNCHANGED <<sol, tok>>
                /\ fresh' = FALSE
           ELSE UNCHANGED <<landed, sol, tok, fresh>>
  BY DEF Land
<1>2. UNCHANGED <<height, pc, order, input, tx, orders>>
  BY DEF Land, program
<1>3. /\ CodeOK(t) /\ SolOK(sol) /\ TokOK(tok) /\ ProgramOK
      /\ \A u \in pool' : CodeOK(u)
      /\ \A l \in landed : CodeOK(l.tx)
  BY <1>1 DEF SolanaInv, ChainOK
<1>4. CASE ~Valid(t.hash)
  <2>1. UNCHANGED <<landed, sol, tok, fresh>>
    BY <1>1, <1>4
  <2>2. ChainOK'
    BY <1>3, <2>1 DEF ChainOK
  <2> QED BY <1>2, <1>3, <2>1, <2>2, ProgramStays DEF SolanaInv
<1>5. CASE Valid(t.hash)
  <2> DEFINE done == [tx |-> t, ok |-> Runs(t.code)]
  <2>1. done.tx = t /\ (done.ok <=> Runs(t.code))
    OBVIOUS
  <2>2. landed' = landed \cup {done} /\ ~fresh'
    BY <1>1, <1>5
  <2> HIDE DEF done
  <2>3. \A l \in landed' : CodeOK(l.tx)
    BY <1>3, <2>1, <2>2
  <2>4. ProgramOK'
    BY <1>2, <1>3, <2>2, ProgramIsBehind
  <2>5. CASE Runs(t.code)
    <3>1. sol' = After(t.code).sol /\ tok' = After(t.code).tok
      BY <1>1, <1>5, <2>5
    <3>2. Does(t)
      BY <1>3, <2>5, CodeDoes
    <3>3. SolOK(sol') /\ TokOK(tok') /\ PaidBy(t.for, sol, tok, sol', tok')
      BY <3>1, <3>2 DEF Does
    <3>4. Paid(t.for)
      BY <3>3 DEF PaidBy, Paid, Wraps
    <3>5. ChainOK'
      BY <1>3, <2>3, <3>3 DEF ChainOK, SolOK, TokOK
    <3>6. \A l \in landed' \ landed : l = done
      BY <2>2
    <3> QED BY <2>1, <2>4, <3>4, <3>5, <3>6 DEF SolanaInv
  <2>6. CASE ~Runs(t.code)
    <3>1. UNCHANGED <<sol, tok>>
      BY <1>1, <1>5, <2>6
    <3>2. ChainOK'
      BY <1>3, <2>3, <3>1 DEF ChainOK
    <3>3. \A l \in landed' \ landed : ~l.ok
      BY <2>1, <2>2, <2>6
    <3> QED BY <2>4, <3>2, <3>3 DEF SolanaInv
  <2> QED BY <2>5, <2>6
<1> QED BY <1>4, <1>5

LEMMA OtherTxKeeps ==
  ASSUME SolanaInv, OtherTx
  PROVE  SolanaInv'
<1>1. ~fresh' /\ UNCHANGED <<height, pool, landed, pc, order, input, tx, orders>>
  BY DEF OtherTx, program
<1>2. /\ ProgramOK' /\ SolOK(sol) /\ TokOK(tok)
      /\ \A t \in pool' : CodeOK(t)
      /\ \A l \in landed' : CodeOK(l.tx)
  BY <1>1, ProgramIsBehind DEF SolanaInv, ChainOK
<1> SUFFICES SolOK(sol') /\ TokOK(tok')
  BY <1>2 DEF SolanaInv, ChainOK, SolOK, TokOK
<1>3. CASE sol' = With(sol, You, 1) /\ UNCHANGED tok
  <2>1. /\ DOMAIN sol' = DOMAIN sol \cup {You} /\ sol' = [a \in DOMAIN sol' |-> sol'[a]]
        /\ \A a \in DOMAIN sol' : sol'[a] = 1 \/ (a \in DOMAIN sol /\ sol'[a] = sol[a])
    BY <1>3 DEF With
  <2>2. SolOK(sol')
    BY <1>2, <2>1 DEF SolOK
  <2> QED BY <1>2, <1>3, <2>2
<1>4. ASSUME NEW w \in {<<You, Token>>, <<Me, Wrapped>>}, UNCHANGED sol,
             \/ /\ Ata(w[1], w[2]) \notin DOMAIN tok
                /\ tok' = With(tok, Ata(w[1], w[2]), Account(w[1], w[2], 0))
             \/ /\ tok' = [b \in DOMAIN tok \ {Ata(w[1], w[2])} |-> tok[b]]
      PROVE  SolOK(sol') /\ TokOK(tok')
  <2> DEFINE o == w[1]
             m == w[2]
             a == Ata(o, m)
             t == tok'
  <2>1. o \in Owners /\ m \in {Token, Wrapped} /\ a \in {Yours, Wraps}
    BY DEF Owners, Yours, Wraps
  <2>2. \/ a \notin DOMAIN tok /\ t = With(tok, a, Account(o, m, 0))
        \/ t = Without(tok, a)
    BY <1>4 DEF Without
  <2>3. a = Ata(o, m) /\ TokOK(tok)
    BY <1>2
  <2> HIDE DEF o, m, a, t
  <2>4. ASSUME a \notin DOMAIN tok /\ t = With(tok, a, Account(o, m, 0))
        PROVE  TokOK(t)
    BY ONLY <2>1, <2>3, <2>4, AccountOpened
  <2>5. ASSUME t = Without(tok, a) PROVE TokOK(t)
    BY <2>1, <2>3, <2>5, WrapsClosed
  <2>6. TokOK(t)
    BY <2>2, <2>4, <2>5
  <2> QED BY <1>2, <1>4, <2>6 DEF t
<1>5. CASE /\ tok[Ata(Me, Token)].amount > 0
           /\ tok' = [tok EXCEPT ![Ata(Me, Token)].amount = @ - 1]
           /\ UNCHANGED sol
  <2>1. Mine \in DOMAIN tok /\ AccountOK(Mine, tok[Mine]) /\ tok = [a \in DOMAIN tok |-> tok[a]]
    BY <1>2 DEF TokOK
  <2> DEFINE e == Account(tok[Mine].holder, tok[Mine].mint, tok[Mine].amount - 1)
  <2>2. tok' = [tok EXCEPT ![Mine] = e]
    <3>1. [tok[Mine] EXCEPT !.amount = @ - 1] = e
      BY <2>1 DEF AccountOK, Account
    <3> HIDE DEF e
    <3> QED BY <1>5, <3>1 DEF Mine
  <2>3. AccountOK(Mine, e)
    <3>1. tok[Mine].amount \in Nat /\ tok[Mine].amount > 0 /\ e.amount = tok[Mine].amount - 1
          /\ e.holder = tok[Mine].holder /\ e.mint = tok[Mine].mint
      BY <1>5, <2>1 DEF AccountOK, Mine, Account
    <3> QED BY <2>1, <3>1 DEF AccountOK
  <2> HIDE DEF e
  <2>4. /\ DOMAIN tok' = DOMAIN tok /\ tok' = [a \in DOMAIN tok' |-> tok'[a]]
        /\ tok'[Mine] = e /\ \A a \in DOMAIN tok : a # Mine => tok'[a] = tok[a]
    BY <2>1, <2>2
  <2>5. TokOK(tok')
    BY <1>2, <2>1, <2>3, <2>4 DEF TokOK
  <2> QED BY <1>2, <1>5, <2>5
<1> QED BY <1>3, <1>4, <1>5 DEF OtherTx

LEMMA SolanaStep ==
  ASSUME SolanaInv, [Next]_vars
  PROVE  /\ SolanaInv'
         /\ \A l \in landed' \ landed : l.ok => Paid(l.tx.for)
<1>1. CASE Land
  BY <1>1, LandPays
<1>2. CASE UNCHANGED vars
  <2>1. UNCHANGED <<sol, tok, height, pool, landed, pc, order, input, tx, orders, fresh>>
    BY <1>2 DEF vars
  <2>2. ChainOK' /\ ProgramOK
    BY <2>1 DEF SolanaInv, ChainOK
  <2> QED BY <2>1, <2>2, ProgramStays DEF SolanaInv
<1>3. CASE \/ FetchBlockhash \/ FetchTo \/ FetchAta \/ NewTransfer
           \/ AddSignatures \/ SubmitTx \/ Block \/ OtherTx
  <2>1. landed' = landed
    BY <1>3 DEF FetchBlockhash, FetchTo, FetchAta, NewTransfer,
         AddSignatures, SubmitTx, Block, OtherTx, chain
  <2>2. SolanaInv'
    BY <1>3, FetchBlockhashKeeps, FetchToKeeps, FetchAtaKeeps, NewTransferKeeps,
       AddSignaturesKeeps, SubmitTxKeeps, BlockKeeps, OtherTxKeeps
  <2> QED BY <2>1, <2>2
<1> QED BY <1>1, <1>2, <1>3 DEF Next

\* A transaction that is executed pays what was ordered to the one it was
\* ordered for, for any amounts and any life of a blockhash, whichever requests
\* of FetchTxInput were lost and whatever happened to the accounts since.
THEOREM OrdersArePaid == Spec => PaidAsOrdered
<1>1. Init => SolanaInv
  BY SolanaInit
<1>2. SolanaInv /\ [Next]_vars =>
        SolanaInv' /\ [\A l \in landed' \ landed : l.ok => Paid(l.tx.for)]_vars
  BY SolanaStep
<1> QED BY <1>1, <1>2, PTL DEF Spec, PaidAsOrdered

-----------------------------------------------------------------------------
(* FetchTxInfo *)

\* The first instruction of a kind, of one and of two.
LEMMA FirstOfOne ==
  ASSUME NEW i, NEW op
  PROVE  FirstOf(op, <<i>>) = IF i.op = op THEN i ELSE None
<1> DEFINE code == <<i>>
           those == { k \in DOMAIN code : code[k].op = op }
<1>1. DOMAIN code = 1..1 /\ code[1] = i
  OBVIOUS
<1>2. \A k \in 1..1 : k = 1
  OBVIOUS
<1>3. those = IF i.op = op THEN {1} ELSE {}
  <2> HIDE DEF code
  <2> QED BY <1>1, <1>2
<1>4. Min({1}) = 1
  BY DEF Min
<1>5. FirstOf(op, code) = IF those = {} THEN None ELSE code[Min(those)]
  BY DEF FirstOf
<1> HIDE DEF code, those
<1>6. FirstOf(op, code) = IF i.op = op THEN i ELSE None
  <2>1. CASE i.op = op
    <3>1. those = {1} /\ {1} # {}
      BY <2>1, <1>3
    <3> QED BY <2>1, <3>1, <1>1, <1>4, <1>5
  <2>2. CASE i.op # op
    BY <2>2, <1>3, <1>5
  <2> QED BY <2>1, <2>2
<1> QED BY <1>6 DEF code

LEMMA FirstOfTwo ==
  ASSUME NEW i, NEW j, NEW op, i.op # op
  PROVE  FirstOf(op, <<i, j>>) = IF j.op = op THEN j ELSE None
<1> DEFINE code == <<i, j>>
           those == { k \in DOMAIN code : code[k].op = op }
<1>1. DOMAIN code = 1..2 /\ code[1] = i /\ code[2] = j
  OBVIOUS
<1>2. \A k \in 1..2 : k = 1 \/ k = 2
  OBVIOUS
<1>3. those = IF j.op = op THEN {2} ELSE {}
  <2> HIDE DEF code
  <2> QED BY <1>1, <1>2
<1>4. Min({2}) = 2
  BY DEF Min
<1>5. FirstOf(op, code) = IF those = {} THEN None ELSE code[Min(those)]
  BY DEF FirstOf
<1> HIDE DEF code, those
<1>6. FirstOf(op, code) = IF j.op = op THEN j ELSE None
  <2>1. CASE j.op = op
    <3>1. those = {2} /\ {2} # {}
      BY <2>1, <1>3
    <3> QED BY <2>1, <3>1, <1>1, <1>4, <1>5
  <2>2. CASE j.op # op
    BY <2>2, <1>3, <1>5
  <2> QED BY <2>1, <2>2
<1> QED BY <1>6 DEF code

\* What is parsed of the code of an order.
Parsed(o, p) ==
  CASE o.kind = "native" -> p \in {Transfer(You, o.amount), None}
    [] o.kind = "wrap"   -> p \in {Transfer(Wraps, o.amount), None}
    [] o.kind = "unwrap" -> p = None
    [] o.kind = "token"  -> \E x \in {You, Custom, Yours} : p = PayTo(x, o.amount)

LEMMA CodeIsParsed ==
  ASSUME NEW t, CodeOK(t)
  PROVE  Parsed(t.for, ParseTransfer(t.code))
<1> DEFINE o == t.for
           p == ParseTransfer(t.code)
           send == FirstOf("transfer", t.code)
           pay == FirstOf("transferChecked", t.code)
<1>1. p = IF send # None THEN send ELSE pay
  BY DEF ParseTransfer
<1>2. /\ \A to, n : Transfer(to, n).op = "transfer"
      /\ \A w, m : Create(w, m).op = "create"
      /\ \A x, n : PayTo(x, n).op = "transferChecked"
      /\ Close.op = "close"
  BY DEF Transfer, Create, PayTo, Close
<1>3. ASSUME o.kind = "native", t.code = <<Transfer(You, o.amount)>>
      PROVE  Parsed(o, p)
  <2> DEFINE i == Transfer(You, o.amount)
  <2>1. i.op = "transfer"
    BY <1>2
  <2> HIDE DEF i
  <2>2. t.code = <<i>>
    BY <1>3 DEF i
  <2>3. send = i /\ pay = None
    BY <2>1, <2>2, FirstOfOne
  <2> QED BY <1>1, <1>3, <2>3 DEF Parsed, i
<1>4. ASSUME o.kind = "wrap",
             t.code = <<Create(Me, Wrapped), Transfer(Wraps, o.amount)>>
      PROVE  Parsed(o, p)
  <2> DEFINE i == Create(Me, Wrapped)
             j == Transfer(Wraps, o.amount)
  <2>1. i.op = "create" /\ j.op = "transfer"
    BY <1>2
  <2> HIDE DEF i, j
  <2>2. t.code = <<i, j>>
    BY <1>4 DEF i, j
  <2>3. send = j /\ pay = None
    BY <2>1, <2>2, FirstOfTwo
  <2> QED BY <1>1, <1>4, <2>3 DEF Parsed, j
<1>5. ASSUME o.kind = "unwrap", t.code = <<Close>>
      PROVE  Parsed(o, p)
  <2>1. send = None /\ pay = None
    BY <1>2, <1>5, FirstOfOne
  <2> QED BY <1>1, <1>5, <2>1 DEF Parsed
<1>6. ASSUME o.kind = "token", NEW x \in {o.to, Yours},
             \/ t.code = <<PayTo(x, o.amount)>>
             \/ t.code = <<Create(o.to, Token), PayTo(x, o.amount)>>
      PROVE  Parsed(o, p)
  <2> DEFINE i == Create(o.to, Token)
             j == PayTo(x, o.amount)
  <2>1. i.op = "create" /\ j.op = "transferChecked"
    BY <1>2
  <2>2. x \in {You, Custom, Yours}
    BY <1>6, OrderFacts DEF CodeOK
  <2> HIDE DEF i, j
  <2>3. t.code = <<j>> \/ t.code = <<i, j>>
    BY <1>6 DEF i, j
  <2>4. send = None /\ pay = j
    BY <2>1, <2>3, FirstOfOne, FirstOfTwo
  <2> QED BY <1>1, <1>6, <2>2, <2>4 DEF Parsed, j
<1> QED BY <1>3, <1>4, <1>5, <1>6 DEF CodeOK

LEMMA InfoOf ==
  ASSUME TokOK(tok), NEW t, CodeOK(t),
         NEW info \in FetchTxInfo(t), info.from # None
  PROVE  /\ t.for.kind # "unwrap" /\ info.amount = t.for.amount
         /\ t.for.kind = "native" => info.to = You /\ info.mint = None
         /\ t.for.kind = "token" => info.to \in {You, None} /\ info.mint = Token
         /\ t.for.kind = "wrap" => info.to = Wraps /\ info.mint = None
<1> DEFINE o == t.for
           p == ParseTransfer(t.code)
           alt == ToAlt(p)
<1>1. PICK account \in {None} \cup (IF alt \in DOMAIN tok THEN {tok[alt]} ELSE {}) :
        info = [from |-> From(p), to |-> To(p, account),
                mint |-> ContractAddress(p, account), amount |-> Amount(p)]
  BY DEF FetchTxInfo
<1>2. /\ info.from = From(p) /\ info.to = To(p, account)
      /\ info.mint = ContractAddress(p, account) /\ info.amount = Amount(p)
  BY <1>1
<1>3. Parsed(o, p)
  BY CodeIsParsed
<1>4. o.kind \in {"token", "native", "wrap", "unwrap"}
  BY OrderFacts DEF CodeOK
<1>5. p # None
  BY <1>2 DEF From
<1>6. None \notin DOMAIN tok
  <2>1. None # Custom
    BY Distinct
  <2>2. \A w \in Owners, m \in {Token, Wrapped} : Ata(w, m) # None
    BY NamesFacts
  <2> QED BY <2>1, <2>2 DEF TokOK, AccountOK
<1> HIDE DEF p, alt
<1>7. ASSUME NEW to, p = Transfer(to, o.amount)
      PROVE  info.amount = o.amount /\ info.to = to /\ info.mint = None
  <2>1. p.op = "transfer" /\ p.to = to /\ p.amount = o.amount
    BY <1>7 DEF Transfer
  <2>2. alt = None /\ account = None
    BY <1>6, <2>1 DEF alt, ToAlt
  <2> QED BY <1>2, <1>5, <2>1, <2>2 DEF To, ContractAddress, Amount, alt
<1>8. ASSUME NEW x \in {You, Custom, Yours}, p = PayTo(x, o.amount)
      PROVE  info.amount = o.amount /\ info.to \in {You, None} /\ info.mint = Token
  <2>1. p.op = "transferChecked" /\ p.to = x /\ p.amount = o.amount
    BY <1>8 DEF PayTo
  <2>2. alt = x /\ x # None
    BY <1>5, <2>1, Distinct DEF alt, ToAlt
  <2>3. account # None => account.holder = You /\ account.mint = Token
    BY <1>8, <2>2, Recipient
  <2> QED BY <1>2, <1>5, <2>1, <2>2, <2>3 DEF To, ContractAddress, Amount, alt
<1>9. CASE o.kind = "native"
  BY <1>3, <1>5, <1>7, <1>9 DEF Parsed
<1>10. CASE o.kind = "wrap"
  BY <1>3, <1>5, <1>7, <1>10 DEF Parsed
<1>11. CASE o.kind = "token"
  BY <1>3, <1>8, <1>11 DEF Parsed
<1>12. CASE o.kind = "unwrap"
  BY <1>3, <1>5, <1>12 DEF Parsed
<1> QED BY <1>4, <1>9, <1>10, <1>11, <1>12

LEMMA InfoFollows ==
  ASSUME SolanaInv
  PROVE  InfoIsTrue
<1> SUFFICES ASSUME NEW l \in landed, NEW info \in FetchTxInfo(l.tx), l.ok,
                    info.from # None
             PROVE  LET o == l.tx.for
                    IN  /\ o.kind # "unwrap" /\ info.amount = o.amount
                        /\ CASE o.kind = "native" -> info.to = You /\ info.mint = None
                             [] o.kind = "token"  -> info.to \in {You, None} /\ info.mint = Token
                             [] o.kind = "wrap"   -> info.to = Ata(Me, Wrapped)
                                                     /\ info.mint = None
  BY DEF InfoIsTrue
<1>1. CodeOK(l.tx) /\ TokOK(tok)
  BY DEF SolanaInv, ChainOK
<1>2. l.tx.for.kind \in {"token", "native", "wrap", "unwrap"}
  BY <1>1, OrderFacts DEF CodeOK
<1>3. /\ l.tx.for.kind # "unwrap" /\ info.amount = l.tx.for.amount
      /\ l.tx.for.kind = "native" => info.to = You /\ info.mint = None
      /\ l.tx.for.kind = "token" => info.to \in {You, None} /\ info.mint = Token
      /\ l.tx.for.kind = "wrap" => info.to = Wraps /\ info.mint = None
  BY <1>1, InfoOf
<1> QED BY <1>2, <1>3 DEF Wraps

\* What FetchTxInfo reports of a transaction that succeeded is the order, for
\* any amounts: the holder of the account that was paid, or nobody, and the
\* amount and the mint of the transfer.
THEOREM InfoStaysTrue == Spec => []InfoIsTrue
<1>1. Init => SolanaInv
  BY SolanaInit
<1>2. SolanaInv /\ [Next]_vars => SolanaInv'
  BY SolanaStep
<1>3. SolanaInv => InfoIsTrue
  BY InfoFollows
<1> QED BY <1>1, <1>2, <1>3, PTL DEF Spec

-----------------------------------------------------------------------------
\* What was built on answers that still hold is executed.
LEMMA FreshRuns ==
  ASSUME SolanaInv, pc = "send", fresh,
         Affordable(order), Expected(order)
  PROVE  Runs(tx.code)
<1> DEFINE o == order
           code == tx.code
           after == After(code)
<1>1. /\ SolOK(sol) /\ TokOK(tok) /\ o \in Orders /\ InputOK
      /\ code = Code(o)
  BY DEF SolanaInv, ChainOK, ProgramOK
<1>2. /\ o.kind \in {"token", "native", "wrap", "unwrap"}
      /\ o.kind = "native" => o.to = You
      /\ o.kind = "token" => o.to \in {You, Custom, Yours}
  BY <1>1, OrderFacts
<1>3. Sol(sol, Me) = sol[Me]
  BY <1>1 DEF SolOK, Sol
<1> SUFFICES after.ok
  BY DEF Runs
<1>4. CASE o.kind = "native"
  <2> DEFINE u == With(With(sol, You, Sol(sol, You) + o.amount), Me, sol[Me] - o.amount)
  <2>1. code = <<Transfer(You, o.amount)>>
    BY <1>1, <1>2, <1>4 DEF Code
  <2>2. after = IF Sol(sol, Me) >= o.amount THEN State(u, tok) ELSE Refused(sol, tok)
    BY <2>1, AfterOne, TransferDoes
  <2>3. Sol(sol, Me) >= o.amount
    BY <1>3, <1>4 DEF Affordable
  <2> HIDE DEF u, after
  <2>4. after = State(u, tok)
    BY <2>2, <2>3
  <2> QED BY <2>4, StateFields
<1>5. CASE o.kind = "wrap"
  <2> DEFINE v == With(tok, Wraps, Account(Me, Wrapped, 0))
             u == With(With(sol, Wraps, Sol(sol, Wraps) + o.amount), Me, sol[Me] - o.amount)
             first == Instruction(State(sol, tok), Create(Me, Wrapped))
  <2>1. code = <<Create(Me, Wrapped), Transfer(Wraps, o.amount)>>
    BY <1>1, <1>5 DEF Code, BuildWrapTx, Wraps
  <2>2. after = Instruction(first, Transfer(Wraps, o.amount))
    BY <2>1, AfterTwo
  <2>3. first = IF Wraps \notin DOMAIN tok THEN State(sol, v) ELSE Refused(sol, tok)
    BY CreateDoes DEF Wraps
  <2>4. Wraps \notin DOMAIN tok
    BY <1>5 DEF Expected, Wraps
  <2>5. Sol(sol, Me) >= o.amount
    BY <1>3, <1>5 DEF Affordable
  <2> HIDE DEF u, v, first, after
  <2>6. first = State(sol, v)
    BY <2>3, <2>4
  <2>7. after = IF Sol(sol, Me) >= o.amount THEN State(u, v) ELSE Refused(sol, v)
    BY <2>2, <2>6, TransferDoes DEF u
  <2>8. after = State(u, v)
    BY <2>5, <2>7
  <2> QED BY <2>8, StateFields
<1>6. CASE o.kind = "unwrap"
  <2> DEFINE u == With(With(sol, Me, sol[Me] + Sol(sol, Wraps)), Wraps, 0)
             v == [a \in DOMAIN tok \ {Wraps} |-> tok[a]]
  <2>1. code = <<Close>>
    BY <1>1, <1>6 DEF Code, BuildUnwrapEverythingTx, Close, Wraps
  <2>2. after = IF Wraps \in DOMAIN tok THEN State(u, v) ELSE Refused(sol, tok)
    BY <2>1, AfterOne, CloseDoes
  <2>3. Wraps \in DOMAIN tok
    BY <1>6 DEF Expected, Wraps
  <2> HIDE DEF u, v, after
  <2>4. after = State(u, v)
    BY <2>2, <2>3
  <2> QED BY <2>4, StateFields
<1>7. CASE o.kind = "token"
  <2> DEFINE x == AtaTo(o)
             pay == PayTo(x, o.amount)
             create == Create(o.to, Token)
             n == o.amount
  <2>1. /\ input.toIsATA <=> ~Exists(o.to) \/ o.to \in DOMAIN tok
        /\ input.shouldCreateATA <=> ~Exists(x)
    BY <1>1, <1>7 DEF InputOK
  <2>2. x = IF input.toIsATA THEN o.to ELSE Ata(o.to, Token)
    BY <1>7 DEF AtaTo, Contract
  <2>3. code = (IF input.shouldCreateATA THEN <<create>> ELSE << >>) \o <<pay>>
    BY <1>1, <1>7 DEF Code, NewTokenTransfer, PayTo, Mine
  <2>4. tok[Mine].amount >= n /\ Exists(o.to)
    BY <1>7 DEF Affordable, Expected, Mine
  <2>5. DOMAIN sol \subseteq {Me, You, Wraps}
    BY <1>1 DEF SolOK
  <2>6. ASSUME NEW B, NEW r, TokOK(B), x \in DOMAIN B, x \in {You, Custom, Yours},
               B[Mine].amount >= n, r = Instruction(State(sol, B), pay)
        PROVE  r.ok
    <3>1. B[x].mint = Token /\ x # Mine
      BY <2>6, Recipient
    <3>2. r = IF x \in DOMAIN B /\ B[x].mint = Token /\ B[Mine].amount >= n
              THEN State(sol, Sent(B, x, n)) ELSE Refused(sol, B)
      BY <2>6, <3>1, PayDoes
    <3>3. r = State(sol, Sent(B, x, n))
      BY ONLY <2>6, <3>1, <3>2
    <3> QED BY ONLY <3>3, Zenon DEF State
  <2>7. CASE o.to \in DOMAIN tok
    <3>1. x = o.to /\ x \in DOMAIN tok /\ Exists(x)
      BY <2>1, <2>2, <2>7 DEF Exists
    <3>2. ~input.shouldCreateATA
      BY <2>1, <3>1
    <3> HIDE DEF x, pay, create, after, n
    <3>3. code = <<pay>>
      BY <2>3, <3>2, Joined
    <3>4. after = Instruction(State(sol, tok), pay)
      BY <3>3, AfterOne DEF after
    <3> QED BY <1>1, <1>2, <1>7, <2>4, <2>6, <3>1, <3>4
  <2>8. CASE o.to \notin DOMAIN tok
    <3>1. ~input.toIsATA
      BY <2>1, <2>4, <2>8
    <3>2. o.to \in DOMAIN sol
      BY <2>4, <2>8 DEF Exists, Sol
    <3>3. o.to = You
      BY <1>2, <1>7, <2>5, <3>2, Distinct
    <3>4. x = Yours /\ Ata(o.to, Token) = Yours
      BY <2>2, <3>1, <3>3 DEF Yours
    <3>5. Exists(x) <=> Yours \in DOMAIN tok
      BY <2>5, <3>4, Distinct DEF Exists, Sol
    <3> DEFINE B == With(tok, Yours, Account(You, Token, 0))
               first == Instruction(State(sol, tok), create)
    <3>6. CASE Yours \in DOMAIN tok
      <4>1. ~input.shouldCreateATA
        BY <2>1, <3>5, <3>6
      <4> HIDE DEF x, pay, create, after, n
      <4>2. code = <<pay>>
        BY <2>3, <4>1, Joined
      <4>3. after = Instruction(State(sol, tok), pay)
        BY <4>2, AfterOne DEF after
      <4> QED BY <1>1, <2>4, <2>6, <3>4, <3>6, <4>3
    <3>7. CASE Yours \notin DOMAIN tok
      <4>1. input.shouldCreateATA
        BY <2>1, <3>5, <3>7
      <4>2. first = IF Yours \notin DOMAIN tok THEN State(sol, B) ELSE Refused(sol, tok)
        BY <3>3, CreateDoes DEF Yours
      <4> HIDE DEF x, pay, create, after, n, B, first
      <4>3. code = <<create, pay>>
        BY <2>3, <4>1, Joined
      <4>4. after = Instruction(State(sol, B), pay)
        <5>1. after = Instruction(first, pay)
          BY <4>3, AfterTwo DEF after, first
        <5> QED BY <5>1, <4>2, <3>7
      <4>5. TokOK(B)
        <5>1. Yours = Ata(You, Token) /\ You \in Owners /\ Token \in {Token, Wrapped}
          BY DEF Yours, Owners
        <5>2. B = With(tok, Yours, Account(You, Token, 0))
          BY DEF B
        <5> QED BY ONLY <1>1, <3>7, <5>1, <5>2, AccountOpened
      <4>6. Mine \in DOMAIN tok /\ Mine # Yours
        BY <1>1, Distinct DEF TokOK
      <4>7. Yours \in DOMAIN B /\ B[Mine] = tok[Mine]
        BY <4>6 DEF B, With
      <4> QED BY <2>4, <2>6, <3>4, <4>4, <4>5, <4>7
    <3> QED BY <3>6, <3>7
  <2> QED BY <2>7, <2>8
<1> QED BY <1>2, <1>4, <1>5, <1>6, <1>7

\* A transfer that was built on answers that still hold is executed when it is
\* submitted in time, for any amounts: creating the account or not is what it takes.
THEOREM FreshTransfersAreRun == Spec => []FreshTransfersRun
<1>1. Init => SolanaInv
  BY SolanaInit
<1>2. SolanaInv /\ [Next]_vars => SolanaInv'
  BY SolanaStep
<1>3. SolanaInv => FreshTransfersRun
  BY FreshRuns DEF FreshTransfersRun
<1> QED BY <1>1, <1>2, <1>3, PTL DEF Spec
=============================================================================
