--------------------------- MODULE SolanaTransfer ---------------------------
(***************************************************************************)
(* Transfers on Solana (chain/solana): FetchTxInput asks for a blockhash   *)
(* and, for tokens, whether the recipient is a wallet or a token account   *)
(* and whether that account exists.  The transfer is built on the answers, *)
(* signed and submitted, while the accounts change and the blockhash ages; *)
(* FetchTxInfo reads back what was executed.                               *)
(***************************************************************************)
EXTENDS Integers, Sequences, FiniteSetsExt, Functions

CONSTANTS
  Me, You,   \* the wallet that pays and the one that is paid
  Custom,    \* a token account of You that is not the associated one
  Token,     \* the mint that is transferred
  Wrapped,   \* the mint of wrapped SOL
  Amounts,   \* the amounts that are ordered
  Life,      \* blocks for which a blockhash is valid
  MaxHeight, \* bound: blocks
  MaxOrders, \* bound: transfers
  None

ASSUME AmountsAssumption == Amounts \subseteq Nat \ {0}
ASSUME BoundsAssumption == Life \in Nat /\ MaxHeight \in Nat /\ MaxOrders \in Nat

\* FindAssociatedTokenAddress
Ata(owner, mint) == <<owner, mint>>

\* What is called differently is different, and the address of an associated
\* account is nobody's wallet (it is not on the curve).
ASSUME NamesAssumption ==
  LET wallets == {Me, You, Custom, None}
      associated == { Ata(o, m) : o \in {Me, You, Custom, Ata(You, Token)}, m \in {Token, Wrapped} }
  IN  /\ Me # You /\ Custom \notin {Me, You} /\ None \notin {Me, You, Custom}
      /\ Token # Wrapped /\ None \notin {Token, Wrapped}
      /\ wallets \cap associated = {}

\* Lamports are sent to wallets, tokens also to token accounts.
Orders ==
  [kind : {"token"}, to : {You, Custom, Ata(You, Token)}, amount : Amounts]
    \cup [kind : {"native"}, to : {You}, amount : Amounts]
    \cup [kind : {"wrap", "unwrap"}, to : {Me}, amount : Amounts]

VARIABLES
  sol,      \* the chain: lamports of the addresses that have any
  tok,      \* the chain: token accounts, [holder, mint, amount] by address
  height,   \* the chain: blocks so far
  pool,     \* the chain: transactions it has accepted
  landed,   \* the chain: transactions it has executed, [tx, ok]
  pc, order,\* what the program is doing, and for which transfer
  input,    \* TxInput
  tx,       \* Tx, with the order it is for
  orders,   \* history: transfers ordered
  fresh     \* history: nothing changed and no answer was lost since FetchTxInput

vars == <<sol, tok, height, pool, landed, pc, order, input, tx, orders, fresh>>
chain == <<sol, tok, height, pool, landed>>
program == <<pc, order, input, tx, orders>>

NoInput == [hash |-> 0, toIsATA |-> FALSE, shouldCreateATA |-> FALSE]

Account(w, m, n) == [holder |-> w, mint |-> m, amount |-> n]
With(f, a, v) == [x \in DOMAIN f \cup {a} |-> IF x = a THEN v ELSE f[x]]

Init ==
  /\ sol \in { [a \in {Me} |-> 3], [a \in {Me, You} |-> IF a = Me THEN 3 ELSE 1] }
  /\ \E more \in SUBSET {Ata(You, Token), Ata(Me, Wrapped)} :
       tok = [a \in {Ata(Me, Token), Custom} \cup more |->
                IF a = Custom THEN Account(You, Token, 0)
                ELSE Account(a[1], a[2], IF a = Ata(Me, Token) THEN 2 ELSE 0)]
  /\ height = 0 /\ pool = {} /\ landed = {}
  /\ pc = "idle" /\ order = None /\ input = NoInput /\ tx = None
  /\ orders = 0 /\ fresh = FALSE
-----------------------------------------------------------------------------
(* What the chain does with a transaction *)

Sol(s, a) == IF a \in DOMAIN s THEN s[a] ELSE 0
Exists(a) == a \in DOMAIN tok \/ Sol(sol, a) > 0
Valid(hash) == height <= hash + Life

\* What an instruction needs of a state, and what it makes of it.
Can(s, i) ==
  CASE i.op = "create" -> Ata(i.owner, i.mint) \notin DOMAIN s.tok
    [] i.op = "transferChecked" ->
         /\ {i.from, i.to} \subseteq DOMAIN s.tok
         /\ s.tok[i.from].mint = s.tok[i.to].mint /\ s.tok[i.from].amount >= i.amount
    [] i.op = "transfer" -> Sol(s.sol, i.from) >= i.amount
    [] i.op = "close" -> i.account \in DOMAIN s.tok

Moved(t, i) == [t EXCEPT ![i.from].amount = @ - i.amount, ![i.to].amount = @ + i.amount]

Do(s, i) ==
  CASE i.op = "create" ->
         [s EXCEPT !.tok = With(@, Ata(i.owner, i.mint), Account(i.owner, i.mint, 0))]
    [] i.op = "transferChecked" ->
         [s EXCEPT !.tok = Moved(@, i)]
    [] i.op = "transfer" ->
         [s EXCEPT !.sol = With(With(@, i.to, Sol(@, i.to) + i.amount),
                                i.from, @[i.from] - i.amount)]
    [] i.op = "close" ->
         [s EXCEPT !.sol = With(With(@, Me, @[Me] + Sol(@, i.account)), i.account, 0),
                   !.tok = [a \in DOMAIN @ \ {i.account} |-> @[a]]]

Instruction(s, i) == IF s.ok /\ Can(s, i) THEN Do(s, i) ELSE [s EXCEPT !.ok = FALSE]

\* All instructions of a transaction are executed, or none.
After(code) ==
  LET first == Instruction([ok |-> TRUE, sol |-> sol, tok |-> tok], code[1])
  IN  IF Len(code) = 1 THEN first ELSE Instruction(first, code[2])
Runs(code) == After(code).ok

Same(t, u) == t.hash = u.hash /\ t.code = u.code

Land ==
  /\ \E t \in pool :
       /\ pool' = pool \ {t}
       /\ IF Valid(t.hash)
          THEN /\ landed' = landed \cup {[tx |-> t, ok |-> Runs(t.code)]}
               /\ IF Runs(t.code)
                  THEN sol' = After(t.code).sol /\ tok' = After(t.code).tok
                  ELSE UNCHANGED <<sol, tok>>
               /\ fresh' = FALSE
          ELSE UNCHANGED <<landed, sol, tok, fresh>>
  /\ UNCHANGED <<height, program>>

Block ==
  /\ height < MaxHeight /\ height' = height + 1
  /\ UNCHANGED <<sol, tok, pool, landed, program, fresh>>

\* Other transactions: You is funded, an account is created, closed or spent.
OtherTx ==
  /\ \/ sol' = With(sol, You, 1) /\ Sol(sol, You) = 0 /\ UNCHANGED tok
     \/ /\ \E w \in {<<You, Token>>, <<Me, Wrapped>>} :
             LET a == Ata(w[1], w[2])
             IN  \/ /\ a \notin DOMAIN tok
                    /\ tok' = With(tok, a, Account(w[1], w[2], 0))
                 \/ /\ a \in DOMAIN tok /\ tok[a].amount = 0 /\ Sol(sol, a) = 0
                    /\ tok' = [b \in DOMAIN tok \ {a} |-> tok[b]]
        /\ UNCHANGED sol
     \/ /\ tok[Ata(Me, Token)].amount > 0
        /\ tok' = [tok EXCEPT ![Ata(Me, Token)].amount = @ - 1]
        /\ UNCHANGED sol
  /\ fresh' = FALSE
  /\ UNCHANGED <<height, pool, landed, program>>
-----------------------------------------------------------------------------
(* FetchTxInput *)

\* The contract whose accounts FetchTxInput asks for; none for the chain's own
\* asset, which is what a task that wraps has for its source.
Contract(o) == CASE o.kind = "token" -> Token [] o.kind = "unwrap" -> Wrapped [] OTHER -> None

\* A blockhash that cannot be had ends FetchTxInput before anything happens.
FetchBlockhash ==
  /\ pc = "idle" /\ orders < MaxOrders
  /\ orders' = orders + 1
  /\ order' \in Orders
  /\ input' = [NoInput EXCEPT !.hash = height]
  /\ pc' = IF Contract(order') = None THEN "build" ELSE "to"
  /\ fresh' = TRUE
  /\ UNCHANGED <<chain, tx>>

\* GetAccountInfo, which fails for an address without an account, and whenever
\* the request or its answer is lost.
GetAccountInfo(a, answered) == answered \in {Exists(a), FALSE} /\ fresh' = (fresh /\ answered = Exists(a))

\* Mutant: a recipient that cannot be looked up is taken for a wallet.
FetchToWallet ==
  /\ pc = "to"
  /\ \E answered \in BOOLEAN :
       /\ GetAccountInfo(order.to, answered)
       /\ input' = [input EXCEPT !.toIsATA = answered /\ order.to \in DOMAIN tok]
  /\ pc' = "ata"
  /\ UNCHANGED <<chain, order, tx, orders>>

\* A recipient is a wallet if the system program owns it.
FetchTo ==
  /\ pc = "to"
  /\ \E answered \in BOOLEAN :
       /\ GetAccountInfo(order.to, answered)
       /\ input' = [input EXCEPT !.toIsATA = ~answered \/ order.to \in DOMAIN tok]
  /\ pc' = "ata"
  /\ UNCHANGED <<chain, order, tx, orders>>

AtaTo(o) == IF input.toIsATA THEN o.to ELSE Ata(o.to, Contract(o))

\* Mutant: it looks for the account of the recipient as it was given.
FetchAtaOfTo ==
  /\ pc = "ata"
  /\ \E answered \in BOOLEAN :
       /\ GetAccountInfo(order.to, answered)
       /\ input' = [input EXCEPT !.shouldCreateATA = ~answered]
  /\ pc' = "build"
  /\ UNCHANGED <<chain, order, tx, orders>>

FetchAta ==
  /\ pc = "ata"
  /\ \E answered \in BOOLEAN :
       /\ GetAccountInfo(AtaTo(order), answered)
       /\ input' = [input EXCEPT !.shouldCreateATA = ~answered]
  /\ pc' = "build"
  /\ UNCHANGED <<chain, order, tx, orders>>

-----------------------------------------------------------------------------
(* NewTransfer, AddSignatures and SubmitTx *)

Create(owner, mint) == [op |-> "create", owner |-> owner, mint |-> mint]
Transfer(to, n) == [op |-> "transfer", from |-> Me, to |-> to, amount |-> n]

NewTokenTransfer(o) ==
  (IF input.shouldCreateATA THEN << Create(o.to, Token) >> ELSE << >>)
    \o << [op |-> "transferChecked", from |-> Ata(Me, Token), to |-> AtaTo(o),
           amount |-> o.amount] >>

BuildWrapTx(o) == << Create(Me, Wrapped), Transfer(Ata(Me, Wrapped), o.amount) >>

BuildUnwrapEverythingTx == << [op |-> "close", account |-> Ata(Me, Wrapped)] >>

Code(o) ==
  CASE o.kind = "native" -> << Transfer(o.to, o.amount) >>
    [] o.kind = "token"  -> NewTokenTransfer(o)
    [] o.kind = "wrap"   -> BuildWrapTx(o)
    [] o.kind = "unwrap" -> BuildUnwrapEverythingTx

NewTransfer ==
  /\ pc = "build" /\ pc' = "sign"
  /\ tx' = [hash |-> input.hash, code |-> Code(order), for |-> order]
  /\ UNCHANGED <<chain, order, input, orders, fresh>>

\* The program is through with the transfer.
Done == pc' = "idle" /\ order' = None /\ input' = NoInput /\ tx' = None /\ fresh' = FALSE

AddSignatures ==
  /\ pc = "sign"
  /\ \/ pc' = "send" /\ UNCHANGED <<order, input, tx, fresh>>
     \/ Done
  /\ UNCHANGED <<chain, orders>>

\* What sendTransaction answers after its preflight.
Answer(t) ==
  IF ~Valid(t.hash) THEN "blockhash not found"
  ELSE IF \E l \in landed : Same(l.tx, t) THEN "already been processed"
  ELSE IF ~Runs(t.code) THEN "transaction simulation failed"
  ELSE "ok"

CheckError(msg) ==
  CASE msg \in {"eof", "blockhash not found"} -> "NetworkError"
    [] msg = "ok" -> "ok"
    [] OTHER -> "UnknownError"

\* The request is lost, or it arrives and its answer may be lost.  The program
\* submits again after a network error, or gives up.
SubmitTx ==
  /\ pc = "send"
  /\ \E arrived, answered \in BOOLEAN :
       /\ pool' = IF arrived /\ Answer(tx) = "ok" /\ ~\E t \in pool : Same(t, tx)
                  THEN pool \cup {tx} ELSE pool
       /\ \/ /\ CheckError(IF arrived /\ answered THEN Answer(tx) ELSE "eof") = "NetworkError"
             /\ UNCHANGED <<pc, order, input, tx, fresh>>
          \/ Done
  /\ UNCHANGED <<sol, tok, height, landed, orders>>
-----------------------------------------------------------------------------
(* FetchTxInfo *)

\* The first instruction of a kind: getSystemTransfer, getTokenTransferChecked.
FirstOf(op, code) ==
  LET those == { k \in DOMAIN code : code[k].op = op }
  IN  IF those = {} THEN None ELSE code[Min(those)]

ParseTransfer(code) ==
  IF FirstOf("transfer", code) # None THEN FirstOf("transfer", code)
  ELSE FirstOf("transferChecked", code)

From(parsed) == IF parsed = None THEN None ELSE Me

\* Mutant: the recipient of tokens is the account that has them.
ToOfAccount(parsed, account) == IF parsed = None THEN None ELSE parsed.to

\* The holder of a token account, if it could be read.
To(parsed, account) ==
  IF account # None THEN account.holder
  ELSE IF parsed # None /\ parsed.op = "transfer" THEN parsed.to
  ELSE None

ToAlt(parsed) == IF parsed = None \/ parsed.op = "transfer" THEN None ELSE parsed.to

Amount(parsed) == IF parsed = None THEN 0 ELSE parsed.amount

ContractAddress(parsed, account) ==
  IF account # None THEN account.mint ELSE IF ToAlt(parsed) # None THEN Token ELSE None

\* What FetchTxInfo may return of a transaction; reading the account may fail.
FetchTxInfo(t) ==
  LET parsed == ParseTransfer(t.code)
      alt == ToAlt(parsed)
      Info(account) ==
        [from   |-> From(parsed),
         to     |-> To(parsed, account),
         mint   |-> ContractAddress(parsed, account),
         amount |-> Amount(parsed)]
  IN  { Info(account) :
          account \in {None} \cup (IF alt \in DOMAIN tok THEN {tok[alt]} ELSE {}) }

Next ==
  \/ FetchBlockhash \/ FetchTo \/ FetchAta \/ NewTransfer
  \/ AddSignatures \/ SubmitTx \/ Land \/ Block \/ OtherTx

Spec == Init /\ [][Next]_vars
-----------------------------------------------------------------------------
Holding(t, w) ==
  SumFunctionOnSet([a \in DOMAIN t |-> t[a].amount],
                   { a \in DOMAIN t : t[a].holder = w /\ t[a].mint = Token })

Paid(o) ==
  CASE o.kind = "native" -> /\ Sol(sol', You) = Sol(sol, You) + o.amount
                            /\ sol'[Me] = sol[Me] - o.amount
    [] o.kind = "token"  -> /\ Holding(tok', You) = Holding(tok, You) + o.amount
                            /\ Holding(tok', Me) = Holding(tok, Me) - o.amount
    [] o.kind = "wrap"   -> /\ Sol(sol', Ata(Me, Wrapped)) = Sol(sol, Ata(Me, Wrapped)) + o.amount
                            /\ sol'[Me] = sol[Me] - o.amount
    [] o.kind = "unwrap" -> sol'[Me] = sol[Me] + Sol(sol, Ata(Me, Wrapped))

\* A transaction that is executed pays the recipient of the order what was
\* ordered, whether it was given as a wallet or as a token account, whichever
\* requests of FetchTxInput were lost and whatever happened to the accounts
\* since: answers that are wrong or stale may have it refused, never misdirected.
PaidAsOrdered ==
  [][\A l \in landed' \ landed : l.ok => Paid(l.tx.for)]_vars

Affordable(o) ==
  CASE o.kind \in {"native", "wrap"} -> sol[Me] >= o.amount
    [] o.kind = "token" -> tok[Ata(Me, Token)].amount >= o.amount
    [] OTHER -> TRUE

\* What the code counts on: a recipient of tokens has an account of some kind,
\* SOL is wrapped by a wallet without wrapped SOL and unwrapped by one with it.
Expected(o) ==
  CASE o.kind = "token"  -> Exists(o.to)
    [] o.kind = "wrap"   -> Ata(Me, Wrapped) \notin DOMAIN tok
    [] o.kind = "unwrap" -> Ata(Me, Wrapped) \in DOMAIN tok
    [] OTHER -> TRUE

\* What was built on answers that still hold is executed when it is submitted
\* in time: creating the recipient's account, or not, is what it takes.
FreshTransfersRun ==
  pc = "send" /\ fresh /\ Valid(tx.hash) /\ Affordable(order) /\ Expected(order) =>
    Runs(tx.code)

\* Of a transaction that succeeded FetchTxInfo reports the order: the holder of
\* the account that was paid, or nobody if the account cannot be read, and the
\* amount and the mint of the transfer, not of the instruction before it.
InfoIsTrue ==
  \A l \in landed : \A info \in FetchTxInfo(l.tx) :
    l.ok /\ info.from # None =>
      LET o == l.tx.for
      IN  /\ o.kind # "unwrap" /\ info.amount = o.amount
          /\ CASE o.kind = "native" -> info.to = You /\ info.mint = None
               [] o.kind = "token"  -> info.to \in {You, None} /\ info.mint = Token
               [] o.kind = "wrap"   -> info.to = Ata(Me, Wrapped) /\ info.mint = None
=============================================================================
