-------------------------- MODULE ClientProofs --------------------------
(***************************************************************************)
(* Theorems about what several callers share: the TxBuilder of an account  *)
(* on a Cosmos chain (CosmosTransfer), the client that FetchTxInfo is      *)
(* called on (TxInfo), and the dashboard's service (Dashboard). No theorem *)
(* is about two of them.                                                   *)
(***************************************************************************)
EXTENDS CosmosTransfer, TxInfo, Dashboard, Facts
-----------------------------------------------------------------------------
(* Transfers of one account. A caller that drops a Tx before it builds     *)
(* another has at most one Tx under way, the last one, and the shared      *)
(* builder still holds its content, whatever failed in between. What the   *)
(* node has taken is what was signed for some Tx, and no two transactions  *)
(* in its pool or in blocks have one sequence number.                      *)

TxOK(t) ==
  /\ txs[t] = [ask |-> txs[t].ask, state |-> txs[t].state, sequence |-> txs[t].sequence,
               sig |-> txs[t].sig, toSign |-> txs[t].toSign]
  /\ txs[t].ask.of = t
  /\ Live(t) => t = Len(txs)
  /\ t = Len(txs) /\ txs[t].state \in {"built", "signed", "submitted"} =>
       /\ txs[t].toSign = shared.content
       /\ shared.content.msg = txs[t].ask
       /\ shared.content.sequence = txs[t].sequence
  /\ t = Len(txs) /\ txs[t].state \in {"signed", "submitted"} =>
       shared.sig.over = shared.content

ContentOK == shared.content = [msg |-> shared.content.msg, gas |-> shared.content.gas,
                               fee |-> shared.content.fee,
                               sequence |-> shared.content.sequence]

TxsInv ==
  /\ IsSeq(txs)
  /\ shared = [content |-> shared.content, sig |-> shared.sig] /\ ContentOK
  /\ \A t \in 1..Len(txs) : TxOK(t)

\* What the node took is what was signed for a Tx, and every success is there.
Linked ==
  /\ \A t \in 1..Len(txs) : txs[t].state = "submitted" =>
       /\ txs[t].toSign.msg = txs[t].ask
       /\ \E k \in 1..Len(broadcast) : broadcast[k].content = txs[t].toSign
  /\ \A k \in 1..Len(broadcast) : \E t \in 1..Len(txs) :
       /\ broadcast[k].content = txs[t].toSign
       /\ broadcast[k].content.msg = txs[t].ask

BroadcastOK(k) ==
  /\ broadcast[k] = [content |-> broadcast[k].content, fate |-> broadcast[k].fate]
  /\ broadcast[k].fate \in {"pool", "executed", "failed", "dropped"}
  /\ broadcast[k].content.sequence \in Int
  /\ broadcast[k].fate = "pool" =>
       /\ sequence <= broadcast[k].content.sequence
       /\ broadcast[k].content.sequence < checkSequence
  /\ broadcast[k].fate \in {"executed", "failed"} =>
       broadcast[k].content.sequence < sequence

NumbersDiffer(j, k) ==
  /\ broadcast[j].fate # "dropped" /\ broadcast[k].fate # "dropped"
  /\ broadcast[j].content.sequence = broadcast[k].content.sequence
  => j = k

NodeInv ==
  /\ IsSeq(broadcast)
  /\ sequence \in Int /\ checkSequence \in Int /\ sequence <= checkSequence
  /\ \A k \in 1..Len(broadcast) : BroadcastOK(k)
  /\ \A j, k \in 1..Len(broadcast) : NumbersDiffer(j, k)

AccountInv == TxsInv /\ Linked /\ NodeInv

\* Changing one element of a sequence.
LEMMA ExceptFacts ==
  ASSUME NEW s, IsSeq(s), NEW i \in 1..Len(s), NEW e
  PROVE  /\ IsSeq([s EXCEPT ![i] = e]) /\ Len([s EXCEPT ![i] = e]) = Len(s)
         /\ Len(s) \in Nat /\ [s EXCEPT ![i] = e][i] = e
         /\ \A k \in 1..Len(s) \ {i} : [s EXCEPT ![i] = e][k] = s[k]
<1> DEFINE T == { s[k] : k \in 1..Len(s) } \cup {e}
           t == [s EXCEPT ![i] = e]
<1>1. s \in Seq(T) /\ e \in T /\ Len(s) \in Nat
  BY SeqOfItsElements DEF IsSeq
<1> HIDE DEF T
<1>2. t \in Seq(T) /\ Len(t) = Len(s) /\ t[i] = e /\ \A k \in 1..Len(s) \ {i} : t[k] = s[k]
  BY <1>1
<1>3. IsSeq(t)
  BY <1>2, SeqIsSeq
<1> QED BY <1>1, <1>2, <1>3

LEMMA InitAccount == AccountInit => AccountInv
<1> SUFFICES ASSUME AccountInit PROVE AccountInv
  OBVIOUS
<1>1. /\ txs = <<>> /\ broadcast = <<>> /\ Len(txs) = 0 /\ Len(broadcast) = 0
      /\ sequence = 1 /\ checkSequence = 1
  BY DEF AccountInit
<1>2. IsSeq(txs) /\ IsSeq(broadcast)
  BY <1>1 DEF IsSeq
<1>3. shared = [content |-> shared.content, sig |-> shared.sig] /\ ContentOK
  BY DEF AccountInit, EmptyShared, NoContent, Unsigned, ContentOK
<1>4. TxsInv /\ Linked
  BY <1>1, <1>2, <1>3 DEF TxsInv, Linked
<1>5. NodeInv
  BY <1>1, <1>2 DEF NodeInv
<1> QED BY <1>4, <1>5 DEF AccountInv

\* A Tx that is built, or that could not be.
LEMMA BuildKeeps ==
  ASSUME AccountInv, OneAtATime, MayBuild, UNCHANGED chain,
         NEW e, txs' = Append(txs, e),
         e = [ask |-> e.ask, state |-> e.state, sequence |-> e.sequence, sig |-> e.sig,
              toSign |-> e.toSign],
         e.ask.of = Len(txs) + 1,
         shared' = [content |-> shared'.content, sig |-> shared'.sig], ContentOK',
         \/ e.state = "failed"
         \/ /\ e.state = "built" /\ e.toSign = shared'.content
            /\ e.toSign.msg = e.ask /\ e.toSign.sequence = e.sequence
  PROVE  AccountInv'
<1>1. /\ IsSeq(txs') /\ Len(txs') = Len(txs) + 1 /\ Len(txs) \in Nat
      /\ txs'[Len(txs) + 1] = e /\ \A t \in 1..Len(txs) : txs'[t] = txs[t]
  BY AppendFacts DEF AccountInv, TxsInv, IsSeq
<1>2. ASSUME NEW t \in 1..Len(txs) PROVE TxOK(t)'
  <2>1. TxOK(t) /\ txs'[t] = txs[t] /\ ~Live(t) /\ t # Len(txs')
    BY <1>1 DEF AccountInv, TxsInv, MayBuild
  <2> QED BY <2>1 DEF TxOK, Live
<1>3. ASSUME NEW t, t = Len(txs) + 1 PROVE TxOK(t)'
  <2>1. txs'[t] = e /\ t = Len(txs') /\ e.ask.of = t
    BY <1>1, <1>3
  <2> QED BY <2>1 DEF TxOK, Live
<1>4. \A t \in 1..Len(txs') : TxOK(t)'
  BY <1>1, <1>2, <1>3
<1>5. TxsInv'
  BY <1>1, <1>4 DEF TxsInv
<1>6. broadcast' = broadcast /\ NodeInv'
  BY DEF AccountInv, NodeInv, BroadcastOK, NumbersDiffer, chain
<1>7. ASSUME NEW t \in 1..Len(txs'), txs'[t].state = "submitted"
      PROVE  /\ txs'[t].toSign.msg = txs'[t].ask
             /\ \E k \in 1..Len(broadcast') : broadcast'[k].content = txs'[t].toSign
  <2>1. t \in 1..Len(txs) /\ txs'[t] = txs[t]
    BY <1>1, <1>7
  <2> QED BY <1>6, <1>7, <2>1 DEF AccountInv, Linked
<1>8. ASSUME NEW k \in 1..Len(broadcast')
      PROVE  \E t \in 1..Len(txs') : /\ broadcast'[k].content = txs'[t].toSign
                                     /\ broadcast'[k].content.msg = txs'[t].ask
  <2>1. PICK t \in 1..Len(txs) : /\ broadcast[k].content = txs[t].toSign
                                 /\ broadcast[k].content.msg = txs[t].ask
    BY <1>6 DEF AccountInv, Linked
  <2>2. t \in 1..Len(txs') /\ txs'[t] = txs[t]
    BY <1>1
  <2> QED BY <1>6, <2>1, <2>2
<1>9. Linked'
  BY <1>7, <1>8 DEF Linked
<1> QED BY <1>5, <1>6, <1>9 DEF AccountInv

\* A step that changes one Tx only, and has the builder hold what it held.
LEMMA StateKeeps ==
  ASSUME AccountInv, NEW t \in 1..Len(txs), NEW e, txs' = [txs EXCEPT ![t] = e],
         e = [ask |-> txs[t].ask, state |-> e.state, sequence |-> txs[t].sequence,
              sig |-> e.sig, toSign |-> txs[t].toSign],
         shared' = [content |-> shared.content, sig |-> shared'.sig],
         e.state \in {"built", "signed"} => Live(t),
         e.state \in {"signed", "submitted"} /\ t = Len(txs) =>
           /\ txs[t].state \in {"built", "signed", "submitted"}
           /\ shared'.sig.over = shared.content,
         shared' = shared \/ Live(t)
  PROVE  /\ TxsInv' /\ Len(txs') = Len(txs) /\ txs'[t] = e
         /\ \A u \in 1..Len(txs) \ {t} : txs'[u] = txs[u]
<1>1. /\ IsSeq(txs') /\ Len(txs') = Len(txs) /\ Len(txs) \in Nat /\ txs'[t] = e
      /\ \A u \in 1..Len(txs) \ {t} : txs'[u] = txs[u]
  <2> DEFINE s == [txs EXCEPT ![t] = e]
  <2>1. IsSeq(txs)
    BY DEF AccountInv, TxsInv
  <2>2. /\ IsSeq(s) /\ Len(s) = Len(txs) /\ Len(txs) \in Nat /\ s[t] = e
        /\ \A u \in 1..Len(txs) \ {t} : s[u] = txs[u]
    BY ONLY <2>1, t \in 1..Len(txs), ExceptFacts
  <2>3. txs' = s
    OBVIOUS
  <2> HIDE DEF s
  <2> QED BY <2>2, <2>3
<1>2. TxOK(t)
  BY DEF AccountInv, TxsInv
<1>3. TxOK(t)'
  <2>1. e.state \in {"built", "signed", "submitted"} /\ t = Len(txs) =>
          txs[t].state \in {"built", "signed", "submitted"}
    BY DEF Live
  <2> QED BY <1>1, <1>2, <2>1 DEF TxOK, Live
<1>4. ASSUME NEW u \in 1..Len(txs) \ {t} PROVE TxOK(u)'
  <2>1. TxOK(u) /\ txs'[u] = txs[u]
    BY <1>1 DEF AccountInv, TxsInv
  <2>2. shared' = shared \/ u # Len(txs)
    BY <1>2 DEF TxOK
  <2> QED BY <1>1, <2>1, <2>2 DEF TxOK, Live
<1>5. ContentOK'
  BY DEF AccountInv, TxsInv, ContentOK
<1> QED BY <1>1, <1>3, <1>4, <1>5 DEF TxsInv

\* What the caller has and what the node took stay tied when each Tx keeps its
\* ask and its bytes, what was taken keeps its content, and a new success and a
\* new entry are tied.
LEMMA LinksKeep ==
  ASSUME Linked, Len(txs) \in Nat, Len(broadcast) \in Nat,
         Len(txs') = Len(txs), Len(broadcast') \in Nat, Len(broadcast') >= Len(broadcast),
         \A u \in 1..Len(txs) : txs'[u].ask = txs[u].ask /\ txs'[u].toSign = txs[u].toSign,
         \A k \in 1..Len(broadcast) : broadcast'[k].content = broadcast[k].content,
         NEW t \in 1..Len(txs),
         \A u \in 1..Len(txs) \ {t} : txs'[u].state = txs[u].state,
         txs'[t].state = "submitted" =>
           \/ txs[t].state = "submitted"
           \/ Len(broadcast') > Len(broadcast),
         \A k \in 1..Len(broadcast') : k > Len(broadcast) =>
           /\ broadcast'[k].content = txs[t].toSign
           /\ broadcast'[k].content.msg = txs[t].ask
  PROVE  Linked'
<1>1. ASSUME NEW u \in 1..Len(txs'), txs'[u].state = "submitted"
      PROVE  /\ txs'[u].toSign.msg = txs'[u].ask
             /\ \E k \in 1..Len(broadcast') : broadcast'[k].content = txs'[u].toSign
  <2>1. CASE txs[u].state = "submitted"
    <3>1. PICK k \in 1..Len(broadcast) : broadcast[k].content = txs[u].toSign
      BY <2>1 DEF Linked
    <3>2. k \in 1..Len(broadcast') /\ broadcast'[k].content = txs'[u].toSign
      BY <3>1
    <3>3. txs'[u].toSign.msg = txs'[u].ask
      BY <2>1 DEF Linked
    <3> QED BY <3>2, <3>3
  <2>2. CASE txs[u].state # "submitted"
    <3>1. u = t /\ Len(broadcast') > Len(broadcast)
      BY <1>1, <2>2
    <3>2. Len(broadcast') \in 1..Len(broadcast')
      BY <3>1
    <3>3. /\ broadcast'[Len(broadcast')].content = txs[t].toSign
          /\ broadcast'[Len(broadcast')].content.msg = txs[t].ask
      BY <3>1, <3>2
    <3> QED BY <3>1, <3>2, <3>3
  <2> QED BY <2>1, <2>2
<1>2. ASSUME NEW k \in 1..Len(broadcast')
      PROVE  \E u \in 1..Len(txs') : /\ broadcast'[k].content = txs'[u].toSign
                                     /\ broadcast'[k].content.msg = txs'[u].ask
  <2>1. CASE k > Len(broadcast)
    BY <2>1
  <2>2. CASE k <= Len(broadcast)
    <3>1. k \in 1..Len(broadcast)
      BY <2>2
    <3>2. PICK u \in 1..Len(txs) : /\ broadcast[k].content = txs[u].toSign
                                   /\ broadcast[k].content.msg = txs[u].ask
      BY <3>1 DEF Linked
    <3> QED BY <3>1, <3>2
  <2> QED BY <2>1, <2>2
<1> QED BY <1>1, <1>2 DEF Linked

\* A transaction that the node lets pass takes the next number of its pool.
LEMMA AcceptKeeps ==
  ASSUME NodeInv, NEW raw, Accepts(raw), Accept(raw)
  PROVE  /\ NodeInv' /\ Len(broadcast') = Len(broadcast) + 1 /\ Len(broadcast) \in Nat
         /\ broadcast'[Len(broadcast) + 1].content = raw.content
         /\ \A k \in 1..Len(broadcast) : broadcast'[k] = broadcast[k]
<1> DEFINE b == [content |-> raw.content, fate |-> "pool"]
<1>1. b.content = raw.content /\ b.fate = "pool"
      /\ b = [content |-> b.content, fate |-> b.fate]
  OBVIOUS
<1>2. /\ broadcast' = Append(broadcast, b) /\ b.content.sequence = checkSequence
      /\ checkSequence' = checkSequence + 1 /\ sequence' = sequence
  BY DEF Accepts, Accept
<1> HIDE DEF b
<1>3. IsSeq(broadcast) /\ Len(broadcast) \in Nat
  BY DEF NodeInv, IsSeq
<1>4. /\ IsSeq(broadcast') /\ Len(broadcast') = Len(broadcast) + 1
      /\ broadcast'[Len(broadcast) + 1] = b
      /\ \A k \in 1..Len(broadcast) : broadcast'[k] = broadcast[k]
  BY <1>2, <1>3, AppendFacts
<1>5. sequence \in Int /\ checkSequence \in Int /\ sequence <= checkSequence
  BY DEF NodeInv
<1>6. \A k \in 1..Len(broadcast) : BroadcastOK(k) /\ BroadcastOK(k)'
  BY <1>2, <1>4, <1>5 DEF NodeInv, BroadcastOK
<1>7. ASSUME NEW k, k = Len(broadcast) + 1 PROVE BroadcastOK(k)'
  <2>1. broadcast'[k] = b
    BY <1>4, <1>7
  <2> QED BY <1>1, <1>2, <1>5, <2>1 DEF BroadcastOK
<1>8. \A k \in 1..Len(broadcast') : BroadcastOK(k)'
  BY <1>3, <1>4, <1>6, <1>7
<1>9. ASSUME NEW j \in 1..Len(broadcast'), NEW k \in 1..Len(broadcast')
      PROVE  NumbersDiffer(j, k)'
  <2>1. \A i \in 1..Len(broadcast) :
          broadcast[i].fate # "dropped" => broadcast[i].content.sequence < checkSequence
    <3> SUFFICES ASSUME NEW i \in 1..Len(broadcast), broadcast[i].fate # "dropped"
                 PROVE  broadcast[i].content.sequence < checkSequence
      OBVIOUS
    <3>1. BroadcastOK(i)
      BY <1>6
    <3>2. CASE broadcast[i].fate = "pool"
      BY <3>1, <3>2 DEF BroadcastOK
    <3>3. CASE broadcast[i].fate \in {"executed", "failed"}
      BY <1>5, <3>1, <3>3 DEF BroadcastOK
    <3> QED BY <3>1, <3>2, <3>3 DEF BroadcastOK
  <2>2. CASE j \in 1..Len(broadcast) /\ k \in 1..Len(broadcast)
    BY <1>4, <2>2 DEF NodeInv, NumbersDiffer
  <2>3. CASE j \in 1..Len(broadcast) /\ k = Len(broadcast) + 1
    <3>1. /\ broadcast'[j] = broadcast[j] /\ broadcast'[k] = b
          /\ broadcast[j].content.sequence \in Int
      BY <1>4, <1>6, <2>3 DEF BroadcastOK
    <3> QED BY <1>2, <1>5, <2>1, <2>3, <3>1 DEF NumbersDiffer
  <2>4. CASE k \in 1..Len(broadcast) /\ j = Len(broadcast) + 1
    <3>1. /\ broadcast'[k] = broadcast[k] /\ broadcast'[j] = b
          /\ broadcast[k].content.sequence \in Int
      BY <1>4, <1>6, <2>4 DEF BroadcastOK
    <3> QED BY <1>2, <1>5, <2>1, <2>4, <3>1 DEF NumbersDiffer
  <2>5. CASE j = Len(broadcast) + 1 /\ k = Len(broadcast) + 1
    BY <2>5 DEF NumbersDiffer
  <2> QED BY <1>3, <1>4, <2>2, <2>3, <2>4, <2>5
<1>10. NodeInv'
  BY <1>2, <1>4, <1>5, <1>8, <1>9 DEF NodeInv
<1> QED BY <1>1, <1>3, <1>4, <1>10

\* A step of the node or the chain that settles what is in the pool.
LEMMA SettleKeeps ==
  ASSUME AccountInv, UNCHANGED <<shared, txs>>, IsSeq(broadcast'),
         Len(broadcast') = Len(broadcast),
         sequence' \in Int, checkSequence' \in Int, sequence' <= checkSequence',
         sequence' >= sequence,
         \A k \in 1..Len(broadcast) :
           /\ broadcast'[k] = [content |-> broadcast[k].content, fate |-> broadcast'[k].fate]
           /\ broadcast'[k].fate \in {"pool", "executed", "failed", "dropped"}
           /\ broadcast[k].fate # "pool" => broadcast'[k] = broadcast[k]
           /\ broadcast'[k].fate = "pool" =>
                /\ sequence' <= broadcast[k].content.sequence
                /\ broadcast[k].content.sequence < checkSequence'
           /\ broadcast[k].fate = "pool" /\ broadcast'[k].fate \in {"executed", "failed"} =>
                broadcast[k].content.sequence < sequence'
  PROVE  AccountInv'
<1>1. TxsInv'
  BY DEF AccountInv, TxsInv, TxOK, ContentOK, Live
<1>2. ASSUME NEW k \in 1..Len(broadcast)
      PROVE  broadcast'[k].content = broadcast[k].content
  <2> DEFINE f == broadcast'[k].fate
  <2>1. broadcast'[k] = [content |-> broadcast[k].content, fate |-> f]
    OBVIOUS
  <2> HIDE DEF f
  <2> QED BY <2>1
<1>3. Linked'
  <2>1. Linked /\ txs' = txs /\ Len(broadcast') = Len(broadcast)
    BY DEF AccountInv
  <2>2. ASSUME NEW t \in 1..Len(txs), txs[t].state = "submitted"
        PROVE  /\ txs[t].toSign.msg = txs[t].ask
               /\ \E k \in 1..Len(broadcast') : broadcast'[k].content = txs[t].toSign
    <3>1. txs[t].toSign.msg = txs[t].ask
      BY <2>1, <2>2 DEF Linked
    <3>2. PICK k \in 1..Len(broadcast) : broadcast[k].content = txs[t].toSign
      BY <2>1, <2>2 DEF Linked
    <3>3. k \in 1..Len(broadcast') /\ broadcast'[k].content = txs[t].toSign
      BY <1>2, <2>1, <3>2
    <3> QED BY <3>1, <3>3
  <2>3. ASSUME NEW k \in 1..Len(broadcast')
        PROVE  \E t \in 1..Len(txs) : /\ broadcast'[k].content = txs[t].toSign
                                     /\ broadcast'[k].content.msg = txs[t].ask
    <3>1. k \in 1..Len(broadcast) /\ broadcast'[k].content = broadcast[k].content
      BY <1>2, <2>1, <2>3
    <3> QED BY <2>1, <3>1 DEF Linked
  <2> QED BY <2>1, <2>2, <2>3 DEF Linked
<1>4. ASSUME NEW k \in 1..Len(broadcast) PROVE BroadcastOK(k)'
  <2>1. BroadcastOK(k) /\ sequence \in Int
    BY DEF AccountInv, NodeInv
  <2> QED BY <1>2, <2>1 DEF BroadcastOK
<1>5. ASSUME NEW j \in 1..Len(broadcast), NEW k \in 1..Len(broadcast)
      PROVE  NumbersDiffer(j, k)'
  <2>1. NumbersDiffer(j, k)
    BY DEF AccountInv, NodeInv
  <2> QED BY <1>2, <2>1 DEF NumbersDiffer
<1>6. NodeInv'
  BY <1>4, <1>5 DEF NodeInv
<1> QED BY <1>1, <1>3, <1>6 DEF AccountInv

LEMMA NodeKeeps ==
  ASSUME AccountInv,
         \/ \E k \in 1..Len(broadcast) : DeliverTx(k)
         \/ \E n \in sequence..(checkSequence - 1) : Evict(n)
         \/ OtherTx
  PROVE  AccountInv'
<1>1. IsSeq(broadcast) /\ Len(broadcast) \in Nat
  BY DEF AccountInv, NodeInv, IsSeq
<1>2. /\ sequence \in Int /\ checkSequence \in Int /\ sequence <= checkSequence
      /\ \A k \in 1..Len(broadcast) : BroadcastOK(k)
      /\ \A j, k \in 1..Len(broadcast) : NumbersDiffer(j, k)
  BY DEF AccountInv, NodeInv
<1>3. ASSUME NEW k \in 1..Len(broadcast), DeliverTx(k)
      PROVE  AccountInv'
  <2>1. PICK fate \in {"executed", "failed"} :
          broadcast' = [broadcast EXCEPT ![k].fate = fate]
    BY <1>3 DEF DeliverTx
  <2>2. /\ broadcast[k].fate = "pool" /\ broadcast[k].content.sequence = sequence
        /\ sequence' = sequence + 1 /\ UNCHANGED <<checkSequence, shared, txs>>
    BY <1>3 DEF DeliverTx, InPool
  <2> DEFINE b == [content |-> broadcast[k].content, fate |-> fate]
             s == [broadcast EXCEPT ![k] = b]
  <2>3. BroadcastOK(k)
    BY <1>2
  <2>4. broadcast' = s
    <3> DEFINE c == broadcast[k].content
               f == broadcast[k].fate
    <3>1. broadcast[k] = [content |-> c, fate |-> f]
      BY <2>3 DEF BroadcastOK
    <3>2. broadcast' = [broadcast EXCEPT ![k] = [broadcast[k] EXCEPT !.fate = fate]]
      BY <2>1
    <3>3. [[content |-> c, fate |-> f] EXCEPT !.fate = fate] = [content |-> c, fate |-> fate]
      OBVIOUS
    <3> QED BY <3>1, <3>2, <3>3
  <2>5. /\ IsSeq(s) /\ Len(s) = Len(broadcast) /\ s[k] = b
        /\ \A j \in 1..Len(broadcast) \ {k} : s[j] = broadcast[j]
    <3> HIDE DEF b
    <3> QED BY ONLY <1>1, k \in 1..Len(broadcast), ExceptFacts
  <2>6. b.content = broadcast[k].content /\ b.fate = fate
    OBVIOUS
  <2> HIDE DEF s
  <2>7. ASSUME NEW j \in 1..Len(broadcast)
        PROVE  /\ broadcast'[j] = [content |-> broadcast[j].content,
                                   fate |-> broadcast'[j].fate]
               /\ broadcast'[j].fate \in {"pool", "executed", "failed", "dropped"}
               /\ broadcast[j].fate # "pool" => broadcast'[j] = broadcast[j]
               /\ broadcast'[j].fate = "pool" =>
                    /\ sequence' <= broadcast[j].content.sequence
                    /\ broadcast[j].content.sequence < checkSequence'
               /\ broadcast[j].fate = "pool" /\ broadcast'[j].fate \in {"executed", "failed"} =>
                    broadcast[j].content.sequence < sequence'
    <3>1. CASE j = k
      <4>1. broadcast'[j] = b
        BY <2>4, <2>5, <3>1
      <4> QED BY <1>2, <2>2, <2>6, <3>1, <4>1
    <3>2. CASE j # k
      <4>1. broadcast'[j] = broadcast[j] /\ BroadcastOK(j) /\ NumbersDiffer(j, k)
        BY <1>2, <2>4, <2>5, <3>2
      <4>2. broadcast[j].fate = "pool" => broadcast[j].content.sequence # sequence
        BY <2>2, <3>2, <4>1 DEF NumbersDiffer
      <4> QED BY <1>2, <2>2, <4>1, <4>2 DEF BroadcastOK
    <3> QED BY <3>1, <3>2
  <2>8. sequence' <= checkSequence'
    BY <1>2, <2>2, <2>3 DEF BroadcastOK
  <2>9. /\ IsSeq(broadcast') /\ Len(broadcast') = Len(broadcast)
        /\ sequence' \in Int /\ checkSequence' \in Int /\ sequence' >= sequence
    BY <1>2, <2>2, <2>4, <2>5
  <2> HIDE DEF b
  <2> QED BY <2>2, <2>7, <2>8, <2>9, SettleKeeps
<1>4. ASSUME NEW n \in sequence..(checkSequence - 1), Evict(n)
      PROVE  AccountInv'
  <2> DEFINE R(k) == IF broadcast[k].fate = "pool" /\ broadcast[k].content.sequence >= n
                     THEN [broadcast[k] EXCEPT !.fate = "dropped"] ELSE broadcast[k]
             s == [k \in 1..Len(broadcast) |-> R(k)]
  <2>1. /\ broadcast' = s /\ checkSequence' = n
        /\ UNCHANGED <<sequence, shared, txs>>
    BY <1>4 DEF Evict
  <2>2. IsSeq(s) /\ Len(s) = Len(broadcast)
        /\ \A k \in 1..Len(broadcast) : s[k] = R(k)
    <3> HIDE DEF R
    <3>1. Len(s) = Len(broadcast) /\ \A k \in 1..Len(broadcast) : s[k] = R(k)
      BY <1>1
    <3> QED BY <1>1, <3>1 DEF IsSeq
  <2>3. ASSUME NEW j \in 1..Len(broadcast)
        PROVE  /\ R(j) = [content |-> broadcast[j].content, fate |-> R(j).fate]
               /\ R(j).fate \in {"pool", "executed", "failed", "dropped"}
               /\ broadcast[j].fate # "pool" => R(j) = broadcast[j]
               /\ R(j).fate = "pool" =>
                    /\ sequence <= broadcast[j].content.sequence
                    /\ broadcast[j].content.sequence < n
               /\ broadcast[j].fate = "pool" => R(j).fate \in {"pool", "dropped"}
    <3>1. BroadcastOK(j)
      BY <1>2
    <3>2. CASE broadcast[j].fate = "pool" /\ broadcast[j].content.sequence >= n
      <4>1. R(j) = [content |-> broadcast[j].content, fate |-> "dropped"]
        BY <3>1, <3>2 DEF BroadcastOK
      <4> HIDE DEF R
      <4> QED BY <3>2, <4>1
    <3>3. CASE ~(broadcast[j].fate = "pool" /\ broadcast[j].content.sequence >= n)
      <4>1. R(j) = broadcast[j]
        BY <3>3
      <4> HIDE DEF R
      <4> QED BY <1>2, <3>1, <3>3, <4>1 DEF BroadcastOK
    <3> QED BY <3>2, <3>3
  <2> HIDE DEF R, s
  <2>4. \A j \in 1..Len(broadcast) : broadcast'[j] = R(j)
    BY <2>1, <2>2
  <2>5. /\ IsSeq(broadcast') /\ Len(broadcast') = Len(broadcast)
        /\ sequence' \in Int /\ checkSequence' \in Int /\ sequence' >= sequence
        /\ sequence' <= checkSequence'
    BY <1>2, <2>1, <2>2
  <2> QED BY <2>1, <2>3, <2>4, <2>5, SettleKeeps
<1>5. CASE OtherTx
  <2> DEFINE R(k) == IF InPool(k, sequence)
                     THEN [broadcast[k] EXCEPT !.fate = "dropped"] ELSE broadcast[k]
             s == [k \in 1..Len(broadcast) |-> R(k)]
  <2>1. /\ broadcast' = s /\ sequence' = sequence + 1
        /\ checkSequence' = IF checkSequence = sequence THEN sequence + 1 ELSE checkSequence
        /\ UNCHANGED <<shared, txs>>
    BY <1>5 DEF OtherTx
  <2>2. IsSeq(s) /\ Len(s) = Len(broadcast)
        /\ \A k \in 1..Len(broadcast) : s[k] = R(k)
    <3> HIDE DEF R
    <3>1. Len(s) = Len(broadcast) /\ \A k \in 1..Len(broadcast) : s[k] = R(k)
      BY <1>1
    <3> QED BY <1>1, <3>1 DEF IsSeq
  <2>3. ASSUME NEW j \in 1..Len(broadcast)
        PROVE  /\ R(j) = [content |-> broadcast[j].content, fate |-> R(j).fate]
               /\ R(j).fate \in {"pool", "executed", "failed", "dropped"}
               /\ broadcast[j].fate # "pool" => R(j) = broadcast[j]
               /\ R(j).fate = "pool" =>
                    /\ sequence + 1 <= broadcast[j].content.sequence
                    /\ broadcast[j].content.sequence < checkSequence
               /\ broadcast[j].fate = "pool" => R(j).fate \in {"pool", "dropped"}
    <3>1. BroadcastOK(j)
      BY <1>2
    <3>2. CASE InPool(j, sequence)
      <4>1. R(j) = [content |-> broadcast[j].content, fate |-> "dropped"]
        BY <3>1, <3>2 DEF BroadcastOK
      <4> HIDE DEF R
      <4> QED BY <3>2, <4>1 DEF InPool
    <3>3. CASE ~InPool(j, sequence)
      <4>1. R(j) = broadcast[j]
        BY <3>3
      <4> HIDE DEF R
      <4> QED BY <1>2, <3>1, <3>3, <4>1 DEF BroadcastOK, InPool
    <3> QED BY <3>2, <3>3
  <2> HIDE DEF R, s
  <2>4. \A j \in 1..Len(broadcast) : broadcast'[j] = R(j)
    BY <2>1, <2>2
  <2>5. /\ IsSeq(broadcast') /\ Len(broadcast') = Len(broadcast)
        /\ sequence' \in Int /\ checkSequence' \in Int /\ sequence' >= sequence
        /\ sequence' <= checkSequence' /\ checkSequence' >= checkSequence
    BY <1>2, <2>1, <2>2
  <2>6. \A j \in 1..Len(broadcast) : broadcast[j].content.sequence \in Int
    BY <1>2 DEF BroadcastOK
  <2> QED BY <1>2, <2>1, <2>3, <2>4, <2>5, <2>6, SettleKeeps
<1> QED BY <1>3, <1>4, <1>5

LEMMA AccountStep ==
  ASSUME OneAtATime, AccountInv, [AccountNext]_accountVars
  PROVE  AccountInv'
<1>1. CASE UNCHANGED <<shared, txs, chain>>
  <2>1. TxsInv'
    BY <1>1 DEF AccountInv, TxsInv, TxOK, ContentOK, Live
  <2>2. Linked'
    BY <1>1 DEF AccountInv, Linked, chain
  <2>3. NodeInv'
    BY <1>1 DEF AccountInv, NodeInv, BroadcastOK, NumbersDiffer, chain
  <2> QED BY <2>1, <2>2, <2>3 DEF AccountInv
<1>2. CASE FetchTxInput \/ UNCHANGED accountVars
  BY <1>1, <1>2 DEF FetchTxInput, accountVars, chain
<1>3. ASSUME NEW to \in Recipients, NewTransfer(to)
      PROVE  AccountInv'
  <2> DEFINE c == Content(to)
             e == [ask |-> Ask(to), state |-> "built", sequence |-> input.sequence,
                   sig |-> Unsigned, toSign |-> c]
  <2>1. /\ MayBuild /\ txs' = Append(txs, e) /\ UNCHANGED chain
        /\ shared' = [content |-> c, sig |-> Unsigned]
    BY <1>3 DEF NewTransfer
  <2>2. /\ c = [msg |-> c.msg, gas |-> c.gas, fee |-> c.fee, sequence |-> c.sequence]
        /\ c.msg = Ask(to) /\ c.sequence = input.sequence
    BY DEF Content
  <2>3. /\ e = [ask |-> e.ask, state |-> e.state, sequence |-> e.sequence, sig |-> e.sig,
                toSign |-> e.toSign]
        /\ e.state = "built" /\ e.toSign = c /\ c.msg = e.ask /\ c.sequence = e.sequence
        /\ e.ask.of = Len(txs) + 1
    BY <2>2 DEF Ask
  <2> HIDE DEF c, e
  <2>4. ContentOK' /\ shared' = [content |-> shared'.content, sig |-> shared'.sig]
        /\ shared'.content = c
    BY <2>1, <2>2 DEF ContentOK
  <2> QED BY <2>1, <2>3, <2>4, BuildKeeps
<1>4. CASE NewTransferFails
  <2> DEFINE e == [ask |-> Ask(BadAddress), state |-> "failed",
                   sequence |-> input.sequence, sig |-> Unsigned,
                   toSign |-> NoContent]
  <2>1. /\ MayBuild /\ txs' = Append(txs, e) /\ UNCHANGED chain
        /\ shared' = [shared EXCEPT !.content.msg = Ask(BadAddress)]
    BY <1>4 DEF NewTransferFails
  <2>2. /\ e = [ask |-> e.ask, state |-> e.state, sequence |-> e.sequence, sig |-> e.sig,
                toSign |-> e.toSign]
        /\ e.state = "failed" /\ e.ask.of = Len(txs) + 1
    BY DEF Ask
  <2> HIDE DEF e
  <2>3. shared = [content |-> shared.content, sig |-> shared.sig] /\ ContentOK
    BY DEF AccountInv, TxsInv
  <2>4. shared' = [content |-> [shared.content EXCEPT !.msg = Ask(BadAddress)],
                   sig |-> shared.sig]
    BY <2>1, <2>3
  <2>5. ContentOK' /\ shared' = [content |-> shared'.content, sig |-> shared'.sig]
    BY <2>3, <2>4 DEF ContentOK
  <2> QED BY <2>1, <2>2, <2>5, BuildKeeps
<1>5. ASSUME NEW t \in 1..Len(txs),
             AddSignatures(t) \/ Drop(t) \/ SubmitTx(t)
      PROVE  AccountInv'
  <2>1. TxOK(t) /\ IsSeq(broadcast) /\ IsSeq(txs) /\ t \in DOMAIN txs
        /\ Len(broadcast) \in Nat /\ Len(txs) \in Nat /\ NodeInv /\ Linked
    BY DEF AccountInv, TxsInv, NodeInv, IsSeq
  <2>2. shared = [content |-> shared.content, sig |-> shared.sig] /\ ContentOK
    BY DEF AccountInv, TxsInv
  <2>3. txs[t] = [ask |-> txs[t].ask, state |-> txs[t].state,
                  sequence |-> txs[t].sequence, sig |-> txs[t].sig,
                  toSign |-> txs[t].toSign]
    BY <2>1 DEF TxOK
  <2>4. UNCHANGED chain => NodeInv' /\ broadcast' = broadcast
    BY <2>1 DEF NodeInv, BroadcastOK, NumbersDiffer, chain
  <2>5. CASE AddSignatures(t)
    <3> DEFINE sig == [over |-> txs[t].toSign]
               e == [txs[t] EXCEPT !.sig = sig, !.state = "signed"]
    <3>1. /\ txs[t].state = "built" /\ UNCHANGED chain
          /\ txs' = [txs EXCEPT ![t].sig = sig, ![t].state = "signed"]
          /\ shared' = [content |-> [shared.content EXCEPT !.sequence = txs[t].sequence],
                        sig |-> sig]
      BY <2>5 DEF AddSignatures
    <3>2. txs' = [txs EXCEPT ![t] = e]
      BY <2>1, <3>1
    <3>3. e = [ask |-> txs[t].ask, state |-> "signed", sequence |-> txs[t].sequence,
               sig |-> sig, toSign |-> txs[t].toSign]
      <4> HIDE DEF sig
      <4> DEFINE r == [txs[t] EXCEPT !.sig = sig]
      <4>1. e = [r EXCEPT !.state = "signed"]
        OBVIOUS
      <4>2. r = [ask |-> txs[t].ask, state |-> txs[t].state, sequence |-> txs[t].sequence,
                 sig |-> sig, toSign |-> txs[t].toSign]
        BY <2>3
      <4> HIDE DEF r, e
      <4> QED BY <4>1, <4>2
    <3>4. Live(t) /\ txs[t].toSign = shared.content
          /\ shared.content.sequence = txs[t].sequence
      BY <2>1, <3>1 DEF TxOK, Live
    <3>5. shared' = [content |-> shared.content, sig |-> sig]
      BY <2>2, <3>1, <3>4 DEF ContentOK
    <3>6. shared'.sig = sig /\ sig.over = shared.content /\ e.state = "signed" /\ e.sig = sig
          /\ e.ask = txs[t].ask /\ e.toSign = txs[t].toSign
      BY <3>3, <3>4, <3>5
    <3> HIDE DEF e, sig
    <3>7. /\ TxsInv' /\ Len(txs') = Len(txs) /\ txs'[t] = e
          /\ \A u \in 1..Len(txs) \ {t} : txs'[u] = txs[u]
      BY <3>1, <3>2, <3>3, <3>4, <3>5, <3>6, StateKeeps
    <3>8. NodeInv' /\ broadcast' = broadcast
      BY <2>4, <3>1
    <3>10. \A u \in 1..Len(txs) \ {t} : txs'[u].state = txs[u].state
      BY <3>7
    <3>11. \A u \in 1..Len(txs) : txs'[u].ask = txs[u].ask /\ txs'[u].toSign = txs[u].toSign
      BY <3>6, <3>7
    <3>12. txs'[t].state # "submitted"
      BY <3>6, <3>7
    <3>13. Len(txs') = Len(txs)
      BY <3>7
    <3>9. Linked'
      BY ONLY <2>1, <3>1, <3>8, <3>10, <3>11, <3>12, <3>13, LinksKeep
    <3> QED BY <3>7, <3>8, <3>9 DEF AccountInv
  <2>6. CASE Drop(t)
    <3> DEFINE e == [txs[t] EXCEPT !.state = "dropped"]
    <3>1. txs' = [txs EXCEPT ![t] = e] /\ UNCHANGED <<chain, shared>>
      BY <2>1, <2>6 DEF Drop
    <3>2. e = [ask |-> txs[t].ask, state |-> "dropped", sequence |-> txs[t].sequence,
               sig |-> txs[t].sig, toSign |-> txs[t].toSign]
      BY <2>3
    <3>3. e.state = "dropped" /\ e.sig = txs[t].sig
          /\ e.ask = txs[t].ask /\ e.toSign = txs[t].toSign
      BY <3>2
    <3> HIDE DEF e
    <3>4. /\ TxsInv' /\ Len(txs') = Len(txs) /\ txs'[t] = e
          /\ \A u \in 1..Len(txs) \ {t} : txs'[u] = txs[u]
      BY <2>2, <3>1, <3>2, <3>3, StateKeeps
    <3>5. NodeInv' /\ broadcast' = broadcast
      BY <2>4, <3>1
    <3>6. Linked'
      BY <2>1, <3>3, <3>4, <3>5, LinksKeep
    <3> QED BY <3>4, <3>5, <3>6 DEF AccountInv
  <2>7. CASE SubmitTx(t)
    <3>1. /\ txs[t].state \in {"signed", "submitted"} /\ t = Len(txs) /\ shared' = shared
          /\ \/ /\ Accepts(shared) /\ Accept(shared)
                /\ txs' = [txs EXCEPT ![t].state = "submitted"] \/ txs' = txs
             \/ UNCHANGED <<chain, txs>>
      BY <2>7 DEF SubmitTx, MaySubmit, Serialize
    <3>2. /\ txs[t].toSign = shared.content /\ shared.content.msg = txs[t].ask
          /\ shared.sig.over = shared.content
      BY <2>1, <3>1 DEF TxOK
    <3>3. CASE UNCHANGED <<chain, txs>>
      BY <1>1, <3>1, <3>3
    <3>4. CASE /\ Accepts(shared) /\ Accept(shared)
               /\ txs' = [txs EXCEPT ![t].state = "submitted"] \/ txs' = txs
      <4>1. PICK e : /\ txs' = [txs EXCEPT ![t] = e]
                     /\ e = [ask |-> txs[t].ask, state |-> e.state,
                             sequence |-> txs[t].sequence, sig |-> txs[t].sig,
                             toSign |-> txs[t].toSign]
                     /\ e.state \in {txs[t].state, "submitted"}
        <5>1. CASE txs' = txs
          <6>1. txs' = [txs EXCEPT ![t] = txs[t]]
            BY <2>1, <5>1 DEF IsSeq
          <6> QED BY <2>3, <6>1
        <5>2. CASE txs' = [txs EXCEPT ![t].state = "submitted"]
          <6> DEFINE d == [txs[t] EXCEPT !.state = "submitted"]
          <6>1. txs' = [txs EXCEPT ![t] = d]
            BY <5>2
          <6>2. d = [ask |-> txs[t].ask, state |-> "submitted",
                     sequence |-> txs[t].sequence, sig |-> txs[t].sig,
                     toSign |-> txs[t].toSign]
            BY <2>3
          <6>3. d.state = "submitted"
            BY <6>2
          <6> HIDE DEF d
          <6> QED BY <6>1, <6>2, <6>3
        <5> QED BY <3>4, <5>1, <5>2
      <4>2. e.sig = txs[t].sig /\ e.ask = txs[t].ask /\ e.toSign = txs[t].toSign
        BY <4>1
      <4>3. /\ e.state \in {"built", "signed"} => Live(t)
            /\ e.state \in {"signed", "submitted"}
        BY <3>1, <4>1 DEF Live
      <4>4. /\ TxsInv' /\ Len(txs') = Len(txs) /\ txs'[t] = e
            /\ \A u \in 1..Len(txs) \ {t} : txs'[u] = txs[u]
        BY <2>2, <3>1, <3>2, <4>1, <4>2, <4>3, StateKeeps
      <4>5. /\ NodeInv' /\ Len(broadcast') = Len(broadcast) + 1 /\ Len(broadcast) \in Nat
            /\ broadcast'[Len(broadcast) + 1].content = shared.content
            /\ \A k \in 1..Len(broadcast) : broadcast'[k] = broadcast[k]
        BY <2>1, <3>4, AcceptKeeps
      <4>6. \A k \in 1..Len(broadcast') : k > Len(broadcast) =>
              /\ broadcast'[k].content = txs[t].toSign
              /\ broadcast'[k].content.msg = txs[t].ask
        BY <3>2, <4>5
      <4>7. /\ \A u \in 1..Len(txs) : txs'[u].ask = txs[u].ask /\ txs'[u].toSign = txs[u].toSign
            /\ \A u \in 1..Len(txs) \ {t} : txs'[u].state = txs[u].state
            /\ \A k \in 1..Len(broadcast) : broadcast'[k].content = broadcast[k].content
            /\ Len(broadcast') > Len(broadcast) /\ Len(broadcast') \in Nat
        <5>1. \A u \in 1..Len(txs) : txs'[u].ask = txs[u].ask /\ txs'[u].toSign = txs[u].toSign
          BY <4>2, <4>4
        <5>2. \A u \in 1..Len(txs) \ {t} : txs'[u].state = txs[u].state
          BY <4>4
        <5>3. \A k \in 1..Len(broadcast) : broadcast'[k].content = broadcast[k].content
          BY <4>5
        <5>4. Len(broadcast') > Len(broadcast) /\ Len(broadcast') \in Nat
          BY <4>5
        <5> QED BY ONLY <5>1, <5>2, <5>3, <5>4
      <4>8. Linked'
        BY <2>1, <4>4, <4>6, <4>7, LinksKeep
      <4> QED BY <4>4, <4>5, <4>8 DEF AccountInv
    <3> QED BY <3>1, <3>3, <3>4
  <2> QED BY <1>5, <2>5, <2>6, <2>7
<1>6. CASE \/ \E k \in 1..Len(broadcast) : DeliverTx(k)
           \/ \E n \in sequence..(checkSequence - 1) : Evict(n)
           \/ OtherTx
  BY <1>6, NodeKeeps
<1> QED BY <1>2, <1>3, <1>4, <1>5, <1>6 DEF AccountNext

LEMMA AccountInvariant ==
  OneAtATime /\ AccountSpec => []AccountInv
<1> SUFFICES ASSUME OneAtATime
             PROVE  AccountSpec => []AccountInv
  OBVIOUS
<1>1. AccountInv /\ [AccountNext]_accountVars => AccountInv'
  BY AccountStep
<1> QED BY InitAccount, <1>1, PTL DEF AccountSpec

\* What AddSignatures signed is what SubmitTx sends, however many transfers
\* the TxBuilder was asked for before, with or without an error, as long as a
\* caller is done with one before it asks for the next.
THEOREM WhatIsSignedIsSent ==
  OneAtATime /\ AccountSpec => []SignedIsAcceptable
<1>1. AccountInv => SignedIsAcceptable
  <2> SUFFICES ASSUME AccountInv, NEW t \in 1..Len(txs), txs[t].state = "signed"
               PROVE  /\ Serialize(t).content.msg = txs[t].ask
                      /\ txs[t].sequence = checkSequence => Accepts(Serialize(t))
    BY DEF SignedIsAcceptable
  <2>1. TxOK(t) /\ Live(t) /\ t = Len(txs)
    BY DEF AccountInv, TxsInv, TxOK, Live
  <2> QED BY <2>1 DEF TxOK, Accepts, Serialize
<1> QED BY <1>1, AccountInvariant, PTL

\* When SubmitTx reports success for a Tx, the node has taken what was signed
\* for this Tx, not for one that the shared builder was given since; and the
\* chain executes its transfer at most once, however often it is submitted.
THEOREM SubmittedOnceAsSigned ==
  OneAtATime /\ AccountSpec => []SubmittedAsSigned
<1>1. AccountInv => SubmittedAsSigned
  <2> SUFFICES ASSUME AccountInv PROVE SubmittedAsSigned
    OBVIOUS
  <2>1. ASSUME NEW j \in 1..Len(broadcast), NEW k \in 1..Len(broadcast),
               broadcast[j].fate = "executed", broadcast[k].fate = "executed",
               broadcast[j].content.msg = broadcast[k].content.msg
        PROVE  j = k
    <3>1. PICK t \in 1..Len(txs) : /\ broadcast[j].content = txs[t].toSign
                                   /\ broadcast[j].content.msg = txs[t].ask
      BY DEF AccountInv, Linked
    <3>2. PICK u \in 1..Len(txs) : /\ broadcast[k].content = txs[u].toSign
                                   /\ broadcast[k].content.msg = txs[u].ask
      BY DEF AccountInv, Linked
    <3>3. txs[t].ask.of = t /\ txs[u].ask.of = u
      BY DEF AccountInv, TxsInv, TxOK
    <3>4. t = u
      BY <2>1, <3>1, <3>2, <3>3
    <3>5. NumbersDiffer(j, k)
      BY DEF AccountInv, NodeInv
    <3> QED BY <2>1, <3>1, <3>2, <3>4, <3>5 DEF NumbersDiffer
  <2>2. \A t \in 1..Len(txs) : txs[t].state = "submitted" =>
          /\ txs[t].toSign.msg = txs[t].ask
          /\ \E k \in 1..Len(broadcast) : broadcast[k].content = txs[t].toSign
    BY DEF AccountInv, Linked
  <2> QED BY <2>1, <2>2 DEF SubmittedAsSigned
<1> QED BY <1>1, AccountInvariant, PTL
-----------------------------------------------------------------------------
(* FetchTxInfo and the interceptor that its callers share. A request that   *)
(* is repeated is sent with the interceptor on, unless the end of another   *)
(* one's repetition has switched it off; that this is the only way to lose  *)
(* it is what the induction needs.                                          *)

Off == {"idle", "done", "failed", "panicked"}

LocalsOK ==
  /\ at = [c \in Callers |-> at[c]] /\ got = [c \in Callers |-> got[c]]
  /\ began = [c \in Callers |-> began[c]]
  /\ retrying = [c \in Callers |-> retrying[c]] /\ rewrites = [c \in Callers |-> rewrites[c]]
  /\ excused = [c \in Callers |-> excused[c]]
  /\ unread => tx.driver = "evm"

\* What a request that is repeated has.
RetryOK(c) ==
  /\ at[c] \in Off => ~retrying[c]
  /\ at[c] = "failed" => excused[c]
  /\ retrying[c] /\ at[c] = "send" => excused[c] \/ enabled
  /\ retrying[c] /\ at[c] = "wait" => excused[c] \/ rewrites[c]

RetryInv ==
  /\ LocalsOK /\ InterceptorIsSwitchedOff
  /\ \A c \in Callers : RetryOK(c)

LEMMA InitRetry == Init => RetryInv
<1> SUFFICES ASSUME Init PROVE RetryInv
  OBVIOUS
<1>1. ASSUME unread PROVE tx.driver = "evm"
  BY <1>1 DEF Init
<1>2. LocalsOK
  BY <1>1 DEF Init, LocalsOK
<1>3. \A c \in Callers : RetryOK(c)
  BY DEF Init, RetryOK
<1>4. InterceptorIsSwitchedOff
  BY DEF Init, InterceptorIsSwitchedOff
<1> QED BY <1>2, <1>3, <1>4 DEF RetryInv

\* A request that fails.
LEMMA FailKeeps ==
  ASSUME RetryInv, NEW c \in Callers, NEW reasons, at[c] = "wait", Fail(c, reasons),
         c \in reasons \/ (unread /\ ~rewrites[c]), UNCHANGED <<tx, unread, got, rewrites, began>>
  PROVE  RetryInv'
<1>1. /\ at = [d \in Callers |-> at[d]] /\ retrying = [d \in Callers |-> retrying[d]]
      /\ excused = [d \in Callers |-> excused[d]] /\ unread => tx.driver = "evm"
  BY DEF RetryInv, LocalsOK
<1>2. /\ \A d \in Callers \ {c} : at'[d] = at[d] /\ retrying'[d] = retrying[d]
      /\ \A d \in Callers : excused'[d] = (excused[d] \/ d \in reasons \cup Disturbed(c))
  BY <1>1 DEF Fail, StopRetrying
<1>3. /\ at' = [d \in Callers |-> at'[d]] /\ retrying' = [d \in Callers |-> retrying'[d]]
      /\ excused' = [d \in Callers |-> excused'[d]]
  BY <1>1 DEF Fail, StopRetrying
<1>4. LocalsOK'
  BY <1>3 DEF RetryInv, LocalsOK
<1>5. CASE tx.driver = "evm" /\ ~retrying[c]
  <2>1. at'[c] = "send" /\ retrying'[c] /\ enabled'
    BY <1>1, <1>5 DEF Fail
  <2>2. ASSUME NEW d \in Callers PROVE RetryOK(d)'
    BY <1>2, <2>1 DEF RetryInv, RetryOK, Off
  <2> QED BY <1>4, <2>1, <2>2 DEF RetryInv, InterceptorIsSwitchedOff
<1>6. CASE ~(tx.driver = "evm" /\ ~retrying[c])
  <2>1. at'[c] = "failed" /\ ~retrying'[c] /\ enabled' = (enabled /\ ~retrying[c])
    BY <1>1, <1>6 DEF Fail, StopRetrying
  <2>2. RetryOK(c)'
    <3>1. c \in reasons \/ excused[c]
      <4>1. RetryOK(c)
        BY DEF RetryInv
      <4>2. CASE unread /\ ~rewrites[c]
        <5>1. tx.driver = "evm"
          <6>1. unread => tx.driver = "evm"
            BY DEF RetryInv, LocalsOK
          <6> QED BY <4>2, <6>1
        <5>2. retrying[c]
          BY <1>6, <5>1
        <5> QED BY <4>1, <4>2, <5>2 DEF RetryOK
      <4> QED BY <4>2
    <3>2. excused'[c]
      BY <1>2, <3>1
    <3> QED BY <2>1, <3>2 DEF RetryOK
  <2>3. ASSUME NEW d \in Callers \ {c} PROVE RetryOK(d)'
    BY <1>2, <2>1 DEF RetryInv, RetryOK, Off, Disturbed
  <2>4. InterceptorIsSwitchedOff'
    BY <1>2, <2>1 DEF RetryInv, InterceptorIsSwitchedOff
  <2> QED BY <1>4, <2>2, <2>3, <2>4 DEF RetryInv
<1> QED BY <1>5, <1>6

\* Every other step of FetchTxInfo.
LEMMA RetryStep ==
  ASSUME RetryInv, [Next]_vars
  PROVE  RetryInv'
<1>1. /\ at = [d \in Callers |-> at[d]] /\ retrying = [d \in Callers |-> retrying[d]]
      /\ got = [c \in Callers |-> got[c]] /\ began = [c \in Callers |-> began[c]]
      /\ excused = [d \in Callers |-> excused[d]] /\ rewrites = [d \in Callers |-> rewrites[d]]
      /\ unread => tx.driver = "evm"
  BY DEF RetryInv, LocalsOK
<1>2. CASE UNCHANGED vars
  BY <1>2 DEF vars, RetryInv, LocalsOK, RetryOK, InterceptorIsSwitchedOff
<1>3. CASE Grow \/ ChangeItsMind
  <2>1. /\ UNCHANGED <<tx, unread, enabled, at, got, retrying, rewrites, began>>
        /\ excused' = excused \/ excused' = [c \in Callers |-> TRUE]
    BY <1>3 DEF Grow, ChangeItsMind, callers
  <2>2. /\ excused' = [c \in Callers |-> excused'[c]]
        /\ \A c \in Callers : excused[c] => excused'[c]
    BY <1>1, <2>1
  <2>3. \A c \in Callers : RetryOK(c)'
    BY <2>1, <2>2 DEF RetryInv, RetryOK
  <2> QED BY <2>1, <2>2, <2>3 DEF RetryInv, LocalsOK, InterceptorIsSwitchedOff
<1>4. ASSUME NEW c \in Callers, Begin(c) PROVE RetryInv'
  <2>1. /\ UNCHANGED <<tx, unread, enabled, got, retrying, rewrites>>
        /\ at[c] = "idle" /\ at' = [at EXCEPT ![c] = "send"]
        /\ excused' = [excused EXCEPT ![c] = FALSE] /\ began' = [began EXCEPT ![c] = node]
    BY <1>4 DEF Begin
  <2>2. LocalsOK'
    BY <1>1, <2>1 DEF LocalsOK
  <2>3. ASSUME NEW d \in Callers PROVE RetryOK(d)'
    BY <1>1, <2>1 DEF RetryInv, RetryOK, Off
  <2> QED BY <2>1, <2>2, <2>3 DEF RetryInv, InterceptorIsSwitchedOff
<1>5. ASSUME NEW c \in Callers, Send(c) PROVE RetryInv'
  <2>1. /\ UNCHANGED <<tx, unread, enabled, got, retrying, excused, began>>
        /\ at[c] = "send" /\ at' = [at EXCEPT ![c] = "wait"]
        /\ rewrites' = [rewrites EXCEPT ![c] = enabled]
    BY <1>5 DEF Send
  <2>2. LocalsOK'
    BY <1>1, <2>1 DEF LocalsOK
  <2>3. ASSUME NEW d \in Callers PROVE RetryOK(d)'
    <3>1. CASE d = c
      BY <1>1, <2>1, <3>1 DEF RetryInv, RetryOK, Off
    <3>2. CASE d # c
      BY <1>1, <2>1, <3>2 DEF RetryInv, RetryOK, Off
    <3> QED BY <3>1, <3>2
  <2> QED BY <2>1, <2>2, <2>3 DEF RetryInv, InterceptorIsSwitchedOff
<1>6. ASSUME NEW c \in Callers, Lost(c) \/ Refused(c) PROVE RetryInv'
  <2>1. /\ at[c] = "wait" /\ UNCHANGED <<tx, unread, got, rewrites, began>>
        /\ \/ Fail(c, {c})
           \/ unread /\ ~rewrites[c] /\ Fail(c, {})
    BY <1>6 DEF Lost, Refused
  <2> QED BY <2>1, FailKeeps
<1>7. ASSUME NEW c \in Callers, Answered(c) PROVE RetryInv'
  <2>1. PICK place, reasons, answers :
          /\ at[c] = "wait" /\ at' = [at EXCEPT ![c] = place]
          /\ place \in {"failed", "panicked", "done", "send"}
          /\ retrying' = [retrying EXCEPT ![c] = FALSE] /\ enabled' = (enabled /\ ~retrying[c])
          /\ excused' = [d \in Callers |-> \/ excused[d] \/ d \in Disturbed(c)
                                           \/ (d = c /\ reasons)]
          /\ (place = "failed" => reasons)
          /\ got' = [got EXCEPT ![c] = answers]
          /\ UNCHANGED <<tx, unread, rewrites, began>>
    <3> DEFINE request == NextRequest(got[c])
               answers == [r \in DOMAIN got[c] \cup {request} |->
                             IF r = request THEN node ELSE got[c][r]]
               last == NextRequest(answers) = "done"
               place == CASE Unplaced(answers)             -> "failed"
                          [] last /\ Panics(answers)  -> "panicked"
                          [] last /\ ~Panics(answers) -> "done"
                          [] OTHER                         -> "send"
    <3>1. /\ at[c] = "wait" /\ at' = [at EXCEPT ![c] = place]
          /\ retrying' = [retrying EXCEPT ![c] = FALSE] /\ enabled' = (enabled /\ ~retrying[c])
          /\ excused' = [d \in Callers |-> \/ excused[d] \/ d \in Disturbed(c)
                                           \/ (d = c /\ Unplaced(answers))]
          /\ got' = [got EXCEPT ![c] = answers]
          /\ UNCHANGED <<tx, unread, rewrites, began>>
      BY <1>7 DEF Answered, StopRetrying
    <3> HIDE DEF answers, last
    <3>2. place \in {"failed", "panicked", "done", "send"} 
          /\ (place = "failed" => Unplaced(answers))
      OBVIOUS
    <3> HIDE DEF place
    <3> QED BY <3>1, <3>2
  <2>2. /\ \A d \in Callers \ {c} : at'[d] = at[d] /\ retrying'[d] = retrying[d]
        /\ \A d \in Callers :
             excused'[d] = (excused[d] \/ d \in Disturbed(c) \/ (d = c /\ reasons))
    BY <1>1, <2>1
  <2>3. LocalsOK'
    BY <1>1, <2>1 DEF LocalsOK
  <2>4. RetryOK(c)'
    BY <1>1, <2>1, <2>2 DEF RetryOK
  <2>5. ASSUME NEW d \in Callers \ {c} PROVE RetryOK(d)'
    BY <2>1, <2>2 DEF RetryInv, RetryOK, Off, Disturbed
  <2>6. InterceptorIsSwitchedOff'
    BY <2>1, <2>2 DEF RetryInv, InterceptorIsSwitchedOff
  <2> QED BY <2>3, <2>4, <2>5, <2>6 DEF RetryInv
<1> QED BY <1>2, <1>3, <1>4, <1>5, <1>6, <1>7 DEF Next

LEMMA RetryInvariant == Spec => []RetryInv
<1>1. RetryInv /\ [Next]_vars => RetryInv'
  BY RetryStep
<1> QED BY InitRetry, <1>1, PTL DEF Spec

\* However the requests of however many callers fail, the interceptor is on
\* only while one of them is repeated.
THEOREM InterceptorEnds == Spec => []InterceptorIsSwitchedOff
<1>1. RetryInv => InterceptorIsSwitchedOff
  BY DEF RetryInv
<1> QED BY <1>1, RetryInvariant, PTL

\* FetchTxInfo fails only when an answer was lost, the chain did not have what
\* was asked for, or another caller switched the interceptor off.
THEOREM FailuresHaveReasons == Spec => []FailsForAReason
<1>1. RetryInv => FailsForAReason
  BY DEF RetryInv, RetryOK, FailsForAReason
<1> QED BY <1>1, RetryInvariant, PTL
-----------------------------------------------------------------------------
(* The confirmations. The answers are of the node at different times, while *)
(* it grows and may change its mind: what is needed is which answer came    *)
(* before which, for each driver.                                           *)

NodeOK(n) ==
  /\ n.height \in Nat /\ n.place \in Int /\ -1 <= n.place /\ n.place <= n.height
  /\ n.place = -1 => tx.driver \in {"evm", "bitcoin"}

\* That g has an answer to r, which came after the one to q.
After(g, q, r) == r \in DOMAIN g => q \in DOMAIN g /\ g[q].height <= g[r].height

EvmOrder(g) ==
  /\ "tx" \in DOMAIN g => g["tx"].place >= 0
  /\ After(g, "tx", "receipt") /\ After(g, "receipt", "latest")
  /\ "receipt" \in DOMAIN g => g["tx"].place > 0 /\ g["receipt"].place > 0

CosmosOrder(g) ==
  /\ "tx" \in DOMAIN g => g["tx"].place > 0
  /\ After(g, "tx", "abci")

\* A transaction without a checkpoint is an error when the second answer is in.
SuiOrder(g, failed) ==
  /\ DOMAIN g \subseteq {"tx", "latest", "checkpoint"}
  /\ "checkpoint" \in DOMAIN g => "latest" \in DOMAIN g
  /\ After(g, "tx", "latest")
  /\ "latest" \in DOMAIN g => failed \/ g["tx"].place > 0

Order(g, failed) ==
  /\ tx.driver = "evm" => EvmOrder(g)
  /\ tx.driver = "cosmos" => CosmosOrder(g)
  /\ tx.driver = "sui" => SuiOrder(g, failed)
  /\ tx.driver = "aptos" => After(g, "tx", "ledger")
  /\ tx.driver = "bitcoin" /\ "tx" \in DOMAIN g => g["tx"].place >= 0

AnswersOK(c) ==
  /\ at[c] = "idle" => DOMAIN got[c] = {}
  /\ at[c] = "done" => NextRequest(got[c]) = "done"
  /\ at[c] \in {"idle", "send", "wait"} => NextRequest(got[c]) # "done"
  /\ NodeOK(began[c]) /\ began[c].height <= node.height
  /\ \A r \in DOMAIN got[c] :
       /\ NodeOK(got[c][r])
       /\ began[c].height <= got[c][r].height /\ got[c][r].height <= node.height
  /\ Order(got[c], at[c] = "failed")

AnswersInv ==
  /\ LocalsOK /\ NodeOK(node)
  /\ node = [height |-> node.height, fork |-> node.fork, place |-> node.place, ok |-> node.ok]
  /\ tx.driver \in {"evm", "cosmos", "sui", "aptos", "bitcoin"}
  /\ \A c \in Callers : AnswersOK(c)

LEMMA InitAnswers == Init => AnswersInv
<1> SUFFICES ASSUME Init PROVE AnswersInv
  OBVIOUS
<1>1. LocalsOK
  BY InitRetry DEF RetryInv
<1>2. tx.driver \in {"evm", "cosmos", "sui", "aptos", "bitcoin"}
  BY DriversAssumption DEF Init
<1>3. /\ node = [height |-> node.height, fork |-> node.fork, place |-> node.place, ok |-> node.ok]
      /\ NodeOK(node)
  BY DEF Init, NodeOK
<1>4. ASSUME NEW c \in Callers PROVE AnswersOK(c)
  <2>1. at[c] = "idle" /\ DOMAIN got[c] = {} /\ began[c] = node
    BY DEF Init
  <2>2. Order(got[c], at[c] = "failed")
    BY <2>1 DEF Order, EvmOrder, CosmosOrder, SuiOrder, After
  <2>3. NextRequest(got[c]) = "tx"
    BY <1>2, <2>1 DEF NextRequest, Evm!NextRequest, Cosmos!NextRequest,
                      Sui!NextRequest, Aptos!NextRequest, Bitcoin!NextRequest
  <2> QED BY <1>3, <2>1, <2>2, <2>3 DEF AnswersOK, NodeOK
<1> QED BY <1>1, <1>2, <1>3, <1>4 DEF AnswersInv

\* The node asks nothing of a caller.
LEMMA NodeStep ==
  ASSUME AnswersInv, LocalsOK', Grow \/ ChangeItsMind
  PROVE  AnswersInv'
<1>1. /\ UNCHANGED <<tx, at, got, began>>
  BY DEF Grow, ChangeItsMind, callers
<1>2. node = [height |-> node.height, fork |-> node.fork, place |-> node.place, ok |-> node.ok]
      /\ NodeOK(node)
  BY DEF AnswersInv
<1>3. \/ node' = [node EXCEPT !.height = @ + 1]
      \/ \E ok : node' = [node EXCEPT !.height = @ + 1, !.place = node.height + 1, !.ok = ok]
      \/ /\ tx.driver \in {"evm", "bitcoin"}
         /\ node' = [node EXCEPT !.fork = 1, !.ok = FALSE, !.place = IF @ > 0 THEN 0 ELSE -1]
  BY DEF Grow, ChangeItsMind
<1> DEFINE NewNode == /\ node' = [height |-> node'.height, fork |-> node'.fork,
                                 place |-> node'.place, ok |-> node'.ok]
                      /\ NodeOK(node)' /\ node.height <= node'.height
<1>4. ASSUME NEW h \in Nat, NEW f, NEW p \in Int, NEW ok, node.height <= h, -1 <= p, p <= h,
             node' = [height |-> h, fork |-> f, place |-> p, ok |-> ok],
             p = -1 => tx.driver \in {"evm", "bitcoin"}
      PROVE  NewNode
  BY <1>1, <1>4 DEF NodeOK
<1>5. NewNode
  <2> DEFINE h == node.height + 1
  <2> HIDE DEF NewNode
  <2>1. node.height \in Nat /\ h \in Nat /\ node.height <= h /\ h = node.height + 1
    BY <1>2 DEF NodeOK
  <2>2. CASE node' = [node EXCEPT !.height = @ + 1]
    <3>1. node' = [height |-> h, fork |-> node.fork, place |-> node.place, ok |-> node.ok]
      BY <1>2, <2>2
    <3> HIDE DEF h
    <3> QED BY <1>2, <1>4, <2>1, <3>1 DEF NodeOK
  <2>3. ASSUME NEW ok, node' = [node EXCEPT !.height = @ + 1, !.place = node.height + 1, !.ok = ok]
        PROVE  NewNode
    <3>1. node' = [height |-> h, fork |-> node.fork, place |-> h, ok |-> ok]
      BY <1>2, <2>3
    <3> HIDE DEF h
    <3>2. h \in Int /\ -1 <= h /\ h # -1
      BY <2>1
    <3> QED BY <1>4, <2>1, <3>1, <3>2
  <2>4. CASE /\ tx.driver \in {"evm", "bitcoin"}
             /\ node' = [node EXCEPT !.fork = 1, !.ok = FALSE, !.place = IF @ > 0 THEN 0 ELSE -1]
    <3> DEFINE p == IF node.place > 0 THEN 0 ELSE -1
               ok == FALSE
    <3>1. node' = [height |-> node.height, fork |-> 1, place |-> p, ok |-> ok]
      BY <1>2, <2>4
    <3>2. p \in Int /\ -1 <= p /\ p <= node.height /\ node.height <= node.height
      BY <2>1
    <3> HIDE DEF p, h, ok
    <3> QED BY <1>4, <2>1, <2>4, <3>1, <3>2
  <2> QED BY <1>3, <2>2, <2>3, <2>4
<1>6. ASSUME NEW c \in Callers PROVE AnswersOK(c)'
  <2>1. AnswersOK(c) /\ UNCHANGED <<at[c], got[c], began[c]>>
    BY <1>1 DEF AnswersInv
  <2>2. /\ NodeOK(began[c])' /\ began'[c].height <= node'.height
        /\ \A r \in DOMAIN got'[c] : /\ NodeOK(got[c][r])'
                                     /\ began'[c].height <= got'[c][r].height
                                     /\ got'[c][r].height <= node'.height
    BY <1>1, <1>2, <1>5, <2>1 DEF AnswersOK, NodeOK
  <2>3. Order(got[c], at[c] = "failed")'
    BY <1>1, <2>1 DEF AnswersOK, Order, EvmOrder, CosmosOrder, SuiOrder, After
  <2>4. NextRequest(got[c])' = NextRequest(got[c])
    BY <1>1 DEF NextRequest
  <2> QED BY <2>1, <2>2, <2>3, <2>4 DEF AnswersOK
<1> QED BY <1>1, <1>5, <1>6 DEF AnswersInv

\* Steps that add no answer.
LEMMA SilentStep ==
  ASSUME AnswersInv, LocalsOK', NEW c \in Callers,
         Begin(c) \/ Send(c) \/ Lost(c) \/ Refused(c)
  PROVE  AnswersInv'
<1>1. /\ at = [d \in Callers |-> at[d]] /\ began = [d \in Callers |-> began[d]]
      /\ AnswersOK(c) /\ NodeOK(node)
  BY DEF AnswersInv, LocalsOK
<1>2. /\ UNCHANGED <<tx, node, got>>
      /\ \E place \in {"send", "wait", "failed"} : at' = [at EXCEPT ![c] = place]
      /\ at[c] \in {"idle", "send", "wait"}
      /\ \/ began' = began /\ at[c] # "idle" /\ at[c] # "failed"
         \/ began' = [began EXCEPT ![c] = node] /\ at[c] = "idle"
  BY DEF Begin, Send, Lost, Refused, Fail
<1>3. /\ at'[c] \in {"send", "wait", "failed"}
      /\ \/ began'[c] = began[c] /\ at[c] # "failed"
         \/ began'[c] = node /\ at[c] = "idle"
      /\ \A d \in Callers \ {c} : at'[d] = at[d] /\ began'[d] = began[d]
  BY <1>1, <1>2
<1>4. NodeOK(node)'
  BY <1>1, <1>2 DEF NodeOK
<1>5. AnswersOK(c)'
  <2>1. /\ NodeOK(began[c])' /\ began'[c].height <= node'.height
        /\ \A r \in DOMAIN got'[c] : /\ NodeOK(got[c][r])'
                                     /\ began'[c].height <= got'[c][r].height
                                     /\ got'[c][r].height <= node'.height
    <3>1. CASE began'[c] = began[c]
      BY <1>1, <1>2, <3>1 DEF AnswersOK, NodeOK
    <3>2. CASE began'[c] = node /\ at[c] = "idle"
      BY <1>1, <1>2, <3>2 DEF AnswersOK, NodeOK
    <3> QED BY <1>3, <3>1, <3>2
  <2>2. Order(got[c], at[c] = "failed")'
    BY <1>1, <1>2, <1>3 DEF AnswersOK, Order, EvmOrder, CosmosOrder, SuiOrder, After
  <2>3. NextRequest(got[c])' = NextRequest(got[c])
    BY <1>2 DEF NextRequest
  <2>4. NextRequest(got[c]) # "done"
    BY <1>1, <1>2 DEF AnswersOK
  <2> QED BY <1>3, <2>1, <2>2, <2>3, <2>4 DEF AnswersOK
<1>6. ASSUME NEW d \in Callers \ {c} PROVE AnswersOK(d)'
  <2>1. AnswersOK(d) /\ at'[d] = at[d] /\ began'[d] = began[d] /\ got'[d] = got[d]
    BY <1>2, <1>3 DEF AnswersInv
  <2>2. NextRequest(got[d])' = NextRequest(got[d])
    BY <1>2 DEF NextRequest
  <2>3. Order(got[d], at[d] = "failed")'
    BY <1>2, <2>1 DEF AnswersOK, Order, EvmOrder, CosmosOrder, SuiOrder, After
  <2> QED BY <1>2, <2>1, <2>2, <2>3 DEF AnswersOK, NodeOK
<1> QED BY <1>2, <1>4, <1>5, <1>6 DEF AnswersInv

\* The order of the answers is that of the requests.
LEMMA OrderKept ==
  ASSUME AnswersInv, NEW c \in Callers, at[c] = "wait", NEW request, NEW g,
         request = NextRequest(got[c]), request # "done", ~Refuses(request),
         g = [r \in DOMAIN got[c] \cup {request} |-> IF r = request THEN node ELSE got[c][r]]
  PROVE  Order(g, Unplaced(g))
<1>1. /\ Order(got[c], FALSE) /\ NodeOK(node)
      /\ \A r \in DOMAIN got[c] : NodeOK(got[c][r]) /\ got[c][r].height <= node.height
  BY DEF AnswersInv, AnswersOK
<1>2. /\ DOMAIN g = DOMAIN got[c] \cup {request} /\ g[request] = node
      /\ \A r \in DOMAIN got[c] \ {request} : g[r] = got[c][r]
  OBVIOUS
<1>3. CASE tx.driver = "evm"
  <2>1. request = Evm!NextRequest(got[c])
    BY <1>3 DEF NextRequest
  <2>2. /\ request = "tx" => "tx" \notin DOMAIN got[c] /\ node.place # -1
        /\ request = "receipt" => /\ node.place > 0 /\ "receipt" \notin DOMAIN got[c]
                                  /\ "tx" \in DOMAIN got[c] /\ got[c]["tx"].place # 0
        /\ request = "latest" => {"tx", "receipt", "header"} \subseteq DOMAIN got[c]
        /\ request \in {"tx", "receipt", "header", "latest"}
    <3>1. ~(request = "tx" /\ node.place = -1) /\ ~(request = "receipt" /\ node.place <= 0)
      BY <1>3 DEF Refuses
    <3>2. node.place \in Int
      BY <1>1 DEF NodeOK
    <3> QED BY <2>1, <3>1, <3>2 DEF Evm!NextRequest
  <2>3. EvmOrder(got[c])
    BY <1>1, <1>3 DEF Order
  <2>4. "tx" \in DOMAIN g => g["tx"].place >= 0
    BY <1>1, <1>2, <2>2, <2>3 DEF EvmOrder, NodeOK
  <2>5. "receipt" \in DOMAIN g => g["tx"].place > 0 /\ g["receipt"].place > 0
    BY <1>1, <1>2, <2>2, <2>3 DEF EvmOrder, After, NodeOK
  <2>6. After(g, "tx", "receipt")
    BY <1>1, <1>2, <2>2, <2>3 DEF EvmOrder, After, NodeOK
  <2>7. After(g, "receipt", "latest")
    BY <1>1, <1>2, <2>2, <2>3 DEF EvmOrder, After, NodeOK
  <2> QED BY <1>3, <2>4, <2>5, <2>6, <2>7 DEF Order, EvmOrder
<1>4. CASE tx.driver = "cosmos"
  <2>1. request = Cosmos!NextRequest(got[c])
    BY <1>4 DEF NextRequest
  <2>2. CosmosOrder(g)
    BY <1>1, <1>2, <1>4, <2>1 DEF Cosmos!NextRequest, Refuses, Order, CosmosOrder, After, NodeOK
  <2> QED BY <1>4, <2>2 DEF Order
<1>5. CASE tx.driver = "sui"
  <2>1. request = Sui!NextRequest(got[c])
    BY <1>5 DEF NextRequest
  <2>2. SuiOrder(g, Unplaced(g))
    BY <1>1, <1>2, <1>5, <2>1 DEF Sui!NextRequest, Unplaced, Order, SuiOrder, After, NodeOK
  <2> QED BY <1>5, <2>2 DEF Order
<1>6. CASE tx.driver = "aptos"
  <2>1. request = Aptos!NextRequest(got[c])
    BY <1>6 DEF NextRequest
  <2>2. After(g, "tx", "ledger")
    BY <1>1, <1>2, <1>6, <2>1 DEF Aptos!NextRequest, Order, After, NodeOK
  <2> QED BY <1>6, <2>2 DEF Order
<1>7. CASE tx.driver = "bitcoin"
  <2>1. "tx" \in DOMAIN g => g["tx"].place >= 0
    BY <1>1, <1>2, <1>7 DEF Refuses, Order, NodeOK
  <2> QED BY <1>7, <2>1 DEF Order
<1> QED BY <1>3, <1>4, <1>5, <1>6, <1>7 DEF AnswersInv

LEMMA AnsweredStep ==
  ASSUME AnswersInv, LocalsOK', NEW c \in Callers, Answered(c)
  PROVE  AnswersInv'
<1> DEFINE request == NextRequest(got[c])
           g == [r \in DOMAIN got[c] \cup {request} |-> IF r = request THEN node ELSE got[c][r]]
           last == NextRequest(g) = "done"
           place == CASE Unplaced(g)           -> "failed"
                      [] last /\ Panics(g)  -> "panicked"
                      [] last /\ ~Panics(g) -> "done"
                      [] OTHER                   -> "send"
<1>1. /\ at = [d \in Callers |-> at[d]] /\ got = [d \in Callers |-> got[d]]
      /\ AnswersOK(c) /\ NodeOK(node)
  BY DEF AnswersInv, LocalsOK
<1>2. /\ at[c] = "wait" /\ ~Refuses(request) /\ UNCHANGED <<tx, node, began>>
      /\ at' = [at EXCEPT ![c] = place] /\ got' = [got EXCEPT ![c] = g]
  BY DEF Answered
<1>3. NextRequest(got[c]) # "done"
  BY <1>1, <1>2 DEF AnswersOK
<1>4. Order(g, Unplaced(g))
  BY <1>2, <1>3, OrderKept
<1>5. \A r \in DOMAIN g : /\ NodeOK(g[r]) /\ began[c].height <= g[r].height
                          /\ g[r].height <= node.height
  BY <1>1 DEF AnswersOK, NodeOK
<1>6. Unplaced(g) => ~last
  BY DEF Unplaced, NextRequest, Sui!NextRequest
<1>7. /\ place \in {"failed", "panicked", "done", "send"}
      /\ Unplaced(g) => place = "failed"
      /\ place = "failed" => Unplaced(g)
      /\ place = "done" => last
      /\ place = "send" => ~last
  <2> HIDE DEF g, last
  <2>1. CASE Unplaced(g)
    <3>1. place = "failed"
      BY <1>6, <2>1
    <3> QED BY <2>1, <3>1
  <2>2. CASE ~Unplaced(g) /\ last /\ Panics(g)
    <3>1. place = "panicked"
      BY <2>2
    <3> QED BY <2>2, <3>1
  <2>3. CASE ~Unplaced(g) /\ last /\ ~Panics(g)
    <3>1. place = "done"
      BY <2>3
    <3> QED BY <2>3, <3>1
  <2>4. CASE ~Unplaced(g) /\ ~last
    <3>1. place = "send"
      BY <2>4
    <3> QED BY <2>4, <3>1
  <2> QED BY <2>1, <2>2, <2>3, <2>4
<1>8. (last => NextRequest(g) = "done") /\ (~last => NextRequest(g) # "done")
  OBVIOUS
<1> HIDE DEF request, g, last, place
<1>9. /\ at'[c] = place /\ got'[c] = g
      /\ \A d \in Callers \ {c} : at'[d] = at[d] /\ got'[d] = got[d]
  BY <1>1, <1>2
<1>10. AnswersOK(c)'
  <2>1. NextRequest(got[c])' = NextRequest(g)
    BY <1>2, <1>9 DEF NextRequest
  <2>2. Order(got[c], at[c] = "failed")'
    <3>1. Order(g, at'[c] = "failed")
      BY <1>4, <1>7, <1>8, <1>9 DEF Order, SuiOrder
    <3> QED BY <1>2, <1>9, <3>1 DEF Order, EvmOrder, CosmosOrder, SuiOrder, After
  <2>3. /\ NodeOK(began[c])' /\ began'[c].height <= node'.height
        /\ \A r \in DOMAIN got'[c] : /\ NodeOK(got[c][r])'
                                     /\ began'[c].height <= got'[c][r].height
                                     /\ got'[c][r].height <= node'.height
    BY <1>1, <1>2, <1>5, <1>9 DEF AnswersOK, NodeOK
  <2> QED BY <1>7, <1>8, <1>9, <2>1, <2>2, <2>3 DEF AnswersOK
<1>11. ASSUME NEW d \in Callers \ {c} PROVE AnswersOK(d)'
  <2>1. AnswersOK(d) /\ at'[d] = at[d] /\ began'[d] = began[d] /\ got'[d] = got[d]
    BY <1>2, <1>9 DEF AnswersInv
  <2>2. NextRequest(got[d])' = NextRequest(got[d])
    BY <1>2, <2>1 DEF NextRequest
  <2>3. Order(got[d], at[d] = "failed")'
    BY <1>2, <2>1 DEF AnswersOK, Order, EvmOrder, CosmosOrder, SuiOrder, After
  <2> QED BY <1>2, <2>1, <2>2, <2>3 DEF AnswersOK, NodeOK
<1>12. NodeOK(node)'
  BY <1>1, <1>2 DEF NodeOK
<1> QED BY <1>2, <1>10, <1>11, <1>12 DEF AnswersInv

LEMMA AnswersStep ==
  ASSUME AnswersInv, LocalsOK', [Next]_vars
  PROVE  AnswersInv'
<1>1. CASE UNCHANGED vars
  <2>1. UNCHANGED <<tx, node, at, got, began>>
    BY <1>1 DEF vars
  <2>2. ASSUME NEW c \in Callers PROVE AnswersOK(c)'
    <3>1. AnswersOK(c)
      BY DEF AnswersInv
    <3>2. NextRequest(got[c])' = NextRequest(got[c])
      BY <2>1 DEF NextRequest
    <3>3. Order(got[c], at[c] = "failed")'
      BY <2>1, <3>1 DEF AnswersOK, Order, EvmOrder, CosmosOrder, SuiOrder, After
    <3> QED BY <2>1, <3>1, <3>2, <3>3 DEF AnswersOK, NodeOK
  <2> QED BY <2>1, <2>2 DEF AnswersInv, NodeOK
<1>2. CASE Grow \/ ChangeItsMind
  BY <1>2, NodeStep
<1>3. ASSUME NEW c \in Callers, Begin(c) \/ Send(c) \/ Lost(c) \/ Refused(c)
      PROVE  AnswersInv'
  BY <1>3, SilentStep
<1>4. ASSUME NEW c \in Callers, Answered(c) PROVE AnswersInv'
  BY <1>4, AnsweredStep
<1> QED BY <1>1, <1>2, <1>3, <1>4 DEF Next

LEMMA AnswersInvariant == Spec => []AnswersInv
<1>1. Init => AnswersInv
  BY InitAnswers
<1>2. RetryInv => LocalsOK
  BY DEF RetryInv
<1>3. AnswersInv /\ LocalsOK' /\ [Next]_vars => AnswersInv'
  BY AnswersStep
<1> QED BY <1>1, <1>2, <1>3, RetryInvariant, PTL DEF Spec

LEMMA AnswersConfirm ==
  ASSUME AnswersInv, NEW c \in Callers, Done(c),
         tx.driver = "aptos" => Included(got[c])
  PROVE  IF ~Included(got[c]) THEN Info(got[c]).confirmations = 0
         ELSE LET place == Placed(got[c]).place
              IN  /\ Info(got[c]).confirmations >= 0
                  /\ Info(got[c]).confirmations >= Confirming(began[c].height, place)
                  /\ Info(got[c]).confirmations <= Confirming(node.height, place)
<1> DEFINE g == got[c]
           b == began[c].height
<1>1. /\ at[c] = "done" /\ NextRequest(g) = "done" /\ Order(g, FALSE)
      /\ b \in Nat /\ node.height \in Nat
      /\ \A r \in DOMAIN g : /\ NodeOK(g[r])
                             /\ b <= g[r].height /\ g[r].height <= node.height
  BY DEF AnswersInv, AnswersOK, NodeOK, Done
<1> HIDE DEF g, b
<1>2. CASE tx.driver = "evm"
  <2>1. Evm!NextRequest(g) = "done" /\ EvmOrder(g)
    BY <1>1, <1>2 DEF NextRequest, Order
  <2>2. Info(g) = Evm!Info(tx, g)
    BY <1>2 DEF Info
  <2>3. CASE g["tx"].place = 0
    <3>1. ~Included(g)
      BY <1>2, <2>1, <2>3 DEF Included, EvmOrder
    <3>2. Info(g).confirmations = 0
      BY <2>2, <2>3 DEF Evm!Info, Evm!Pending
    <3> QED BY <3>1, <3>2 DEF g
  <2>4. CASE g["tx"].place # 0
    <3>1. {"receipt", "latest"} \subseteq DOMAIN g
      BY <2>1, <2>4 DEF Evm!NextRequest
    <3>2. Included(g) /\ Placed(g) = g["receipt"]
      BY <1>2, <3>1 DEF Included, Placed
    <3>3. Info(g).confirmations = g["latest"].height - g["receipt"].place
      BY <2>2, <2>4 DEF Evm!Info
    <3>4. /\ g["receipt"].place \in Int /\ g["latest"].height \in Nat
          /\ g["receipt"].place <= g["latest"].height
      BY <1>1, <2>1, <3>1 DEF EvmOrder, After, NodeOK
    <3> QED BY <1>1, <1>2, <3>1, <3>2, <3>3, <3>4 DEF g, b, Confirming
  <2> QED BY <2>3, <2>4
<1>3. CASE tx.driver = "cosmos"
  <2>1. {"tx", "abci"} \subseteq DOMAIN g /\ CosmosOrder(g)
    BY <1>1, <1>3 DEF NextRequest, Cosmos!NextRequest, Order
  <2>2. Included(g) /\ Placed(g) = g["tx"]
    BY <1>3, <2>1 DEF Included, Placed, CosmosOrder
  <2>3. Info(g).confirmations = g["abci"].height - g["tx"].place
    BY <1>3 DEF Info, Cosmos!Info
  <2>4. /\ g["tx"].place \in Int /\ g["abci"].height \in Nat
        /\ g["tx"].place <= g["abci"].height
    BY <1>1, <2>1 DEF CosmosOrder, After, NodeOK
  <2> QED BY <1>1, <1>3, <2>1, <2>2, <2>3, <2>4 DEF g, b, Confirming
<1>4. CASE tx.driver = "sui"
  <2>1. {"tx", "latest"} \subseteq DOMAIN g /\ SuiOrder(g, FALSE)
    BY <1>1, <1>4 DEF NextRequest, Sui!NextRequest, Order
  <2>2. Included(g) /\ Placed(g) = g["tx"]
    BY <1>4, <2>1 DEF Included, Placed, SuiOrder
  <2>3. Info(g).confirmations = g["latest"].height - g["tx"].place
    BY <1>4 DEF Info, Sui!Info
  <2>4. /\ g["tx"].place \in Int /\ g["latest"].height \in Nat
        /\ g["tx"].place <= g["latest"].height
    BY <1>1, <2>1 DEF SuiOrder, After, NodeOK
  <2> QED BY <1>1, <1>4, <2>1, <2>2, <2>3, <2>4 DEF g, b, Confirming
<1>5. CASE tx.driver = "aptos"
  <2>1. {"tx", "ledger"} \subseteq DOMAIN g /\ After(g, "tx", "ledger")
    BY <1>1, <1>5 DEF NextRequest, Aptos!NextRequest, Order
  <2>2. Included(g) /\ Placed(g) = g["tx"]
    BY <1>5 DEF Included, Placed, g
  <2>3. Info(g).confirmations = g["ledger"].height - g["tx"].place
    BY <1>5 DEF Info, Aptos!Info
  <2>4. /\ g["tx"].place \in Int /\ g["ledger"].height \in Nat
        /\ g["tx"].place <= g["ledger"].height
    BY <1>1, <2>1 DEF After, NodeOK
  <2> QED BY <1>1, <1>5, <2>1, <2>2, <2>3, <2>4 DEF g, b, Confirming
<1>6. CASE tx.driver = "bitcoin"
  <2>1. "tx" \in DOMAIN g /\ g["tx"].place >= 0
    BY <1>1, <1>6 DEF NextRequest, Bitcoin!NextRequest, Order
  <2>2. /\ g["tx"].place \in Int /\ g["tx"].height \in Nat
        /\ g["tx"].place <= g["tx"].height /\ b <= g["tx"].height
        /\ g["tx"].height <= node.height
    BY <1>1, <2>1 DEF NodeOK
  <2>3. Info(g).confirmations = IF g["tx"].place > 0
                                     THEN g["tx"].height - g["tx"].place + 1 ELSE 0
    <3>1. Info(g).confirmations = IF tx.client = "native" THEN Bitcoin!Depth(g["tx"])
                                       ELSE Bitcoin!BlockchairConfirmations(g["tx"])
      BY <1>6 DEF Info, Bitcoin!Info
    <3> QED BY <2>1, <2>2, <3>1 DEF Bitcoin!Depth, Bitcoin!BlockchairConfirmations
  <2>4. (Included(g) <=> g["tx"].place > 0) /\ Placed(g) = g["tx"]
    BY <1>6 DEF Included, Placed
  <2> QED BY <1>1, <1>6, <2>1, <2>2, <2>3, <2>4 DEF g, b, Confirming
<1> QED BY <1>2, <1>3, <1>4, <1>5, <1>6 DEF AnswersInv

\* Whatever is added to the chain between the requests of a caller, and however
\* the chain changes its mind, the confirmations FetchTxInfo reports are those
\* that the transaction had some time between its begin and its end.
THEOREM ConfirmationsStayTrue == Spec => []ConfirmationsAreTrue
<1>1. AnswersInv => ConfirmationsAreTrue
  BY AnswersConfirm DEF ConfirmationsAreTrue
<1> QED BY <1>1, AnswersInvariant, PTL
-----------------------------------------------------------------------------
(* The fee, the status and the order. The answers are of one fork if the    *)
(* node has the fork now that it had when the caller began: it never goes   *)
(* back to an earlier one.                                                  *)

RunOK(n) == n.fork \in Nat /\ (tx.driver = "bitcoin" /\ n.place > 0 => n.ok = TRUE)

ReadOK(c) ==
  /\ RunOK(began[c]) /\ began[c].fork <= node.fork
  /\ \A r \in DOMAIN got[c] :
       RunOK(got[c][r]) /\ began[c].fork <= got[c][r].fork /\ got[c][r].fork <= node.fork
  /\ at[c] = "done" /\ tx.driver = "cosmos" => tx.fee # <<>>

TxIsOfDriver ==
  \/ tx.driver = "evm" /\ tx \in EvmTxs
  \/ tx.driver = "cosmos" /\ tx \in CosmosTxs
  \/ tx.driver = "sui" /\ tx \in SuiTxs
  \/ tx.driver = "aptos" /\ tx \in AptosTxs
  \/ tx.driver = "bitcoin" /\ tx \in BitcoinTxs

ReadInv == TxIsOfDriver /\ RunOK(node) /\ \A c \in Callers : ReadOK(c)

LEMMA InitRead == Init => ReadInv
<1> SUFFICES ASSUME Init PROVE ReadInv
  OBVIOUS
<1>1. TxIsOfDriver
  BY DriversAssumption DEF Init, TxIsOfDriver
<1>2. RunOK(node)
  BY DEF Init, RunOK
<1>3. ASSUME NEW c \in Callers PROVE ReadOK(c)
  <2>1. at[c] = "idle" /\ DOMAIN got[c] = {} /\ began[c] = node
    BY DEF Init
  <2> QED BY <1>2, <2>1 DEF ReadOK, RunOK
<1> QED BY <1>1, <1>2, <1>3 DEF ReadInv

\* What blocks take in runs on Bitcoin, and forks are counted up.
LEMMA NodeRead ==
  ASSUME AnswersInv, ReadInv, Grow \/ ChangeItsMind
  PROVE  ReadInv'
<1>1. UNCHANGED <<tx, at, got, began>>
  BY DEF Grow, ChangeItsMind, callers
<1>2. node = [height |-> node.height, fork |-> node.fork, place |-> node.place, ok |-> node.ok]
      /\ RunOK(node)
  BY DEF AnswersInv, ReadInv
<1>3. RunOK(node)' /\ node.fork <= node'.fork
  <2>1. CASE node' = [node EXCEPT !.height = @ + 1]
    BY <1>1, <1>2, <2>1 DEF RunOK
  <2>2. ASSUME NEW ok \in Runs,
               node' = [node EXCEPT !.height = @ + 1, !.place = node.height + 1, !.ok = ok]
        PROVE  RunOK(node)' /\ node.fork <= node'.fork
    <3>1. node'.fork = node.fork /\ node'.ok = ok
      BY <1>2, <2>2
    <3>2. tx.driver = "bitcoin" => ok = TRUE
      BY <2>2 DEF Runs
    <3> QED BY <1>1, <1>2, <3>1, <3>2 DEF RunOK
  <2>3. CASE ChangeItsMind
    <3>1. node.fork = 0 /\ node'.fork = 1 /\ node'.place \in {0, -1}
      BY <1>2, <2>3 DEF ChangeItsMind
    <3> QED BY <1>1, <3>1 DEF RunOK
  <2> QED BY <2>1, <2>2, <2>3 DEF Grow
<1>4. ASSUME NEW c \in Callers PROVE ReadOK(c)'
  <2>1. ReadOK(c) /\ UNCHANGED <<at[c], got[c], began[c]>>
    BY <1>1 DEF ReadInv
  <2>2. RunOK(began[c])'
    BY <1>1, <2>1 DEF ReadOK, RunOK
  <2>3. \A r \in DOMAIN got'[c] :
          RunOK(got[c][r])' /\ began'[c].fork <= got'[c][r].fork /\ got'[c][r].fork <= node'.fork
    BY <1>1, <1>2, <1>3, <2>1 DEF ReadOK, RunOK
  <2>4. began'[c].fork <= node'.fork
    BY <1>1, <1>2, <1>3, <2>1 DEF ReadOK, RunOK
  <2> QED BY <1>1, <2>1, <2>2, <2>3, <2>4 DEF ReadOK
<1>5. TxIsOfDriver'
  BY <1>1 DEF ReadInv, TxIsOfDriver
<1> QED BY <1>3, <1>4, <1>5 DEF ReadInv

LEMMA SilentRead ==
  ASSUME AnswersInv, ReadInv, NEW c \in Callers,
         Begin(c) \/ Send(c) \/ Lost(c) \/ Refused(c)
  PROVE  ReadInv'
<1>1. /\ at = [d \in Callers |-> at[d]] /\ began = [d \in Callers |-> began[d]]
      /\ at[c] = "idle" => DOMAIN got[c] = {}
  BY DEF AnswersInv, LocalsOK, AnswersOK
<1>2. /\ UNCHANGED <<tx, node, got>>
      /\ \E place \in {"send", "wait", "failed"} : at' = [at EXCEPT ![c] = place]
      /\ \/ began' = began
         \/ began' = [began EXCEPT ![c] = node] /\ at[c] = "idle"
  BY DEF Begin, Send, Lost, Refused, Fail
<1>3. /\ at'[c] \in {"send", "wait", "failed"}
      /\ began'[c] = began[c] \/ (began'[c] = node /\ DOMAIN got[c] = {})
      /\ \A d \in Callers \ {c} : at'[d] = at[d] /\ began'[d] = began[d]
  BY <1>1, <1>2
<1>4. RunOK(node)' /\ TxIsOfDriver'
  BY <1>2 DEF ReadInv, RunOK, TxIsOfDriver
<1>5. ASSUME NEW d \in Callers PROVE ReadOK(d)'
  <2>1. ReadOK(d) /\ RunOK(node)
    BY DEF ReadInv
  <2>2. at'[d] = "done" => at[d] = "done"
    BY <1>3
  <2>3. began'[d] = began[d] \/ (began'[d] = node /\ DOMAIN got[d] = {})
    BY <1>3
  <2>4. CASE began'[d] = began[d]
    BY <1>2, <2>1, <2>2, <2>4 DEF ReadOK, RunOK
  <2>5. CASE began'[d] = node /\ DOMAIN got[d] = {}
    BY <1>2, <2>1, <2>2, <2>5 DEF ReadOK, RunOK
  <2> QED BY <2>3, <2>4, <2>5
<1> QED BY <1>4, <1>5 DEF ReadInv

LEMMA AnsweredRead ==
  ASSUME AnswersInv, ReadInv, NEW c \in Callers, Answered(c)
  PROVE  ReadInv'
<1> DEFINE request == NextRequest(got[c])
           g == [r \in DOMAIN got[c] \cup {request} |-> IF r = request THEN node ELSE got[c][r]]
           last == NextRequest(g) = "done"
           place == CASE Unplaced(g)           -> "failed"
                      [] last /\ Panics(g)  -> "panicked"
                      [] last /\ ~Panics(g) -> "done"
                      [] OTHER                   -> "send"
<1>1. /\ at = [d \in Callers |-> at[d]] /\ got = [d \in Callers |-> got[d]]
      /\ ReadOK(c) /\ RunOK(node)
  BY DEF AnswersInv, LocalsOK, ReadInv
<1>2. /\ UNCHANGED <<tx, node, began>>
      /\ at' = [at EXCEPT ![c] = place] /\ got' = [got EXCEPT ![c] = g]
  BY DEF Answered
<1>3. \A r \in DOMAIN g : RunOK(g[r]) /\ began[c].fork <= g[r].fork /\ g[r].fork <= node.fork
  BY <1>1 DEF ReadOK, RunOK
<1>4. place = "done" => ~Panics(g)
  <2> HIDE DEF g, last
  <2>1. CASE Unplaced(g)
    <3>1. place = "failed" \/ last
      BY <2>1
    <3>2. Unplaced(g) => ~last
      BY DEF Unplaced, NextRequest, Sui!NextRequest, last
    <3> QED BY <2>1, <3>1, <3>2
  <2>2. CASE ~Unplaced(g) /\ last /\ Panics(g)
    <3>1. place = "panicked"
      BY <2>2
    <3> QED BY <3>1
  <2>3. CASE ~Unplaced(g) /\ last /\ ~Panics(g)
    BY <2>3
  <2>4. CASE ~Unplaced(g) /\ ~last
    <3>1. place = "send"
      BY <2>4
    <3> QED BY <3>1
  <2> QED BY <2>1, <2>2, <2>3, <2>4
<1>5. ~Panics(g) => (tx.driver = "cosmos" => tx.fee # <<>>)
  BY DEF Panics, Cosmos!Panics
<1> HIDE DEF request, g, last, place
<1>6. /\ at'[c] = place /\ got'[c] = g
      /\ \A d \in Callers \ {c} : at'[d] = at[d] /\ got'[d] = got[d]
  BY <1>1, <1>2
<1>7. ReadOK(c)'
  BY <1>1, <1>2, <1>3, <1>4, <1>5, <1>6 DEF ReadOK, RunOK
<1>8. ASSUME NEW d \in Callers \ {c} PROVE ReadOK(d)'
  <2>1. ReadOK(d) /\ at'[d] = at[d] /\ began'[d] = began[d] /\ got'[d] = got[d]
    BY <1>2, <1>6 DEF ReadInv
  <2> QED BY <1>2, <2>1 DEF ReadOK, RunOK
<1>9. RunOK(node)' /\ TxIsOfDriver'
  BY <1>1, <1>2 DEF ReadInv, RunOK, TxIsOfDriver
<1> QED BY <1>7, <1>8, <1>9 DEF ReadInv

LEMMA ReadInvariant == Spec => []ReadInv
<1>1. AnswersInv /\ ReadInv /\ [Next]_vars => ReadInv'
  <2> SUFFICES ASSUME AnswersInv, ReadInv, [Next]_vars PROVE ReadInv'
    OBVIOUS
  <2>1. CASE UNCHANGED vars
    <3>1. UNCHANGED <<tx, node, at, got, began>>
      BY <2>1 DEF vars
    <3>2. ASSUME NEW c \in Callers PROVE ReadOK(c)'
      <4>1. ReadOK(c)
        BY DEF ReadInv
      <4> QED BY <3>1, <4>1 DEF ReadOK, RunOK
    <3>3. RunOK(node)' /\ TxIsOfDriver'
      BY <3>1 DEF ReadInv, RunOK, TxIsOfDriver
    <3> QED BY <3>2, <3>3 DEF ReadInv
  <2> QED BY <2>1, NodeRead, SilentRead, AnsweredRead DEF Next
<1> QED BY <1>1, InitRead, AnswersInvariant, PTL DEF Spec

\* The smaller of two numbers, so many times.
LEMMA SmallerTimes ==
  ASSUME NEW n \in Nat, NEW a \in Nat, NEW b \in Nat
  PROVE  Evm!SmallerOf(n * a, b * n) = n * Evm!SmallerOf(b, a)
<1>1. n * a \in Nat /\ b * n \in Nat /\ b * n = n * b
  OBVIOUS
<1>2. CASE a < b
  <2>1. b - a \in Nat /\ n * (b - a) \in Nat /\ n * b = n * a + n * (b - a)
    BY <1>2
  <2>2. n * a <= b * n
    BY <1>1, <2>1
  <2> QED BY <1>1, <1>2, <2>2 DEF Evm!SmallerOf
<1>3. CASE b <= a
  <2>1. a - b \in Nat /\ n * (a - b) \in Nat /\ n * a = n * b + n * (a - b)
    BY <1>3
  <2>2. b * n <= n * a
    BY <1>1, <2>1
  <2> QED BY <1>1, <1>3, <2>2 DEF Evm!SmallerOf
<1> QED BY <1>2, <1>3

\* The fee that is computed from the receipt and the block is the one taken.
LEMMA EvmFeeIsPaid ==
  ASSUME NEW t \in EvmTxs, NEW h \in Nat, NEW f \in Nat
  PROVE  Evm!Fee(t, Evm!BaseFee(h, f)) = Evm!TrueFee(t, h, f)
<1> DEFINE base == Evm!BaseFee(h, f)
<1>1. GasUsed \in Nat /\ t.tip \in Nat /\ t.cap \in Nat
  BY EvmAssumption
<1>2. base \in Nat
  <2> DEFINE L == Len(BaseFees)
             k == (h + f) % L
  <2>1. L \in Nat /\ L > 0 /\ BaseFees \in [1..L -> Nat]
    BY EvmAssumption, BoundsAssumption
  <2>2. base = BaseFees[1 + k]
    BY DEF Evm!BaseFee
  <2> HIDE DEF L
  <2>3. k \in 0..(L - 1)
    BY <2>1
  <2> HIDE DEF k
  <2>4. 1 + k \in 1..L
    BY <2>1, <2>3
  <2> QED BY <2>1, <2>2, <2>4
<1> HIDE DEF base
<1>3. CASE t.legacy
  <2>1. Evm!Fee(t, base) = GasUsed * Evm!SmallerOf(t.cap, base + t.cap)
    <3>1. Evm!Fee(t, base) = Evm!SmallerOf(GasUsed * (base + t.cap), t.cap * GasUsed)
      BY <1>3, Zenon DEF Evm!Fee, Evm!Tip
    <3>2. base + t.cap \in Nat
      BY <1>1, <1>2
    <3> QED BY <1>1, <3>1, <3>2, SmallerTimes, SMTT(30)
  <2>2. Evm!SmallerOf(t.cap, base + t.cap) = t.cap
    BY <1>1, <1>2 DEF Evm!SmallerOf
  <2> QED BY <1>3, <2>1, <2>2 DEF Evm!TrueFee, base
<1>4. CASE ~t.legacy
  <2>1. Evm!Fee(t, base) = GasUsed * Evm!SmallerOf(t.cap, base + t.tip)
    <3>1. Evm!Fee(t, base) = Evm!SmallerOf(GasUsed * (base + t.tip), t.cap * GasUsed)
      BY <1>4, Zenon DEF Evm!Fee, Evm!Tip
    <3>2. base + t.tip \in Nat
      BY <1>1, <1>2
    <3> QED BY <1>1, <3>1, <3>2, SmallerTimes, SMTT(30)
  <2> QED BY <1>4, <2>1 DEF Evm!TrueFee, base
<1> QED BY <1>3, <1>4

\* The call that the builder makes of a transfer is read as that transfer, it
\* runs, and it moves what was ordered.
LEMMA TransferIsRead ==
  ASSUME NEW t \in EvmTxs, t.order # None
  PROVE  /\ Evm!To(t) = t.order.to /\ Evm!Amount(t) = t.order.amount /\ t.from = t.order.from
         /\ Evm!ContractAddress(t) = t.order.contract
         /\ Evm!Runs(t) /\ Evm!Moves(t) = t.intended
<1> DEFINE o == t.order
           made == Evm!NewTransfer(TransferOf(o))
<1>1. /\ t.from = o.from /\ t.to = made.to /\ t.value = made.value /\ t.sig = made.sig
      /\ t.args = made.args /\ o.amount \in Nat \ {0} /\ None # "transfer"
      /\ Evm!HexToAddress(o.to) = o.to
      /\ o.contract # None => Evm!HexToAddress(o.contract) = o.contract
      /\ o.contract # None => o.contract \in DOMAIN Abi /\ "transfer" \in Abi[o.contract]
      /\ t.intended = << [asset |-> IF o.contract = None THEN Native ELSE o.contract,
                          from |-> o.from, to |-> o.to, amount |-> o.amount] >>
  BY EvmAssumption DEF Evm!HexToAddress, Evm!Decode
<1>2. CASE o.contract = None
  <2>1. made = [ok |-> TRUE, to |-> o.to, value |-> o.amount, sig |-> None, args |-> <<>>]
    BY <1>1, <1>2 DEF Evm!NewTransfer, TransferOf, Evm!Call
  <2> HIDE DEF made, o
  <2>2. t.to = o.to /\ t.value = o.amount /\ t.sig = None
    BY <1>1, <2>1
  <2>3. /\ Evm!To(t) = o.to /\ Evm!Amount(t) = o.amount /\ Evm!ContractAddress(t) = None
        /\ Evm!Runs(t)
    BY <1>1, <2>2 DEF Evm!To, Evm!Amount, Evm!ContractAddress, Evm!IsERC20, Evm!IsContract,
                      Evm!Runs
  <2>4. Evm!Moves(t) = << Evm!Move(Native, t.from, t.to, t.value) >>
    BY <1>1, <2>2 DEF Evm!Moves
  <2> QED BY <1>1, <1>2, <2>2, <2>3, <2>4 DEF o, Evm!Move
<1>3. CASE o.contract # None
  <2>1. made = [ok |-> TRUE, to |-> o.contract, value |-> 0, sig |-> "transfer",
                args |-> <<o.to, o.amount>>]
    BY <1>1, <1>3 DEF Evm!NewTransfer, TransferOf, Evm!Call, Evm!BuildERC20Payload
  <2> HIDE DEF made, o
  <2>2. /\ t.to = o.contract /\ t.value = 0 /\ t.sig = "transfer"
        /\ Len(t.args) = 2 /\ t.args[1] = o.to /\ t.args[2] = o.amount
    BY <1>1, <2>1
  <2>3. /\ Evm!To(t) = o.to /\ Evm!Amount(t) = o.amount
        /\ Evm!ContractAddress(t) = o.contract
    BY <1>1, <2>2 DEF Evm!To, Evm!Amount, Evm!ContractAddress, Evm!IsERC20, Evm!IsContract
  <2>4. Evm!Runs(t)
    BY <1>1, <1>3, <2>2 DEF Evm!Runs, Evm!Words, Evm!Payable
  <2>5. Evm!Moves(t) = << Evm!Move(t.to, t.from, o.to, o.amount) >>
    <3>1. Evm!MethodMoves(t) = << Evm!Move(t.to, t.from, o.to, o.amount) >>
      BY <2>2 DEF Evm!MethodMoves
    <3> QED BY <1>1, <1>3, <2>2, <3>1 DEF Evm!Moves
  <2> QED BY <1>1, <1>3, <2>2, <2>3, <2>4, <2>5 DEF o, Evm!Move
<1> QED BY <1>2, <1>3

\* What there is when FetchTxInfo is done, of one fork, if that has not changed.
LEMMA SettledAnswers ==
  ASSUME AnswersInv, ReadInv, NEW c \in Callers, Settled(c)
  PROVE  /\ NextRequest(got[c]) = "done" /\ Order(got[c], FALSE)
         /\ \A r \in DOMAIN got[c] : /\ NodeOK(got[c][r]) /\ RunOK(got[c][r])
                                     /\ got[c][r].fork = node.fork
         /\ tx.driver = "cosmos" => tx.fee # <<>>
<1>1. AnswersOK(c) /\ ReadOK(c) /\ at[c] = "done" /\ began[c].fork = node.fork
  BY DEF AnswersInv, ReadInv, Settled, Done
<1>2. \A r \in DOMAIN got[c] : got[c][r].fork = node.fork
  BY <1>1 DEF ReadOK, RunOK
<1> QED BY <1>1, <1>2 DEF AnswersOK, ReadOK

LEMMA EvmRead ==
  ASSUME AnswersInv, ReadInv, NEW c \in Callers, Settled(c), tx.driver = "evm"
  PROVE  /\ FeeIsTrue(Info(got[c]), Placed(got[c])) /\ StatusIsTrue(Info(got[c]), Placed(got[c]))
         /\ OrderIsReadBack(Info(got[c]), Placed(got[c]))
<1> DEFINE g == got[c]
           info == Info(g)
           placed == Placed(g)
<1>1. /\ Evm!NextRequest(g) = "done" /\ EvmOrder(g) /\ "receipt" \in DOMAIN g
      /\ \A r \in DOMAIN g : NodeOK(g[r]) /\ RunOK(g[r]) /\ g[r].fork = node.fork
  BY SettledAnswers DEF NextRequest, Order, Settled, Included
<1>2. tx \in EvmTxs
  BY DEF ReadInv, TxIsOfDriver
<1>3. "header" \in DOMAIN g /\ g["tx"].place > 0 /\ placed = g["receipt"]
  BY <1>1 DEF Evm!NextRequest, EvmOrder, Placed
<1>4. /\ placed.place \in Nat /\ placed.fork \in Nat /\ g["header"].fork = placed.fork
  BY <1>1, <1>3 DEF EvmOrder, NodeOK, RunOK
<1>5. /\ info.from = tx.from /\ info.to = Evm!To(tx) /\ info.contract = Evm!ContractAddress(tx)
      /\ info.amount = Evm!Amount(tx)
      /\ info.fee = Evm!Fee(tx, Evm!BaseFee(placed.place, placed.fork))
      /\ info.failed = ~placed.ok
  <2>1. info = Evm!Info(tx, g) /\ g["tx"].place # 0
    BY <1>1, <1>3 DEF Info, NodeOK, EvmOrder
  <2> HIDE DEF info
  <2> QED BY <1>3, <1>4, <2>1 DEF Evm!Info
<1> HIDE DEF info, placed
<1>6. FeeIsTrue(info, placed)
  BY <1>2, <1>4, <1>5, EvmFeeIsPaid DEF FeeIsTrue, Fee
<1>7. StatusIsTrue(info, placed)
  BY <1>5 DEF StatusIsTrue
<1>8. OrderIsReadBack(info, placed)
  <2> SUFFICES ASSUME tx.order # None
               PROVE  /\ Evm!To(tx) = tx.order.to /\ Evm!Amount(tx) = tx.order.amount
                      /\ tx.from = tx.order.from /\ Evm!ContractAddress(tx) = tx.order.contract
    BY <1>5 DEF OrderIsReadBack
  <2> QED BY <1>2, TransferIsRead
<1> QED BY <1>6, <1>7, <1>8 DEF info, placed, g

LEMMA AptosRead ==
  ASSUME AnswersInv, ReadInv, NEW c \in Callers, Settled(c), tx.driver = "aptos"
  PROVE  /\ FeeIsTrue(Info(got[c]), Placed(got[c])) /\ StatusIsTrue(Info(got[c]), Placed(got[c]))
         /\ OrderIsReadBack(Info(got[c]), Placed(got[c]))
<1> DEFINE info == Info(got[c])
<1>1. info = Aptos!Info(tx, got[c])
  BY DEF Info
<1>2. /\ info.from = tx.from /\ info.to = Aptos!toFromTxPayload(tx.payload)
      /\ info.amount = Aptos!valueFromTxPayload(tx.payload) /\ info.fee = tx.gas
  BY <1>1 DEF Aptos!Info
<1> HIDE DEF info
<1>3. FeeIsTrue(info, Placed(got[c])) /\ StatusIsTrue(info, Placed(got[c]))
  BY <1>2 DEF FeeIsTrue, Fee, StatusIsTrue
<1>4. ASSUME tx.order # None
      PROVE  /\ info.from = tx.order.from /\ info.to = tx.order.to
             /\ info.amount = tx.order.amount
  <2>1. /\ tx.from = tx.order.from /\ tx.payload.function # "batch_transfer_coins"
        /\ tx.payload.arguments = <<tx.order.to, tx.order.amount>>
    BY <1>4, AptosAssumption DEF ReadInv, TxIsOfDriver
  <2>2. /\ Aptos!toFromTxPayload(tx.payload) = tx.order.to
        /\ Aptos!valueFromTxPayload(tx.payload) = tx.order.amount
    BY <2>1 DEF Aptos!toFromTxPayload, Aptos!valueFromTxPayload
  <2> QED BY <1>2, <2>1, <2>2
<1>5. OrderIsReadBack(info, Placed(got[c]))
  BY <1>4 DEF OrderIsReadBack
<1> QED BY <1>3, <1>5 DEF info

LEMMA CosmosRead ==
  ASSUME AnswersInv, ReadInv, NEW c \in Callers, Settled(c), tx.driver = "cosmos"
  PROVE  FeeIsTrue(Info(got[c]), Placed(got[c])) /\ StatusIsTrue(Info(got[c]), Placed(got[c]))
<1> DEFINE info == Info(got[c])
           placed == Placed(got[c])
<1>1. info = Cosmos!Info(tx, got[c]) /\ placed = got[c]["tx"]
  BY DEF Info, Placed
<1>2. info.fee = tx.fee[1].amount /\ info.failed = ~placed.ok
  BY <1>1 DEF Cosmos!Info
<1> HIDE DEF info, placed
<1>3. tx.gas = tx.fee[1].amount
  BY SettledAnswers, FeesAssumption DEF ReadInv, TxIsOfDriver
<1> QED BY <1>2, <1>3 DEF FeeIsTrue, Fee, StatusIsTrue, info, placed

LEMMA BitcoinRead ==
  ASSUME AnswersInv, ReadInv, NEW c \in Callers, Settled(c), tx.driver = "bitcoin"
  PROVE  FeeIsTrue(Info(got[c]), Placed(got[c])) /\ StatusIsTrue(Info(got[c]), Placed(got[c]))
<1> DEFINE info == Info(got[c])
           placed == Placed(got[c])
           in == Bitcoin!Total(tx.inputs)
           out == Bitcoin!Total(tx.outputs)
<1>1. info = Bitcoin!Info(tx, got[c]) /\ placed = got[c]["tx"]
  BY DEF Info, Placed
<1>2. /\ info.fee = IF tx.client = "native" THEN Bitcoin!NativeFee(tx) ELSE in - out
      /\ info.failed = FALSE
  BY <1>1 DEF Bitcoin!Info
<1> HIDE DEF info, in, out
<1>3. placed.ok = TRUE
  <2>1. "tx" \in DOMAIN got[c] /\ placed.place > 0
    BY <1>1, SettledAnswers DEF Settled, Included, NextRequest, Bitcoin!NextRequest
  <2> QED BY <1>1, <2>1, SettledAnswers DEF RunOK
<1>4. in \in Nat /\ out \in Nat /\ tx.gas = in - out /\ tx.gas >= 0 /\ tx.ownFee \in {0, tx.gas}
  BY FeesAssumption DEF ReadInv, TxIsOfDriver, in, out
<1>5. Bitcoin!NativeFee(tx) = tx.gas
  <2>1. Bitcoin!NativeFee(tx) = IF tx.ownFee # 0 THEN tx.ownFee
                                ELSE IF in > out THEN in - out ELSE 0
    BY DEF Bitcoin!NativeFee, in, out
  <2> QED BY <1>4, <2>1
<1> QED BY <1>2, <1>3, <1>4, <1>5 DEF FeeIsTrue, Fee, StatusIsTrue, info, placed

LEMMA SuiRead ==
  ASSUME NEW c \in Callers, tx.driver = "sui"
  PROVE  StatusIsTrue(Info(got[c]), Placed(got[c]))
BY DEF Info, Sui!Info, Placed, StatusIsTrue

\* Of a transaction that is in a block and stays there every chain's FetchTxInfo
\* reports whether it failed, if it reports that at all, and all but Sui's the
\* fee that was paid, whatever was added to the chain between the requests.
THEOREM FeesAndStatusAreTrue ==
  Spec => [](\A c \in Callers : Settled(c) =>
               /\ StatusIsTrue(Info(got[c]), Placed(got[c]))
               /\ tx.driver # "sui" => FeeIsTrue(Info(got[c]), Placed(got[c])))
<1>1. AnswersInv /\ ReadInv =>
        \A c \in Callers : Settled(c) =>
          /\ StatusIsTrue(Info(got[c]), Placed(got[c]))
          /\ tx.driver # "sui" => FeeIsTrue(Info(got[c]), Placed(got[c]))
  BY EvmRead, AptosRead, CosmosRead, BitcoinRead, SuiRead DEF ReadInv, TxIsOfDriver
<1> QED BY <1>1, AnswersInvariant, ReadInvariant, PTL

\* On EVM chains and on Aptos the rest is true, too: of a transfer that this
\* library built FetchTxInfo reports who paid whom, how much and in what.
THEOREM OrdersAreReadBack == Spec => [](tx.driver \in {"evm", "aptos"} => InfoIsTrue)
<1>1. AnswersInv /\ ReadInv => (tx.driver \in {"evm", "aptos"} => InfoIsTrue)
  BY EvmRead, AptosRead DEF InfoIsTrue
<1> QED BY <1>1, AnswersInvariant, ReadInvariant, PTL

\* A transfer on an EVM chain, of its own asset or of a token, runs and moves
\* what was ordered, once: the amount is the value or a parameter, not both.
THEOREM TransfersAreCarriedOut == Spec => [](tx.order # None => OrdersAreCarriedOut)
<1>1. ReadInv => (tx.order # None => OrdersAreCarriedOut)
  BY TransferIsRead DEF ReadInv, TxIsOfDriver, OrdersAreCarriedOut
<1> QED BY <1>1, ReadInvariant, PTL
-----------------------------------------------------------------------------
(* The dashboard. Under any number of concurrent requests it gives no id   *)
(* twice, keeps a paired wallet for every session and loses nothing: a     *)
(* goroutine between Lock and Unlock is the writer, and there is one       *)
(* writer; so the number it drew is still the largest when it stores what  *)
(* it made, and the wallet it looked up is still there.                    *)

Locals ==
  /\ pc = [c \in Clients |-> pc[c]]
  /\ call = [c \in Clients |-> call[c]]
  /\ draft = [c \in Clients |-> draft[c]]
  /\ \A c \in Clients : "wallet" \in DOMAIN draft[c]

OneWriter ==
  /\ \A c \in Clients :
       pc[c] \in {"wait", "lookup", "bump", "store", "unlock"} => writer = c
  /\ \A c \in Clients : pc[c] \in {"size", "copy", "runlock"} => c \in readers
  /\ \A c \in Clients :
       pc[c] \in {"lookup", "bump", "store", "unlock"} => readers = {}

IdsUsed ==
  /\ nextID \in Nat
  /\ \A id \in DOMAIN wallets : id \in 1..nextID
  /\ IsSeq(sessions)
  /\ \A i \in 1..Len(sessions) : sessions[i].id \in 1..nextID

NumberIsFresh ==
  \A c \in Clients : pc[c] = "store" =>
    /\ nextID > 0 /\ nextID \notin DOMAIN wallets
    /\ \A i \in 1..Len(sessions) : sessions[i].id < nextID

WalletIsThere ==
  \A c \in Clients : pc[c] \in {"bump", "store"} /\ call[c].op = "create" =>
    /\ draft[c].wallet.id \in DOMAIN wallets
    /\ draft[c].wallet = wallets[draft[c].wallet.id]

WalletsKnowTheirId == \A id \in DOMAIN wallets : wallets[id].id = id

IInv == /\ Locals /\ OneWriter /\ IdsUsed /\ NumberIsFresh
        /\ WalletsKnowTheirId /\ WalletIsThere
        /\ IdsAreDistinct /\ SessionsHaveWallets
-----------------------------------------------------------------------------
LEMMA InitIInv == ServiceInit => IInv
<1> SUFFICES ASSUME ServiceInit PROVE IInv
  OBVIOUS
<1>1. Locals /\ OneWriter /\ NumberIsFresh /\ WalletIsThere
  BY DEF ServiceInit, EmptyDraft, Locals, OneWriter, NumberIsFresh, WalletIsThere
<1>2. Len(sessions) = 0 /\ DOMAIN wallets = {} /\ nextID = 0 /\ IsSeq(sessions)
  BY DEF ServiceInit, NewService, IsSeq
<1> QED
  BY <1>1, <1>2
     DEF IInv, IdsUsed, WalletsKnowTheirId, IdsAreDistinct, SessionsHaveWallets

\* The steps that leave the registry alone need only keep the locals.
LEMMA QuietKeeps ==
  ASSUME IInv, UNCHANGED service, Locals', OneWriter', WalletIsThere',
         \A c \in Clients : pc'[c] = "store" => pc[c] = "store"
  PROVE  IInv'
<1>1. IdsUsed' /\ WalletsKnowTheirId' /\ IdsAreDistinct' /\ SessionsHaveWallets'
  BY DEF IInv, service, IdsUsed, IsSeq, WalletsKnowTheirId, IdsAreDistinct,
         SessionsHaveWallets
<1>2. NumberIsFresh'
  BY DEF IInv, service, NumberIsFresh
<1> QED
  BY <1>1, <1>2 DEF IInv

LEMMA LockKeeps ==
  ASSUME DashboardAssumption, IInv, NEW c \in Clients,
         \/ \E req \in Requests : Receive(c, req)
         \/ Announce(c) \/ Enter(c) \/ RLock(c) \/ RUnlock(c) \/ Unlock(c)
  PROVE  IInv'
<1> USE DEF Goto, service, mu
<1>0. Locals /\ OneWriter /\ WalletIsThere
  BY DEF IInv
<1>1. ASSUME NEW req \in Requests, Receive(c, req) PROVE IInv'
  <2>1. /\ pc'[c] \in {"lock", "rlock", "idle"}
        /\ \A d \in Clients \ {c} : /\ pc'[d] = pc[d] /\ call'[d] = call[d]
                                    /\ draft'[d] = draft[d]
        /\ UNCHANGED <<writer, readers>> /\ UNCHANGED service
    BY <1>0, <1>1 DEF Receive, Locals
  <2>2. Locals'
    BY <1>0, <1>1 DEF Receive, Locals, EmptyDraft
  <2>3. OneWriter' /\ WalletIsThere'
    BY <1>0, <2>1 DEF OneWriter, WalletIsThere
  <2> QED
    BY <2>1, <2>2, <2>3, QuietKeeps
<1>2. CASE Announce(c)
  <2>1. Locals' /\ pc'[c] = "wait" /\ \A d \in Clients \ {c} : pc'[d] = pc[d]
    BY <1>0, <1>2 DEF Announce, Locals
  <2>2. OneWriter'
    BY <1>0, <1>2, <2>1 DEF Announce, OneWriter, DashboardAssumption
  <2>3. WalletIsThere'
    BY <1>0, <1>2, <2>1 DEF Announce, WalletIsThere
  <2> QED
    BY <1>2, <2>1, <2>2, <2>3, QuietKeeps DEF Announce
<1>3. CASE Enter(c)
  <2>1. /\ Locals' /\ \A d \in Clients \ {c} : pc'[d] = pc[d]
        /\ pc'[c] \in {"bump", "lookup"}
        /\ pc'[c] = "bump" => call[c].op = "pair"
    BY <1>0, <1>3 DEF Enter, Locals
  <2>2. OneWriter'
    BY <1>0, <1>3, <2>1 DEF Enter, OneWriter
  <2>3. WalletIsThere'
    BY <1>0, <1>3, <2>1 DEF Enter, WalletIsThere
  <2> QED
    BY <1>3, <2>1, <2>2, <2>3, QuietKeeps DEF Enter
<1>4. CASE RLock(c)
  <2>1. /\ Locals' /\ \A d \in Clients \ {c} : pc'[d] = pc[d]
        /\ pc'[c] \in {"size", "blocked"}
    BY <1>0, <1>4 DEF RLock, Locals
  <2>2. OneWriter'
    BY <1>0, <1>4, <2>1 DEF RLock, OneWriter, Locals, DashboardAssumption
  <2>3. WalletIsThere'
    BY <1>0, <1>4, <2>1 DEF RLock, WalletIsThere
  <2> QED
    BY <1>4, <2>1, <2>2, <2>3, QuietKeeps DEF RLock
<1>5. CASE RUnlock(c)
  <2>1. Locals' /\ pc'[c] = "idle" /\ \A d \in Clients \ {c} : pc'[d] = pc[d]
    BY <1>0, <1>5 DEF RUnlock, Locals
  <2>2. OneWriter'
    BY <1>0, <1>5, <2>1 DEF RUnlock, OneWriter
  <2>3. WalletIsThere'
    BY <1>0, <1>5, <2>1 DEF RUnlock, WalletIsThere
  <2> QED
    BY <1>5, <2>1, <2>2, <2>3, QuietKeeps DEF RUnlock
<1>6. CASE Unlock(c)
  <2>1. /\ Locals' /\ pc'[c] = "idle"
        /\ \A d \in Clients \ {c} : /\ pc[d] = "blocked" => pc'[d] = "size"
                                    /\ pc[d] # "blocked" => pc'[d] = pc[d]
        /\ \A d \in Clients : pc[d] = "blocked" => d \in readers'
        /\ readers \subseteq readers'
    BY <1>0, <1>6 DEF Unlock, Locals
  <2>2. \A d \in Clients \ {c} :
          pc'[d] \notin {"wait", "lookup", "bump", "store", "unlock"}
    BY <1>0, <1>6, <2>1 DEF Unlock, OneWriter
  <2>3. OneWriter' /\ WalletIsThere'
    BY <1>0, <2>1, <2>2 DEF OneWriter, WalletIsThere
  <2> QED
    BY <1>6, <2>1, <2>2, <2>3, QuietKeeps DEF Unlock
<1> QED
  BY <1>1, <1>2, <1>3, <1>4, <1>5, <1>6

LEMMA ListKeeps ==
  ASSUME IInv, NEW c \in Clients,
         Size(c) \/ ListWallets(c) \/ ListBridgeSessions(c) \/ ListRoutes(c)
  PROVE  IInv'
<1> USE DEF Goto, Return, service, mu
<1>1. /\ Locals' /\ UNCHANGED <<call, writer, readers, wallets, sessions, nextID>>
      /\ pc[c] \in {"size", "copy"} /\ pc'[c] \in {"copy", "runlock"}
      /\ \A d \in Clients \ {c} : pc'[d] = pc[d] /\ draft'[d] = draft[d]
  BY DEF IInv, Locals, Size, ListWallets, ListBridgeSessions, ListRoutes
<1>2. OneWriter' /\ WalletIsThere'
  BY <1>1 DEF IInv, OneWriter, WalletIsThere
<1> QED
  BY <1>1, <1>2, QuietKeeps

LEMMA LookupKeeps ==
  ASSUME IInv, NEW c \in Clients, Lookup(c)
  PROVE  IInv'
<1> USE DEF Goto, Return, service, mu
<1>1. /\ Locals' /\ UNCHANGED <<call, writer, readers, wallets, sessions, nextID>>
      /\ pc[c] = "lookup" /\ pc'[c] \in {"bump", "unlock"}
      /\ \A d \in Clients \ {c} : pc'[d] = pc[d] /\ draft'[d] = draft[d]
  BY DEF IInv, Locals, Lookup
<1>2. OneWriter'
  BY <1>1 DEF IInv, OneWriter
<1>3. pc'[c] = "bump" => /\ draft'[c].wallet.id \in DOMAIN wallets
                         /\ draft'[c].wallet = wallets[draft'[c].wallet.id]
  <2> SUFFICES ASSUME pc'[c] = "bump"
               PROVE  /\ draft'[c].wallet.id \in DOMAIN wallets
                      /\ draft'[c].wallet = wallets[draft'[c].wallet.id]
    OBVIOUS
  <2>1. /\ call[c].wallet \in DOMAIN wallets
        /\ draft' = [draft EXCEPT ![c].wallet = wallets[call[c].wallet]]
    BY DEF Lookup, IInv, Locals
  <2>2. draft'[c].wallet = wallets[call[c].wallet]
    BY <2>1 DEF IInv, Locals
  <2> QED
    BY <2>1, <2>2 DEF IInv, WalletsKnowTheirId
<1>4. WalletIsThere'
  BY <1>1, <1>3 DEF IInv, WalletIsThere
<1> QED
  BY <1>1, <1>2, <1>4, QuietKeeps

\* While c is inside, nobody else has drawn a number or looked up a wallet.
LEMMA Alone ==
  ASSUME IInv, NEW c \in Clients, pc[c] \in {"bump", "store"},
         NEW d \in Clients \ {c}
  PROVE  pc[d] \notin {"wait", "lookup", "bump", "store", "unlock", "size", "copy",
                       "runlock"}
BY DEF IInv, OneWriter

LEMMA BumpKeeps ==
  ASSUME IInv, NEW c \in Clients, Bump(c)
  PROVE  IInv'
<1> USE DEF Goto, mu
<1>1. /\ Locals' /\ UNCHANGED <<call, draft, writer, readers, wallets, sessions>>
      /\ nextID' = nextID + 1 /\ nextID \in Nat
      /\ pc[c] = "bump" /\ pc'[c] = "store"
      /\ \A d \in Clients \ {c} : pc'[d] = pc[d]
  BY DEF IInv, Locals, Bump, IdsUsed
<1>2. OneWriter' /\ WalletIsThere'
  BY <1>1 DEF IInv, OneWriter, WalletIsThere
<1>3. IdsUsed'
  BY <1>1 DEF IInv, IdsUsed, IsSeq
<1>4. NumberIsFresh'
  BY <1>1 DEF IInv, IdsUsed, NumberIsFresh
<1>5. WalletsKnowTheirId' /\ IdsAreDistinct' /\ SessionsHaveWallets'
  BY <1>1 DEF IInv, WalletsKnowTheirId, IdsAreDistinct, SessionsHaveWallets
<1> QED
  BY <1>1, <1>2, <1>3, <1>4, <1>5 DEF IInv

LEMMA PairWalletKeeps ==
  ASSUME IInv, NEW c \in Clients, PairWallet(c)
  PROVE  /\ IInv'
         /\ \A id \in DOMAIN wallets : id \in DOMAIN wallets' /\ wallets'[id] = wallets[id]
<1> USE DEF Goto, Return, mu
<1>1. /\ Locals' /\ UNCHANGED <<call, draft, writer, readers, sessions, nextID>>
      /\ pc[c] = "store" /\ pc'[c] = "unlock" /\ call[c].op = "pair"
      /\ \A d \in Clients \ {c} : pc'[d] = pc[d]
  BY DEF IInv, Locals, PairWallet
<1>2. \A d \in Clients : pc'[d] \notin {"bump", "store"}
  BY <1>1, Alone
<1>3. OneWriter' /\ WalletIsThere' /\ NumberIsFresh'
  BY <1>1, <1>2 DEF IInv, OneWriter, WalletIsThere, NumberIsFresh
<1>4. nextID \notin DOMAIN wallets /\ \A i \in 1..Len(sessions) : sessions[i].id < nextID
  BY <1>1 DEF IInv, NumberIsFresh
<1>5. /\ DOMAIN wallets' = DOMAIN wallets \cup {nextID}
      /\ wallets'[nextID].id = nextID
      /\ \A id \in DOMAIN wallets : wallets'[id] = wallets[id]
  BY <1>4 DEF PairWallet
<1>6. nextID \in 1..nextID
  BY <1>1 DEF IInv, IdsUsed, NumberIsFresh
<1>7. IdsUsed'
  BY <1>1, <1>5, <1>6 DEF IInv, IdsUsed, IsSeq
<1>8. WalletsKnowTheirId'
  BY <1>5 DEF IInv, WalletsKnowTheirId
<1>9. IdsAreDistinct' /\ SessionsHaveWallets'
  <2>1. IdsAreDistinct /\ SessionsHaveWallets /\ sessions' = sessions
    BY <1>1 DEF IInv
  <2>2. \A i \in 1..Len(sessions) : sessions[i].id \notin DOMAIN wallets'
    BY <1>4, <1>5, <2>1 DEF IInv, IdsUsed, IdsAreDistinct
  <2>3. IdsAreDistinct'
    BY <2>1, <2>2 DEF IdsAreDistinct
  <2>4. SessionsHaveWallets'
    BY <1>5, <2>1 DEF SessionsHaveWallets
  <2> QED BY <2>3, <2>4
<1> QED
  BY <1>1, <1>3, <1>5, <1>7, <1>8, <1>9 DEF IInv

LEMMA CreateBridgeSessionKeeps ==
  ASSUME IInv, NEW c \in Clients, CreateBridgeSession(c)
  PROVE  /\ IInv'
         /\ Len(sessions') >= Len(sessions)
         /\ SubSeq(sessions', 1, Len(sessions)) = sessions
<1> USE DEF Goto, Return, mu
<1> DEFINE w == draft[c].wallet
           s == [id |-> nextID, wallet |-> w,
                 route |-> SelectRoute(w.chain, call[c].to, call[c].prefer)]
<1>1. /\ Locals' /\ UNCHANGED <<call, draft, writer, readers, wallets, nextID>>
      /\ pc[c] = "store" /\ pc'[c] = "unlock" /\ call[c].op = "create"
      /\ \A d \in Clients \ {c} : pc'[d] = pc[d]
  BY DEF IInv, Locals, CreateBridgeSession
<1>2. \A d \in Clients : pc'[d] \notin {"bump", "store"}
  BY <1>1, Alone
<1>3. OneWriter' /\ WalletIsThere' /\ NumberIsFresh'
  BY <1>1, <1>2 DEF IInv, OneWriter, WalletIsThere, NumberIsFresh
<1>4. /\ nextID > 0 /\ nextID \in Nat /\ nextID \notin DOMAIN wallets
      /\ \A i \in 1..Len(sessions) : sessions[i].id \in 1..nextID /\ sessions[i].id < nextID
  BY <1>1 DEF IInv, NumberIsFresh, IdsUsed
<1>5. s.id = nextID /\ s.wallet.id \in DOMAIN wallets /\ s.wallet = wallets[s.wallet.id]
  BY <1>1 DEF IInv, WalletIsThere
<1>6. sessions' = Append(sessions, s) /\ IsSeq(sessions) /\ Len(sessions) \in Nat
  BY DEF CreateBridgeSession, IInv, IdsUsed, IsSeq
<1> HIDE DEF s
<1>7. /\ IsSeq(sessions') /\ Len(sessions') = Len(sessions) + 1
      /\ sessions'[Len(sessions) + 1] = s
      /\ \A i \in 1..Len(sessions) : sessions'[i] = sessions[i]
  BY <1>6, AppendFacts
<1>8. IdsUsed'
  <2>1. \A i \in 1..Len(sessions') : sessions'[i].id \in 1..nextID
    BY <1>4, <1>5, <1>6, <1>7
  <2> QED
    BY <1>1, <1>7, <2>1 DEF IInv, IdsUsed
<1>9. IdsAreDistinct'
  <2>1. \A i, j \in 1..Len(sessions') : i < j => sessions'[i].id < sessions'[j].id
    <3> SUFFICES ASSUME NEW i \in 1..Len(sessions'), NEW j \in 1..Len(sessions'), i < j
                 PROVE  sessions'[i].id < sessions'[j].id
      OBVIOUS
    <3>1. i \in 1..Len(sessions)
      BY <1>6, <1>7
    <3>2. CASE j \in 1..Len(sessions)
      BY <1>7, <3>1, <3>2 DEF IInv, IdsAreDistinct
    <3>3. CASE j = Len(sessions) + 1
      BY <1>4, <1>5, <1>7, <3>1, <3>3
    <3> QED BY <1>6, <1>7, <3>2, <3>3
  <2>2. \A i \in 1..Len(sessions') : sessions'[i].id \notin DOMAIN wallets
    BY <1>4, <1>5, <1>6, <1>7 DEF IInv, IdsAreDistinct
  <2> QED
    BY <1>1, <2>1, <2>2 DEF IdsAreDistinct
<1>10. SessionsHaveWallets'
  BY <1>1, <1>5, <1>6, <1>7 DEF IInv, SessionsHaveWallets
<1>11. WalletsKnowTheirId'
  BY <1>1 DEF IInv, WalletsKnowTheirId
<1>12. SubSeq(sessions', 1, Len(sessions)) = sessions
  BY <1>6, <1>7, PrefixFacts
<1> QED
  BY <1>1, <1>3, <1>6, <1>7, <1>8, <1>9, <1>10, <1>11, <1>12 DEF IInv

\* What the service keeps of what it has, in a step.
Keeps ==
  /\ \A id \in DOMAIN wallets : id \in DOMAIN wallets' /\ wallets'[id] = wallets[id]
  /\ Len(sessions') >= Len(sessions)
  /\ SubSeq(sessions', 1, Len(sessions)) = sessions

LEMMA Unchanged ==
  ASSUME IInv, UNCHANGED <<wallets, sessions>>
  PROVE  Keeps
<1>1. SubSeq(sessions, 1, Len(sessions)) = sessions
  BY PrefixFacts DEF IInv, IdsUsed
<1> QED
  BY <1>1 DEF Keeps, IInv, IdsUsed, IsSeq

LEMMA NextKeeps ==
  ASSUME DashboardAssumption, IInv, [ServiceNext]_serviceVars
  PROVE  IInv' /\ Keeps
<1>1. CASE UNCHANGED serviceVars
  <2>1. Locals' /\ OneWriter' /\ WalletIsThere'
    BY <1>1 DEF serviceVars, service, mu, IInv, Locals, OneWriter, WalletIsThere
  <2> QED
    BY <1>1, <2>1, QuietKeeps, Unchanged DEF serviceVars, service
<1>2. CASE ServiceNext
  <2> PICK c \in Clients : \/ Announce(c) \/ Serve(c)
                           \/ \E req \in Requests : Receive(c, req)
    BY <1>2 DEF ServiceNext
  <2>1. CASE \/ \E req \in Requests : Receive(c, req)
             \/ Announce(c) \/ Enter(c) \/ RLock(c) \/ RUnlock(c) \/ Unlock(c)
    <3>1. UNCHANGED <<wallets, sessions>>
      BY <2>1 DEF service, Receive, Announce, Enter, RLock, RUnlock, Unlock
    <3> QED
      BY <2>1, <3>1, LockKeeps, Unchanged
  <2>2. CASE Size(c) \/ ListWallets(c) \/ ListBridgeSessions(c) \/ ListRoutes(c)
    <3>1. UNCHANGED <<wallets, sessions>>
      BY <2>2 DEF service, Size, ListWallets, ListBridgeSessions, ListRoutes
    <3> QED
      BY <2>2, <3>1, ListKeeps, Unchanged
  <2>3. CASE Lookup(c)
    BY <2>3, LookupKeeps, Unchanged DEF Lookup, service
  <2>4. CASE Bump(c)
    BY <2>4, BumpKeeps, Unchanged DEF Bump
  <2>5. CASE PairWallet(c)
    <3>1. sessions' = sessions /\ SubSeq(sessions, 1, Len(sessions)) = sessions
      BY <2>5, PrefixFacts DEF PairWallet, IInv, IdsUsed
    <3> QED
      BY <2>5, <3>1, PairWalletKeeps DEF Keeps, IInv, IdsUsed, IsSeq
  <2>6. CASE CreateBridgeSession(c)
    BY <2>6, CreateBridgeSessionKeeps DEF Keeps, CreateBridgeSession
  <2> QED
    BY <2>1, <2>2, <2>3, <2>4, <2>5, <2>6 DEF Serve
<1> QED
  BY <1>1, <1>2

\* The inductive invariant holds throughout.
LEMMA IInvInvariant == ServiceSpec => []IInv
<1>1. IInv /\ [ServiceNext]_serviceVars => IInv'
  BY NextKeeps, DashboardAssumption
<1> QED
  BY InitIInv, <1>1, PTL DEF ServiceSpec
-----------------------------------------------------------------------------
\* However many requests run at once, PairWallet and CreateBridgeSession never
\* give a number twice.
THEOREM NumbersAreUnique == ServiceSpec => []IdsAreDistinct
<1>1. IInv => IdsAreDistinct
  BY DEF IInv
<1> QED
  BY <1>1, IInvInvariant, PTL

\* Every session CreateBridgeSession plans is for a wallet that is paired.
THEOREM WalletsOfSessionsStay == ServiceSpec => []SessionsHaveWallets
<1>1. IInv => SessionsHaveWallets
  BY DEF IInv
<1> QED
  BY <1>1, IInvInvariant, PTL

\* No request drops or changes a wallet or a session another was told of.
THEOREM AnswersStayTrue == ServiceSpec => NothingIsLost
<1>1. IInv /\ [ServiceNext]_serviceVars =>
        [/\ \A id \in DOMAIN wallets :
              id \in DOMAIN wallets' /\ wallets'[id] = wallets[id]
         /\ Len(sessions') >= Len(sessions)
         /\ SubSeq(sessions', 1, Len(sessions)) = sessions]_serviceVars
  BY NextKeeps, DashboardAssumption DEF Keeps
<1> QED
  BY <1>1, IInvInvariant, PTL DEF ServiceSpec, NothingIsLost
-----------------------------------------------------------------------------
(* The calls are linearizable: the instant at which one takes effect is    *)
(* when its answer is set. A writer stores and answers in one step; a      *)
(* reader's copy is still what there is when it answers, because nobody    *)
(* has written since it was let in.                                        *)

\* Where a request waits for its answer, and where it will yet draw a number.
Waiting == {"lock", "wait", "lookup", "bump", "store", "rlock", "blocked", "size", "copy"}
Drawing == {"lock", "wait", "lookup", "bump"}

ClientOK(c) ==
  /\ pc[c] \in Waiting => answer[c] = Nothing
  /\ pc[c] \notin Waiting => call[c] = Idle \/ answer[c] # Nothing
  /\ pc[c] \in {"lock", "wait"} => Writes(call[c])
  /\ pc[c] = "lookup" => call[c].op = "create"
  /\ pc[c] \in {"bump", "store"} /\ call[c].op = "create" =>
       draft[c].wallet.id = call[c].wallet
  /\ DOMAIN draft[c] = {"wallet", "keys", "seen", "len"}
  /\ pc[c] \in {"rlock", "blocked", "size"} => draft[c].seen = {}
  /\ pc[c] = "copy" => /\ draft[c].keys = DOMAIN wallets
                       /\ draft[c].seen \subseteq DOMAIN wallets
                       /\ draft[c].len = Len(sessions)

Pending == { c \in Clients : pc[c] \in Drawing }

\* No more numbers are drawn than there are requests.
NumbersOK ==
  /\ calls \in 0..MaxCalls
  /\ IsFiniteSet(Pending)
  /\ nextID + Cardinality(Pending) <= calls

RInv ==
  /\ IInv /\ NumbersOK
  /\ answer = [c \in Clients |-> answer[c]]
  /\ \A c \in Clients : ClientOK(c)

\* What a step of c leaves as it is.
Others(c) ==
  /\ answer' = [d \in Clients |-> answer'[d]]
  /\ \A d \in Clients \ {c} :
       /\ pc'[d] = pc[d] \/ (pc[d] = "blocked" /\ pc'[d] = "size")
       /\ call'[d] = call[d] /\ draft'[d] = draft[d] /\ answer'[d] = answer[d]

LEMMA InitRInv == ServiceInit => RInv
<1> SUFFICES ASSUME ServiceInit PROVE RInv
  OBVIOUS
<1>1. \A c \in Clients : ClientOK(c)
  BY DEF ServiceInit, ClientOK, EmptyDraft, Waiting
<1>2. Pending = {}
  BY DEF ServiceInit, Pending, Drawing
<1>3. NumbersOK
  BY <1>2, FS_EmptySet, DashboardAssumption DEF NumbersOK, ServiceInit, NewService
<1> QED BY <1>1, <1>3, InitIInv DEF RInv, ServiceInit

\* A client is disturbed by another only if it reads while the other stores.
LEMMA StepKeeps ==
  ASSUME RInv, IInv', NumbersOK', NEW c \in Clients, Others(c), ClientOK(c)',
         UNCHANGED <<wallets, sessions>> \/ pc[c] = "store"
  PROVE  RInv'
<1>1. ASSUME NEW d \in Clients \ {c} PROVE ClientOK(d)'
  <2>1. ClientOK(d)
    BY DEF RInv
  <2>2. pc[d] # "copy" \/ UNCHANGED <<wallets, sessions>>
    BY Alone DEF RInv
  <2> QED BY <2>1, <2>2 DEF Others, ClientOK, Waiting
<1>2. \A d \in Clients : ClientOK(d)'
  BY <1>1
<1> QED BY <1>2 DEF RInv, Others

\* A step that neither comes to draw a number nor draws one.
LEMMA NumbersStay ==
  ASSUME RInv, NEW c \in Clients, Others(c), UNCHANGED <<calls, nextID>>,
         pc'[c] \in Drawing => pc[c] \in Drawing
  PROVE  NumbersOK'
<1>1. Pending' = Pending \/ Pending' = Pending \ {c}
  BY DEF Pending, Others, Drawing
<1>2. IsFiniteSet(Pending) /\ Cardinality(Pending) \in Nat /\ calls \in 0..MaxCalls
      /\ nextID + Cardinality(Pending) <= calls /\ nextID \in Nat
  BY FS_CardinalityType DEF RInv, NumbersOK, IInv, IdsUsed
<1>3. /\ IsFiniteSet(Pending \ {c}) /\ Cardinality(Pending \ {c}) \in Nat
      /\ Cardinality(Pending \ {c}) <= Cardinality(Pending)
  BY <1>2, FS_Subset, FS_CardinalityType
<1>4. /\ IsFiniteSet(Pending') /\ Cardinality(Pending') \in Nat
      /\ Cardinality(Pending') <= Cardinality(Pending)
  <2>1. CASE Pending' = Pending
    BY <1>2, <2>1
  <2>2. CASE Pending' = Pending \ {c}
    BY <1>3, <2>2
  <2> QED BY <1>1, <2>1, <2>2
<1>5. MaxCalls \in Nat
  BY DashboardAssumption DEF DashboardAssumption
<1>6. nextID' + Cardinality(Pending') <= calls' /\ calls' \in 0..MaxCalls
  BY <1>2, <1>4, <1>5
<1> QED BY <1>4, <1>6 DEF NumbersOK

\* A writer that has not stored yet has a number left to draw or has drawn it.
LEMMA BumpNumbers ==
  ASSUME RInv, NEW c \in Clients, Others(c), pc[c] = "bump", pc'[c] = "store",
         calls' = calls, nextID' = nextID + 1
  PROVE  NumbersOK'
<1>1. Pending' = Pending \ {c} /\ c \in Pending
  BY DEF Pending, Others, Drawing
<1>2. IsFiniteSet(Pending) /\ Cardinality(Pending) \in Nat /\ calls \in 0..MaxCalls
      /\ nextID + Cardinality(Pending) <= calls /\ nextID \in Nat
  BY FS_CardinalityType DEF RInv, NumbersOK, IInv, IdsUsed
<1>3. IsFiniteSet(Pending \ {c}) /\ Cardinality(Pending \ {c}) = Cardinality(Pending) - 1
  BY <1>1, <1>2, FS_RemoveElement
<1> QED BY <1>1, <1>2, <1>3, DashboardAssumption DEF NumbersOK, DashboardAssumption

\* Nothing that the registry shows has changed.
Shown == <<{ wallets[id] : id \in DOMAIN wallets }, sessions, call, answer>>

LEMMA ShownStays ==
  ASSUME UNCHANGED <<wallets, sessions, call, answer>>
  PROVE  UNCHANGED Shown
BY DEF Shown

\* The registry's own copies of the planner's operators are the same.
LEMMA SameRoutes ==
  /\ Registry!None = Nothing /\ Registry!Idle = Idle
  /\ \A f, t, p : Registry!SelectRoute(f, t, p) = SelectRoute(f, t, p)
  /\ \A f, t : Registry!RoutesFor(f, t) = RoutesFor(f, t)
<1>1. Registry!None = Nothing /\ Registry!Idle = Idle
  BY DEF Registry!None, Nothing, Registry!Idle, Idle
<1>2. ASSUME NEW f, NEW t, NEW p
      PROVE  Registry!SelectRoute(f, t, p) = SelectRoute(f, t, p)
  BY DEF Registry!SelectRoute, SelectRoute, Registry!Candidates, Candidates,
         Registry!First, First, Registry!Table, Table, Registry!Wildcard, Wildcard,
         Registry!Precedes, Precedes, Registry!Specificity, Specificity,
         Registry!Cardinality, Cardinality
<1>3. ASSUME NEW f, NEW t PROVE Registry!RoutesFor(f, t) = RoutesFor(f, t)
  BY DEF Registry!RoutesFor, RoutesFor, Registry!Candidates, Candidates, Registry!Table,
         Table, Registry!Wildcard, Wildcard, Registry!Precedes, Precedes,
         Registry!Specificity, Specificity, Registry!Cardinality, Cardinality
<1> QED BY <1>1, <1>2, <1>3

\* Between any two chains there is a route, the default one.
LEMMA AlwaysARoute ==
  ASSUME NEW from, NEW to
  PROVE  Candidates(from, to) # {}
<1> DEFINE r == [id |-> "pipeline-default", ord |-> 1,
                 from |-> Wildcard, to |-> Wildcard, fast |-> FALSE]
<1>1. r \in Table
  BY DEF Table
<1>2. r.from = Wildcard /\ r.to = Wildcard
  OBVIOUS
<1> HIDE DEF r
<1> QED BY <1>1, <1>2 DEF Candidates

LEMMA ReceiveStep ==
  ASSUME RInv, IInv', NEW c \in Clients, NEW req \in Requests, Receive(c, req)
  PROVE  RInv' /\ Registry!Next
<1>1. /\ pc[c] = "idle" /\ calls < MaxCalls /\ calls' = calls + 1
      /\ call' = [call EXCEPT ![c] = req] /\ draft' = [draft EXCEPT ![c] = EmptyDraft]
      /\ UNCHANGED <<wallets, sessions, nextID>>
      /\ \/ /\ Valid(req) /\ answer' = [answer EXCEPT ![c] = Nothing]
            /\ pc' = [pc EXCEPT ![c] = IF Writes(req) THEN "lock" ELSE "rlock"]
         \/ answer' = [answer EXCEPT ![c] = [kind |-> "invalid"]] /\ pc' = pc
  BY DEF Receive, Goto, service
<1>2. /\ pc = [d \in Clients |-> pc[d]] /\ call = [d \in Clients |-> call[d]]
      /\ draft = [d \in Clients |-> draft[d]] /\ answer = [d \in Clients |-> answer[d]]
  BY DEF RInv, IInv, Locals
<1>3. Others(c)
  <2>1. answer' = [d \in Clients |-> answer'[d]]
    BY <1>1, <1>2
  <2>2. \A d \in Clients \ {c} : /\ pc'[d] = pc[d] /\ call'[d] = call[d]
                                /\ draft'[d] = draft[d] /\ answer'[d] = answer[d]
    BY <1>1, <1>2
  <2> QED BY <2>1, <2>2 DEF Others
<1>4. /\ call'[c] = req /\ draft'[c] = EmptyDraft
      /\ \/ answer'[c] = Nothing /\ pc'[c] = IF Writes(req) THEN "lock" ELSE "rlock"
         \/ answer'[c] = [kind |-> "invalid"] /\ pc'[c] = "idle"
  BY <1>1, <1>2
<1>5. ClientOK(c)'
  <2>1. [kind |-> "invalid"] # Nothing
    BY DEF Nothing
  <2> QED BY <1>4, <2>1 DEF ClientOK, EmptyDraft, Waiting, Writes
<1>6. NumbersOK'
  <2>1. Pending' = Pending \/ Pending' = Pending \cup {c}
    <3>1. \A d \in Clients \ {c} : pc'[d] \in Drawing <=> pc[d] \in Drawing
      BY <1>3 DEF Others, Drawing
    <3>2. pc[c] \notin Drawing
      BY <1>1 DEF Drawing
    <3>3. CASE pc'[c] \in Drawing
      BY <3>1, <3>2, <3>3 DEF Pending
    <3>4. CASE pc'[c] \notin Drawing
      BY <3>1, <3>2, <3>4 DEF Pending
    <3> QED BY <3>3, <3>4
  <2>2. IsFiniteSet(Pending) /\ Cardinality(Pending) \in Nat /\ calls \in 0..MaxCalls
        /\ nextID + Cardinality(Pending) <= calls /\ nextID \in Nat
    BY FS_CardinalityType DEF RInv, NumbersOK, IInv, IdsUsed
  <2>3. /\ IsFiniteSet(Pending \cup {c}) /\ Cardinality(Pending \cup {c}) \in Nat
        /\ Cardinality(Pending \cup {c}) <= Cardinality(Pending) + 1
    <3>1. /\ IsFiniteSet(Pending \cup {c})
          /\ Cardinality(Pending \cup {c}) = IF c \in Pending THEN Cardinality(Pending)
                                            ELSE Cardinality(Pending) + 1
      BY <2>2, FS_AddElement
    <3> QED BY <2>2, <3>1
  <2>4. /\ IsFiniteSet(Pending') /\ Cardinality(Pending') \in Nat
        /\ Cardinality(Pending') <= Cardinality(Pending) + 1
    <3>1. CASE Pending' = Pending
      BY <2>2, <3>1
    <3>2. CASE Pending' = Pending \cup {c}
      BY <2>3, <3>2
    <3> QED BY <2>1, <3>1, <3>2
  <2>5. MaxCalls \in Nat
    BY DashboardAssumption DEF DashboardAssumption
  <2>6. nextID' + Cardinality(Pending') <= calls' /\ calls' \in 0..MaxCalls
    BY <1>1, <2>2, <2>4, <2>5
  <2> QED BY <2>4, <2>6 DEF NumbersOK
<1>7. call[c] = Idle \/ answer[c] # Nothing
  BY <1>1 DEF RInv, ClientOK, Waiting
<1>8. Registry!Request(c, req)
  BY <1>1, SameRoutes DEF Registry!Request, Registry!Answer
<1>9. Registry!Next
  BY <1>7, <1>8, SameRoutes DEF Registry!Next
<1> QED BY <1>1, <1>3, <1>5, <1>6, <1>9, StepKeeps

LEMMA LockStep ==
  ASSUME RInv, IInv', NEW c \in Clients,
         Announce(c) \/ Enter(c) \/ RLock(c) \/ RUnlock(c) \/ Unlock(c)
  PROVE  RInv' /\ UNCHANGED Shown
<1>1. /\ UNCHANGED <<wallets, sessions, nextID, call, draft, answer, calls>>
      /\ \/ pc[c] = "lock" /\ pc' = [pc EXCEPT ![c] = "wait"]
         \/ /\ pc[c] = "wait"
            /\ pc' = [pc EXCEPT ![c] = IF call[c].op = "pair" THEN "bump" ELSE "lookup"]
         \/ pc[c] = "rlock" /\ \E place \in {"size", "blocked"} : pc' = [pc EXCEPT ![c] = place]
         \/ pc[c] = "runlock" /\ pc' = [pc EXCEPT ![c] = "idle"]
         \/ /\ pc[c] = "unlock"
            /\ pc' = [r \in Clients |-> IF r = c THEN "idle"
                                        ELSE IF pc[r] = "blocked" THEN "size" ELSE pc[r]]
  BY DEF Announce, Enter, RLock, RUnlock, Unlock, Goto, service, mu
<1>2. ClientOK(c) /\ pc = [d \in Clients |-> pc[d]] /\ answer = [d \in Clients |-> answer[d]]
  BY DEF RInv, IInv, Locals
<1>3. /\ \A d \in Clients \ {c} : pc'[d] = pc[d] \/ (pc[d] = "blocked" /\ pc'[d] = "size")
      /\ \/ pc[c] = "lock" /\ pc'[c] = "wait"
         \/ pc[c] = "wait" /\ pc'[c] = IF call[c].op = "pair" THEN "bump" ELSE "lookup"
         \/ pc[c] = "rlock" /\ pc'[c] \in {"size", "blocked"}
         \/ pc[c] \in {"runlock", "unlock"} /\ pc'[c] = "idle"
  BY <1>1, <1>2
<1>4. Others(c)
  BY <1>1, <1>2, <1>3 DEF Others
<1>5. ClientOK(c)'
  BY <1>1, <1>2, <1>3 DEF ClientOK, Waiting, Writes
<1>6. NumbersOK'
  <2>1. pc'[c] \in Drawing => pc[c] \in Drawing
    BY <1>3 DEF Drawing
  <2> QED BY <1>1, <1>4, <2>1, NumbersStay
<1>7. RInv'
  BY <1>1, <1>4, <1>5, <1>6, StepKeeps
<1> QED BY <1>1, <1>7, ShownStays

LEMMA BumpStep ==
  ASSUME RInv, IInv', NEW c \in Clients, Bump(c)
  PROVE  RInv' /\ UNCHANGED Shown
<1>1. /\ UNCHANGED <<wallets, sessions, call, draft, answer, calls>> /\ nextID' = nextID + 1
      /\ pc[c] = "bump" /\ pc' = [pc EXCEPT ![c] = "store"]
  BY DEF Bump, Goto, mu
<1>2. ClientOK(c) /\ pc = [d \in Clients |-> pc[d]] /\ answer = [d \in Clients |-> answer[d]]
  BY DEF RInv, IInv, Locals
<1>3. pc'[c] = "store" /\ \A d \in Clients \ {c} : pc'[d] = pc[d]
  BY <1>1, <1>2
<1>4. Others(c)
  BY <1>1, <1>2, <1>3 DEF Others
<1>5. ClientOK(c)'
  BY <1>1, <1>2, <1>3 DEF ClientOK, Waiting
<1>6. NumbersOK'
  BY <1>1, <1>3, <1>4, BumpNumbers
<1>7. RInv'
  BY <1>1, <1>4, <1>5, <1>6, StepKeeps
<1> QED BY <1>1, <1>7, ShownStays

\* A listing while it gathers.
LEMMA GatherStep ==
  ASSUME RInv, IInv', NEW c \in Clients,
         \/ Size(c)
         \/ /\ pc[c] = "copy"
            /\ \E id \in DOMAIN wallets \ draft[c].seen :
                 draft' = [draft EXCEPT ![c].seen = @ \cup {id}]
            /\ UNCHANGED <<service, mu, call, calls, pc, answer>>
  PROVE  RInv' /\ UNCHANGED Shown
<1>1. UNCHANGED <<wallets, sessions, nextID, call, answer, calls>>
  BY DEF Size, service, mu
<1>2. \/ /\ pc[c] = "size" /\ pc' = [pc EXCEPT ![c] = "copy"]
         /\ draft' = [draft EXCEPT ![c].keys = DOMAIN wallets, ![c].len = Len(sessions)]
      \/ /\ pc[c] = "copy" /\ pc' = pc
         /\ \E id \in DOMAIN wallets : draft' = [draft EXCEPT ![c].seen = @ \cup {id}]
  BY DEF Size, Goto
<1>3. /\ ClientOK(c) /\ pc = [d \in Clients |-> pc[d]] /\ answer = [d \in Clients |-> answer[d]]
      /\ draft = [d \in Clients |-> draft[d]] /\ DOMAIN draft[c] = {"wallet", "keys", "seen", "len"}
  BY DEF RInv, IInv, Locals, ClientOK
<1>4. /\ pc'[c] = "copy" /\ DOMAIN draft'[c] = {"wallet", "keys", "seen", "len"}
      /\ draft'[c].keys = DOMAIN wallets /\ draft'[c].len = Len(sessions)
      /\ draft'[c].seen \subseteq DOMAIN wallets
      /\ \A d \in Clients \ {c} : pc'[d] = pc[d] /\ draft'[d] = draft[d]
  <2>1. CASE pc[c] = "size"
    <3>1. draft'[c] = [draft[c] EXCEPT !.keys = DOMAIN wallets, !.len = Len(sessions)]
      BY <1>2, <1>3, <2>1
    <3>2. /\ DOMAIN draft'[c] = DOMAIN draft[c] /\ draft'[c].seen = draft[c].seen
          /\ draft'[c].keys = DOMAIN wallets /\ draft'[c].len = Len(sessions)
      BY <1>3, <3>1
    <3>3. draft[c].seen = {}
      BY <1>3, <2>1 DEF ClientOK
    <3>4. pc'[c] = "copy" /\ \A d \in Clients \ {c} : pc'[d] = pc[d] /\ draft'[d] = draft[d]
      BY <1>2, <1>3, <2>1
    <3> QED BY <1>3, <3>2, <3>3, <3>4
  <2>2. CASE pc[c] = "copy"
    BY <1>2, <1>3, <2>2 DEF ClientOK
  <2> QED BY <1>2, <2>1, <2>2
<1>5. Others(c)
  BY <1>1, <1>3, <1>4 DEF Others
<1>6. ClientOK(c)'
  BY <1>1, <1>2, <1>3, <1>4 DEF ClientOK, Waiting
<1>7. NumbersOK'
  <2>1. pc'[c] \notin Drawing
    BY <1>4 DEF Drawing
  <2> QED BY <1>1, <1>5, <2>1, NumbersStay
<1>8. RInv'
  BY <1>1, <1>5, <1>6, <1>7, StepKeeps
<1> QED BY <1>1, <1>8, ShownStays

LEMMA FoundStep ==
  ASSUME RInv, IInv', NEW c \in Clients, Lookup(c), call[c].wallet \in DOMAIN wallets
  PROVE  RInv' /\ UNCHANGED Shown
<1>1. /\ UNCHANGED <<wallets, sessions, nextID, call, calls, answer>>
      /\ pc[c] = "lookup" /\ pc' = [pc EXCEPT ![c] = "bump"]
      /\ draft' = [draft EXCEPT ![c].wallet = wallets[call[c].wallet]]
  BY AlwaysARoute DEF Lookup, Goto, service, mu
<1>2. /\ ClientOK(c) /\ pc = [d \in Clients |-> pc[d]] /\ answer = [d \in Clients |-> answer[d]]
      /\ draft = [d \in Clients |-> draft[d]] /\ DOMAIN draft[c] = {"wallet", "keys", "seen", "len"}
      /\ wallets[call[c].wallet].id = call[c].wallet
  BY DEF RInv, IInv, Locals, ClientOK, WalletsKnowTheirId
<1>3. /\ pc'[c] = "bump" /\ \A d \in Clients \ {c} : pc'[d] = pc[d] /\ draft'[d] = draft[d]
      /\ DOMAIN draft'[c] = {"wallet", "keys", "seen", "len"}
      /\ draft'[c].wallet = wallets[call[c].wallet]
  BY <1>1, <1>2
<1>4. Others(c)
  BY <1>1, <1>2, <1>3 DEF Others
<1>5. ClientOK(c)'
  BY <1>1, <1>2, <1>3 DEF ClientOK, Waiting
<1>6. NumbersOK'
  <2>1. pc[c] \in Drawing
    BY <1>1 DEF Drawing
  <2> QED BY <1>1, <1>4, <2>1, NumbersStay
<1>7. RInv'
  BY <1>1, <1>4, <1>5, <1>6, StepKeeps
<1> QED BY <1>1, <1>7, ShownStays

\* A step that answers.
LEMMA AnswerKeeps ==
  ASSUME RInv, IInv', NEW c \in Clients, NEW a, a.kind # "none",
         answer' = [answer EXCEPT ![c] = a],
         \E place \in {"unlock", "runlock"} : pc' = [pc EXCEPT ![c] = place],
         UNCHANGED <<wallets, sessions>> \/ pc[c] = "store",
         UNCHANGED <<nextID, call, draft, calls>>
  PROVE  RInv'
<1>1. /\ ClientOK(c) /\ pc = [d \in Clients |-> pc[d]] /\ answer = [d \in Clients |-> answer[d]]
  BY DEF RInv, IInv, Locals
<1>2. /\ pc'[c] \in {"unlock", "runlock"} /\ answer'[c] = a
      /\ \A d \in Clients \ {c} : pc'[d] = pc[d] /\ answer'[d] = answer[d]
      /\ answer' = [d \in Clients |-> answer'[d]]
  BY <1>1
<1>3. Others(c)
  BY <1>2 DEF Others
<1>4. a # Nothing
  BY DEF Nothing
<1>5. ClientOK(c)'
  BY <1>1, <1>2, <1>4 DEF ClientOK, Waiting
<1>6. NumbersOK'
  <2>1. pc'[c] \notin Drawing
    BY <1>2 DEF Drawing
  <2> QED BY <1>3, <2>1, NumbersStay
<1> QED BY <1>3, <1>5, <1>6, StepKeeps

\* What the registry asks of a client that it answers.
LEMMA RegistryAnswers ==
  ASSUME RInv, NEW c \in Clients, pc[c] \in Waiting, call' = call,
         Registry!Pair(c) \/ Registry!Plan(c) \/ Registry!Refuse(c) \/ Registry!List(c)
  PROVE  Registry!Next
<1>1. answer[c] = Nothing
  BY DEF RInv, ClientOK
<1> QED BY <1>1, SameRoutes DEF Registry!Next

LEMMA NotFoundStep ==
  ASSUME RInv, IInv', NEW c \in Clients, Lookup(c), call[c].wallet \notin DOMAIN wallets
  PROVE  RInv' /\ Registry!Next
<1>1. /\ UNCHANGED <<wallets, sessions, nextID, call, draft, calls>>
      /\ pc[c] = "lookup" /\ pc' = [pc EXCEPT ![c] = "unlock"]
      /\ answer' = [answer EXCEPT ![c] = [kind |-> "not found"]]
  BY DEF Lookup, Return, Goto, service, mu
<1>2. call[c].op = "create"
  BY <1>1 DEF RInv, ClientOK
<1>3. call[c].wallet \notin { w.id : w \in { wallets[id] : id \in DOMAIN wallets } }
  BY DEF RInv, IInv, WalletsKnowTheirId
<1>4. Registry!Refuse(c)
  BY <1>1, <1>2, <1>3 DEF Registry!Refuse, Registry!Answer
<1>5. Registry!Next
  BY <1>1, <1>4, RegistryAnswers DEF Waiting
<1>6. RInv'
  <2> DEFINE a == [kind |-> "not found"]
  <2>1. a.kind # "none" /\ answer' = [answer EXCEPT ![c] = a]
    BY <1>1
  <2> HIDE DEF a
  <2> QED BY <1>1, <2>1, AnswerKeeps
<1> QED BY <1>5, <1>6

\* The number that is stored has been asked for, and is larger than any there.
LEMMA NumberFacts ==
  ASSUME RInv, NEW c \in Clients, pc[c] = "store"
  PROVE  /\ nextID \in 1..MaxCalls /\ nextID \notin DOMAIN wallets
         /\ \A id \in DOMAIN wallets : wallets[id].id < nextID
         /\ \A i \in 1..Len(sessions) : sessions[i].id < nextID
<1>1. /\ nextID > 0 /\ nextID \in Nat /\ nextID \notin DOMAIN wallets
      /\ \A i \in 1..Len(sessions) : sessions[i].id < nextID
      /\ \A id \in DOMAIN wallets : wallets[id].id = id /\ id \in 1..nextID
  BY DEF RInv, IInv, NumberIsFresh, IdsUsed, WalletsKnowTheirId
<1>2. nextID <= MaxCalls
  <2>1. Cardinality(Pending) \in Nat
    BY FS_CardinalityType DEF RInv, NumbersOK
  <2>2. nextID + Cardinality(Pending) <= calls /\ calls \in 0..MaxCalls
    BY DEF RInv, NumbersOK
  <2>3. MaxCalls \in Nat
    BY DashboardAssumption DEF DashboardAssumption
  <2> QED BY <1>1, <2>1, <2>2, <2>3
<1>3. MaxCalls \in Nat
  BY DashboardAssumption DEF DashboardAssumption
<1>4. ASSUME NEW id \in DOMAIN wallets PROVE wallets[id].id < nextID
  BY <1>1
<1> QED BY <1>1, <1>2, <1>3, <1>4

LEMMA PairStep ==
  ASSUME RInv, IInv', NEW c \in Clients, PairWallet(c)
  PROVE  RInv' /\ Registry!Next
<1> DEFINE w == [id |-> nextID, chain |-> call[c].chain]
           a == [kind |-> "wallet", wallet |-> w]
           W == { wallets[id] : id \in DOMAIN wallets }
<1>1. /\ pc[c] = "store" /\ call[c].op = "pair" /\ pc' = [pc EXCEPT ![c] = "unlock"]
      /\ wallets' = [id \in DOMAIN wallets \cup {nextID} |->
                       IF id = nextID THEN w ELSE wallets[id]]
      /\ answer' = [answer EXCEPT ![c] = a]
      /\ UNCHANGED <<sessions, nextID, call, draft, calls>>
  BY DEF PairWallet, Return, Goto, mu
<1>2. /\ nextID \in 1..MaxCalls /\ nextID \notin DOMAIN wallets
      /\ \A id \in DOMAIN wallets : wallets[id].id < nextID
      /\ \A i \in 1..Len(sessions) : sessions[i].id < nextID
  BY <1>1, NumberFacts
<1>3. Registry!Fresh(nextID)
  BY <1>2 DEF Registry!Fresh
<1>4. a.kind # "none" /\ a = [kind |-> "wallet", wallet |-> w]
  OBVIOUS
<1>5. W' = W \cup {w}
  <2> HIDE DEF w, a
  <2>1. /\ DOMAIN wallets' = DOMAIN wallets \cup {nextID} /\ wallets'[nextID] = w
        /\ \A id \in DOMAIN wallets : wallets'[id] = wallets[id]
    BY <1>1, <1>2
  <2>2. { wallets'[id] : id \in DOMAIN wallets' } = { wallets[id] : id \in DOMAIN wallets } \cup {w}
    BY <2>1
  <2> QED BY <2>2
<1>6. Registry!Pair(c)
  <2>1. /\ nextID \in 1..MaxCalls /\ Registry!Fresh(nextID) /\ W' = W \cup {w}
        /\ Registry!Answer(c, a) /\ sessions' = sessions
    BY <1>1, <1>2, <1>3, <1>5 DEF Registry!Answer
  <2> QED BY <1>1, <2>1 DEF Registry!Pair
<1>7. Registry!Next
  BY <1>1, <1>6, RegistryAnswers DEF Waiting
<1>8. RInv'
  <2> HIDE DEF a, w
  <2> QED BY <1>1, <1>4, AnswerKeeps
<1> QED BY <1>7, <1>8

LEMMA CreateStep ==
  ASSUME RInv, IInv', NEW c \in Clients, CreateBridgeSession(c)
  PROVE  RInv' /\ Registry!Next
<1> DEFINE w == draft[c].wallet
           s == [id |-> nextID, wallet |-> w,
                 route |-> SelectRoute(w.chain, call[c].to, call[c].prefer)]
           a == [kind |-> "session", session |-> s]
           W == { wallets[id] : id \in DOMAIN wallets }
<1>1. /\ pc[c] = "store" /\ call[c].op = "create" /\ pc' = [pc EXCEPT ![c] = "unlock"]
      /\ sessions' = Append(sessions, s)
      /\ answer' = [answer EXCEPT ![c] = a]
      /\ UNCHANGED <<wallets, nextID, call, draft, calls>>
  BY DEF CreateBridgeSession, Return, Goto, mu
<1>2. /\ nextID \in 1..MaxCalls /\ nextID \notin DOMAIN wallets
      /\ \A id \in DOMAIN wallets : wallets[id].id < nextID
      /\ \A i \in 1..Len(sessions) : sessions[i].id < nextID
  BY <1>1, NumberFacts
<1>3. Registry!Fresh(nextID)
  BY <1>2 DEF Registry!Fresh
<1>4. w \in W /\ w.id = call[c].wallet
  BY <1>1 DEF RInv, IInv, WalletIsThere, ClientOK
<1>5. s = [id |-> nextID, wallet |-> w,
           route |-> Registry!SelectRoute(w.chain, call[c].to, call[c].prefer)]
  BY SameRoutes
<1>6. a.kind # "none" /\ W' = W
  BY <1>1
<1>7. Registry!Plan(c)
  <2>1. /\ nextID \in 1..MaxCalls /\ Registry!Fresh(nextID) /\ W' = W
        /\ Registry!Answer(c, a)
    BY <1>1, <1>2, <1>3, <1>6 DEF Registry!Answer
  <2> HIDE DEF w, W
  <2> QED BY <1>1, <1>4, <1>5, <2>1 DEF Registry!Plan, W
<1>8. Registry!Next
  BY <1>1, <1>7, RegistryAnswers DEF Waiting
<1>9. RInv'
  <2> HIDE DEF a, w, s
  <2> QED BY <1>1, <1>6, AnswerKeeps
<1> QED BY <1>8, <1>9

\* A listing that has gathered all it will: the three of them answer.
GatheredWallets(c) ==
  /\ pc[c] = "copy" /\ call[c].op = "wallets"
  /\ draft[c].keys \subseteq draft[c].seen
  /\ Return(c, [kind |-> "wallets",
                list |-> { wallets[id] : id \in draft[c].seen }], "runlock")
  /\ UNCHANGED <<service, mu, call, calls, draft>>

LEMMA ListStep ==
  ASSUME RInv, IInv', NEW c \in Clients,
         ListBridgeSessions(c) \/ ListRoutes(c) \/ GatheredWallets(c)
  PROVE  RInv' /\ Registry!Next
<1> DEFINE W == { wallets[id] : id \in DOMAIN wallets }
<1>1. /\ pc[c] = "copy" /\ UNCHANGED <<wallets, sessions, nextID, call, draft, calls>>
      /\ W' = W
  BY DEF ListBridgeSessions, ListRoutes, GatheredWallets, service, mu
<1>2. /\ draft[c].keys = DOMAIN wallets /\ draft[c].seen \subseteq DOMAIN wallets
      /\ draft[c].len = Len(sessions)
  BY <1>1 DEF RInv, ClientOK
<1>3. ASSUME NEW a, a.kind # "none", answer' = [answer EXCEPT ![c] = a],
             pc' = [pc EXCEPT ![c] = "runlock"],
             Registry!List(c)
      PROVE  RInv' /\ Registry!Next
  <2>1. RInv'
    BY <1>1, <1>3, AnswerKeeps
  <2>2. Registry!Next
    BY <1>1, <1>3, RegistryAnswers DEF Waiting
  <2> QED BY <2>1, <2>2
<1>4. CASE ListBridgeSessions(c)
  <2> DEFINE a == [kind |-> "sessions", list |-> sessions]
  <2>1. SubSeq(sessions, 1, draft[c].len) = sessions
    BY <1>2, PrefixFacts DEF RInv, IInv, IdsUsed
  <2>2. /\ call[c].op = "sessions" /\ answer' = [answer EXCEPT ![c] = a]
        /\ pc' = [pc EXCEPT ![c] = "runlock"] /\ a.kind # "none"
    BY <1>4, <2>1 DEF ListBridgeSessions, Return, Goto
  <2>3. Registry!List(c)
    BY <1>1, <2>2 DEF Registry!List, Registry!Answer
  <2> HIDE DEF a
  <2> QED BY <1>3, <2>2, <2>3
<1>5. CASE ListRoutes(c)
  <2> DEFINE a == [kind |-> "routes", list |-> RoutesFor(call[c].from, call[c].to)]
  <2>1. /\ call[c].op = "routes" /\ answer' = [answer EXCEPT ![c] = a]
        /\ pc' = [pc EXCEPT ![c] = "runlock"] /\ a.kind # "none"
    BY <1>5 DEF ListRoutes, Return, Goto
  <2>2. a = [kind |-> "routes", list |-> Registry!RoutesFor(call[c].from, call[c].to)]
    BY SameRoutes
  <2> HIDE DEF a
  <2>3. Registry!List(c)
    BY <1>1, <2>1, <2>2 DEF Registry!List, Registry!Answer
  <2> QED BY <1>3, <2>1, <2>3
<1>6. CASE GatheredWallets(c)
  <2> DEFINE a == [kind |-> "wallets", list |-> W]
  <2>1. /\ call[c].op = "wallets" /\ draft[c].keys \subseteq draft[c].seen
        /\ answer' = [answer EXCEPT ![c] = [kind |-> "wallets",
                                list |-> { wallets[id] : id \in draft[c].seen }]]
        /\ pc' = [pc EXCEPT ![c] = "runlock"]
    BY <1>6 DEF GatheredWallets, Return, Goto
  <2>2. draft[c].seen = DOMAIN wallets
    BY <1>2, <2>1
  <2>3. answer' = [answer EXCEPT ![c] = a] /\ a.kind # "none"
    BY <2>1, <2>2
  <2>4. Registry!List(c)
    BY <1>1, <2>1, <2>3 DEF Registry!List, Registry!Answer
  <2> HIDE DEF a
  <2> QED BY <1>3, <2>1, <2>3, <2>4
<1> QED BY <1>4, <1>5, <1>6

\* ListWallets gathers one more, or answers.
LEMMA ListWalletsStep ==
  ASSUME RInv, IInv', NEW c \in Clients, ListWallets(c)
  PROVE  RInv' /\ (Registry!Next \/ UNCHANGED Shown)
<1>1. CASE GatheredWallets(c)
  BY <1>1, ListStep
<1>2. CASE ~GatheredWallets(c)
  <2>1. /\ pc[c] = "copy"
        /\ \E id \in DOMAIN wallets \ draft[c].seen :
             draft' = [draft EXCEPT ![c].seen = @ \cup {id}]
        /\ UNCHANGED <<service, mu, call, calls, pc, answer>>
    BY <1>2 DEF ListWallets, GatheredWallets
  <2> QED BY <2>1, GatherStep
<1> QED BY <1>1, <1>2

LEMMA RefinedStep ==
  ASSUME RInv, [ServiceNext]_serviceVars
  PROVE  RInv' /\ [Registry!Next]_(Registry!vars)
<1>1. IInv'
  BY NextKeeps, DashboardAssumption DEF RInv
<1>2. SUFFICES RInv' /\ (Registry!Next \/ UNCHANGED Shown)
  BY DEF Registry!vars, Shown
<1>3. CASE UNCHANGED serviceVars
  <2>1. UNCHANGED <<wallets, sessions, nextID, pc, call, draft, answer, calls>>
    BY <1>3 DEF serviceVars, service
  <2>2. NumbersOK'
    BY <2>1 DEF RInv, NumbersOK, Pending
  <2>3. \A c \in Clients : ClientOK(c)'
    BY <2>1 DEF RInv, ClientOK
  <2> QED BY <1>1, <2>1, <2>2, <2>3, ShownStays DEF RInv
<1>4. ASSUME NEW c \in Clients, NEW req \in Requests, Receive(c, req)
      PROVE  RInv' /\ (Registry!Next \/ UNCHANGED Shown)
  BY <1>1, <1>4, ReceiveStep
<1>5. ASSUME NEW c \in Clients, Announce(c) \/ Serve(c)
      PROVE  RInv' /\ (Registry!Next \/ UNCHANGED Shown)
  <2>1. CASE Announce(c) \/ Enter(c) \/ RLock(c) \/ RUnlock(c) \/ Unlock(c)
    BY <1>1, <2>1, LockStep
  <2>2. CASE Lookup(c)
    BY <1>1, <2>2, FoundStep, NotFoundStep
  <2>3. CASE Bump(c)
    BY <1>1, <2>3, BumpStep
  <2>4. CASE PairWallet(c)
    BY <1>1, <2>4, PairStep
  <2>5. CASE CreateBridgeSession(c)
    BY <1>1, <2>5, CreateStep
  <2>6. CASE Size(c)
    BY <1>1, <2>6, GatherStep
  <2>7. CASE ListWallets(c)
    BY <1>1, <2>7, ListWalletsStep
  <2>8. CASE ListBridgeSessions(c) \/ ListRoutes(c)
    BY <1>1, <2>8, ListStep
  <2> QED BY <1>5, <2>1, <2>2, <2>3, <2>4, <2>5, <2>6, <2>7, <2>8 DEF Serve
<1> QED BY <1>3, <1>4, <1>5 DEF ServiceNext

LEMMA RefinedInit == ServiceInit => Registry!Init
<1> SUFFICES ASSUME ServiceInit PROVE Registry!Init
  OBVIOUS
<1>1. { wallets[id] : id \in DOMAIN wallets } = {}
  BY DEF ServiceInit, NewService
<1> QED BY <1>1, SameRoutes DEF ServiceInit, NewService, Registry!Init

\* Concurrent requests to the Service are linearizable: whatever the
\* interleaving at the RWMutex, each takes effect at one instant, as in a
\* registry whose calls are single steps.
THEOREM CallsAreLinearizable == ServiceSpec => ImplementsRegistry
<1>1. RInv /\ [ServiceNext]_serviceVars => RInv' /\ [Registry!Next]_(Registry!vars)
  BY RefinedStep
<1> QED
  BY InitRInv, RefinedInit, <1>1, PTL DEF ServiceSpec, ImplementsRegistry, Registry!Spec
=============================================================================
