------------------------------- MODULE SuiInfo -------------------------------
(***************************************************************************)
(* What the Sui client reads in the balance changes of a transaction       *)
(* (chain/sui/client.go FetchTxInfo).                                      *)
(***************************************************************************)
EXTENDS Integers, Sequences, SequencesExt, FiniteSetsExt

CONSTANTS None, SUI

\* External: the balance changes that the node lists, one for each owner and
\* type of coin that has more or less than before, by owner and then by type,
\* SUI before the others.  t.owners is the order of the addresses.
Change(t, ok, owner, coin) ==
  LET of(m) == (IF m.to = owner /\ m.asset = coin THEN m.amount ELSE 0)
               - (IF m.from = owner /\ m.asset = coin THEN m.amount ELSE 0)
  IN  (IF ok THEN FoldLeft(LAMBDA sum, m : sum + of(m), 0, t.moves) ELSE 0)
      - IF owner = t.from /\ coin = SUI THEN t.gas ELSE 0

BalanceChanges(t, ok) ==
  LET coins == <<SUI>> \o SetToSeq({ m.asset : m \in ToSet(t.moves) } \ {SUI})
      all == FlattenSeq([k \in DOMAIN t.owners |->
               [j \in DOMAIN coins |->
                  [owner |-> t.owners[k], coin |-> coins[j],
                   amount |-> Change(t, ok, t.owners[k], coins[j])]]])
  IN  SelectSeq(all, LAMBDA c : c.amount # 0)

\* The owner of a coin may be an object, one of t.objects: it has no address to
\* dereference.
Panics(t, ok) ==
  \E k \in DOMAIN BalanceChanges(t, ok) : BalanceChanges(t, ok)[k].owner \in t.objects

NextRequest(got) ==
  IF "tx" \notin DOMAIN got THEN "tx"
  ELSE IF "latest" \notin DOMAIN got THEN "latest"
  ELSE IF "checkpoint" \notin DOMAIN got THEN "checkpoint" ELSE "done"

Contract(c) == IF c.coin = SUI THEN None ELSE c.coin

LastOf(seq, otherwise) == IF seq = <<>> THEN otherwise ELSE Last(seq)
Sum(seq) == FoldLeft(LAMBDA sum, c : sum + c.amount, 0, seq)

\* The sender is the last owner with less, the recipient and the amount are of
\* the last one with more, and the contract is that of the last change.
Info(t, got) ==
  LET changes == BalanceChanges(t, got["tx"].ok)
      sent == SelectSeq(changes, LAMBDA c : c.amount < 0)
      received == SelectSeq(changes, LAMBDA c : c.amount >= 0)
      none == [owner |-> None, coin |-> SUI, amount |-> 0]
  IN  [from |-> LastOf(sent, none).owner, to |-> LastOf(received, none).owner,
       contract |-> Contract(LastOf(changes, none)),
       amount |-> LastOf(received, none).amount,
       fee |-> -Sum(sent) - Sum(received),
       failed |-> ~got["tx"].ok, block |-> got["tx"].place,
       confirmations |-> got["latest"].height - got["tx"].place,
       destinations |-> [k \in DOMAIN received |->
          [contract |-> Contract(received[k]), to |-> received[k].owner,
           amount |-> received[k].amount]]]
=============================================================================
