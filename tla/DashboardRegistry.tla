------------------------- MODULE DashboardRegistry -------------------------
(***************************************************************************)
(* What the dashboard's service promises its concurrent callers: each call *)
(* takes effect at one instant between its request and its answer, ids are *)
(* never given twice, and a listing is what was there at that instant.     *)
(***************************************************************************)
EXTENDS Routes, Sequences

CONSTANTS Clients, Requests, MaxID

VARIABLES wallets,   \* the paired wallets
          sessions,  \* the planned bridge sessions, in order
          call,      \* each client's request
          answer     \* and what it is told, or "none" while it waits

vars == <<wallets, sessions, call, answer>>

None == [kind |-> "none"]
Idle == [op |-> "idle"]

Init ==
  /\ wallets = {}
  /\ sessions = <<>>
  /\ call = [c \in Clients |-> Idle]
  /\ answer = [c \in Clients |-> None]

Answer(c, a) == answer' = [answer EXCEPT ![c] = a]

Request(c, req) ==
  /\ call' = [call EXCEPT ![c] = req]
  /\ \/ Answer(c, None)
     \/ Answer(c, [kind |-> "invalid"])
  /\ UNCHANGED <<wallets, sessions>>

Fresh(id) == /\ \A w \in wallets : w.id < id
             /\ \A i \in 1..Len(sessions) : sessions[i].id < id

Pair(c) ==
  /\ call[c].op = "pair"
  /\ \E id \in 1..MaxID :
       LET w == [id |-> id, chain |-> call[c].chain]
       IN  Fresh(id) /\ wallets' = wallets \cup {w}
                     /\ Answer(c, [kind |-> "wallet", wallet |-> w])
  /\ UNCHANGED sessions

Plan(c) ==
  /\ call[c].op = "create"
  /\ \E id \in 1..MaxID, w \in wallets :
       LET s == [id |-> id, wallet |-> w,
                 route |-> SelectRoute(w.chain, call[c].to, call[c].prefer)]
       IN  /\ w.id = call[c].wallet /\ Fresh(id)
           /\ sessions' = Append(sessions, s)
           /\ Answer(c, [kind |-> "session", session |-> s])
  /\ UNCHANGED wallets

Refuse(c) ==
  /\ call[c].op = "create"
  /\ call[c].wallet \notin { w.id : w \in wallets }
  /\ Answer(c, [kind |-> "not found"])
  /\ UNCHANGED <<wallets, sessions>>

List(c) ==
  /\ \/ call[c].op = "wallets" /\ Answer(c, [kind |-> "wallets", list |-> wallets])
     \/ call[c].op = "sessions" /\ Answer(c, [kind |-> "sessions", list |-> sessions])
     \/ /\ call[c].op = "routes"
        /\ Answer(c, [kind |-> "routes", list |-> RoutesFor(call[c].from, call[c].to)])
  /\ UNCHANGED <<wallets, sessions>>

Next ==
  \E c \in Clients :
    \/ /\ call[c] = Idle \/ answer[c] # None
       /\ \E req \in Requests : Request(c, req)
    \/ /\ answer[c] = None
       /\ Pair(c) \/ Plan(c) \/ Refuse(c) \/ List(c)
       /\ UNCHANGED call

Spec == Init /\ [][Next]_vars
=============================================================================
