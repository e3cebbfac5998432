----------------------------- MODULE Dashboard -----------------------------
(***************************************************************************)
(* The dashboard's Service under concurrent HTTP requests. Each client is  *)
(* a request goroutine; a step is what it does between two points where    *)
(* another goroutine may run. The service's state is guarded by one        *)
(* sync.RWMutex, modelled from the library: a writer announces itself,     *)
(* then waits for the readers already in; readers that come later block    *)
(* until that writer unlocks, and are let in before the next writer.       *)
(***************************************************************************)
EXTENDS Routes, Sequences

CONSTANTS Clients,
          Chains,   \* chain names requests may give, upper case
          Blank,    \* a required field that is empty once trimmed
          NoClient,
          MaxCalls  \* bound: requests made in all

ASSUME DashboardAssumption ==
  MaxCalls \in Nat /\ NoClient \notin Clients /\ Blank \notin Chains

\* Bound: wallet ids asked for; the last one is never given.
AskedIDs == 1..(MaxCalls + 1)

\* Blank stands for any missing field of a request, in the field shown.
Requests ==
  [op : {"pair"}, chain : Chains \cup {Blank}, platform : {"mobile", "pc", "tablet"}]
  \cup [op : {"create"}, wallet : AskedIDs, to : Chains \cup {Blank},
        prefer : BOOLEAN]
  \cup [op : {"wallets", "sessions"}]
  \cup [op : {"routes"}, from : Chains, to : Chains]

VARIABLES
  wallets,   \* Service.wallets, from wallet ids to wallets
  sessions,  \* Service.sessions
  nextID,    \* Service.nextID
  writer,    \* the goroutine that holds the mutex's writer side
  readers,   \* the goroutines that hold the reader side
  pc,        \* where each request is
  call,      \* the request each client makes
  draft,     \* its local variables: the id, route or elements gathered
  answer,    \* what the handler returns
  calls      \* requests made so far

service     == <<wallets, sessions, nextID>>
mu          == <<writer, readers>>
serviceVars == <<service, mu, pc, call, draft, answer, calls>>

Nothing == [kind |-> "none"]
Idle == [op |-> "idle"]
EmptyDraft == [wallet |-> Nothing, keys |-> {}, seen |-> {}, len |-> 0]

NewService ==
  /\ wallets = [id \in {} |-> Nothing]
  /\ sessions = <<>>
  /\ nextID = 0

ServiceInit ==
  /\ NewService
  /\ writer = NoClient /\ readers = {}
  /\ pc = [c \in Clients |-> "idle"]
  /\ call = [c \in Clients |-> Idle]
  /\ draft = [c \in Clients |-> EmptyDraft]
  /\ answer = [c \in Clients |-> Nothing]
  /\ calls = 0

Goto(c, label) == pc' = [pc EXCEPT ![c] = label]
-----------------------------------------------------------------------------
Writes(req) == req.op \in {"pair", "create"}

Valid(req) ==
  CASE req.op = "pair"   -> req.chain # Blank /\ req.platform \in {"mobile", "pc"}
    [] req.op = "create" -> req.to # Blank
    [] OTHER             -> TRUE

\* Mutant: the listings do not take the lock.
ReceiveUnlocked(c, req) ==
  /\ pc[c] = "idle" /\ calls < MaxCalls
  /\ calls' = calls + 1
  /\ call' = [call EXCEPT ![c] = req]
  /\ draft' = [draft EXCEPT ![c] = EmptyDraft]
  /\ IF Valid(req)
     THEN /\ Goto(c, IF Writes(req) THEN "lock" ELSE "size")
          /\ answer' = [answer EXCEPT ![c] = Nothing]
     ELSE /\ answer' = [answer EXCEPT ![c] = [kind |-> "invalid"]]
          /\ UNCHANGED pc
  /\ UNCHANGED <<service, mu>>

\* A handler decodes and validates its request before it takes the lock.
Receive(c, req) ==
  /\ pc[c] = "idle" /\ calls < MaxCalls
  /\ calls' = calls + 1
  /\ call' = [call EXCEPT ![c] = req]
  /\ draft' = [draft EXCEPT ![c] = EmptyDraft]
  /\ IF Valid(req)
     THEN /\ Goto(c, IF Writes(req) THEN "lock" ELSE "rlock")
          /\ answer' = [answer EXCEPT ![c] = Nothing]
     ELSE /\ answer' = [answer EXCEPT ![c] = [kind |-> "invalid"]]
          /\ UNCHANGED pc
  /\ UNCHANGED <<service, mu>>

\* RWMutex.Lock: take the writer side, which holds back new readers ...
Announce(c) ==
  /\ pc[c] = "lock" /\ writer = NoClient
  /\ writer' = c
  /\ Goto(c, "wait")
  /\ UNCHANGED <<service, readers, call, draft, answer, calls>>

\* ... and wait for the present ones.
Enter(c) ==
  /\ pc[c] = "wait" /\ readers = {}
  /\ Goto(c, IF call[c].op = "pair" THEN "bump" ELSE "lookup")
  /\ UNCHANGED <<service, mu, call, draft, answer, calls>>

\* RWMutex.RLock.
RLock(c) ==
  /\ pc[c] = "rlock"
  /\ IF writer = NoClient
     THEN readers' = readers \cup {c} /\ Goto(c, "size")
     ELSE Goto(c, "blocked") /\ UNCHANGED readers
  /\ UNCHANGED <<service, writer, call, draft, answer, calls>>

\* RWMutex.Unlock, deferred: the readers held back go in.
Unlock(c) ==
  LET blocked == { r \in Clients : pc[r] = "blocked" }
  IN  /\ pc[c] = "unlock"
      /\ writer' = NoClient
      /\ readers' = readers \cup blocked
      /\ pc' = [r \in Clients |-> IF r = c THEN "idle"
                                  ELSE IF r \in blocked THEN "size" ELSE pc[r]]
      /\ UNCHANGED <<service, call, draft, answer, calls>>

RUnlock(c) ==
  /\ pc[c] = "runlock"
  /\ readers' = readers \ {c}
  /\ Goto(c, "idle")
  /\ UNCHANGED <<service, writer, call, draft, answer, calls>>
-----------------------------------------------------------------------------
Return(c, a, label) ==
  /\ answer' = [answer EXCEPT ![c] = a]
  /\ Goto(c, label)

\* Mutant: a wallet that is not in the map is taken for an empty one.
LookupUnchecked(c) ==
  /\ pc[c] = "lookup"
  /\ draft' = [draft EXCEPT ![c].wallet =
                 IF call[c].wallet \in DOMAIN wallets THEN wallets[call[c].wallet]
                 ELSE [id |-> call[c].wallet, chain |-> Blank]]
  /\ Goto(c, "bump")
  /\ UNCHANGED <<service, mu, call, answer, calls>>

\* Mutant: a request for a wallet that is not there returns with the lock.
LookupKeepsLock(c) ==
  /\ pc[c] = "lookup"
  /\ IF call[c].wallet \in DOMAIN wallets
     THEN /\ draft' = [draft EXCEPT ![c].wallet = wallets[call[c].wallet]]
          /\ Goto(c, "bump")
          /\ UNCHANGED answer
     ELSE /\ Return(c, [kind |-> "not found"], "idle")
          /\ UNCHANGED draft
  /\ UNCHANGED <<service, mu, call, calls>>

\* CreateBridgeSession finds the wallet, then the route.
Lookup(c) ==
  /\ pc[c] = "lookup"
  /\ IF call[c].wallet \in DOMAIN wallets
     THEN LET w == wallets[call[c].wallet]
          IN  IF Candidates(w.chain, call[c].to) = {}
              THEN /\ Return(c, [kind |-> "no route"], "unlock")
                   /\ UNCHANGED draft
              ELSE /\ draft' = [draft EXCEPT ![c].wallet = w]
                   /\ Goto(c, "bump")
                   /\ UNCHANGED answer
     ELSE /\ Return(c, [kind |-> "not found"], "unlock")
          /\ UNCHANGED draft
  /\ UNCHANGED <<service, mu, call, calls>>

\* Mutant: the id is taken from the number of things there are.
BumpByCount(c) ==
  /\ pc[c] = "bump"
  /\ nextID' = IF call[c].op = "pair" THEN Cardinality(DOMAIN wallets) + 1
               ELSE Len(sessions) + 1
  /\ Goto(c, "store")
  /\ UNCHANGED <<wallets, sessions, mu, call, draft, answer, calls>>

Bump(c) ==
  /\ pc[c] = "bump"
  /\ nextID' = nextID + 1
  /\ Goto(c, "store")
  /\ UNCHANGED <<wallets, sessions, mu, call, draft, answer, calls>>

PairWallet(c) ==
  LET w == [id |-> nextID, chain |-> call[c].chain]
  IN  /\ pc[c] = "store" /\ call[c].op = "pair"
      /\ wallets' = [id \in DOMAIN wallets \cup {nextID} |->
                       IF id = nextID THEN w ELSE wallets[id]]
      /\ Return(c, [kind |-> "wallet", wallet |-> w], "unlock")
      /\ UNCHANGED <<sessions, nextID, mu, call, draft, calls>>

\* Mutant: the session is put over the last one.
CreateOverLast(c) ==
  LET w == draft[c].wallet
      s == [id |-> nextID, wallet |-> w,
            route |-> SelectRoute(w.chain, call[c].to, call[c].prefer)]
  IN  /\ pc[c] = "store" /\ call[c].op = "create"
      /\ sessions' = IF sessions = <<>> THEN <<s>>
                     ELSE [sessions EXCEPT ![Len(sessions)] = s]
      /\ Return(c, [kind |-> "session", session |-> s], "unlock")
      /\ UNCHANGED <<wallets, nextID, mu, call, draft, calls>>

\* Wallet and route are copied into the session by value.
CreateBridgeSession(c) ==
  LET w == draft[c].wallet
      s == [id |-> nextID, wallet |-> w,
            route |-> SelectRoute(w.chain, call[c].to, call[c].prefer)]
  IN  /\ pc[c] = "store" /\ call[c].op = "create"
      /\ sessions' = Append(sessions, s)
      /\ Return(c, [kind |-> "session", session |-> s], "unlock")
      /\ UNCHANGED <<wallets, nextID, mu, call, draft, calls>>
-----------------------------------------------------------------------------
\* A listing allocates for what there is, then copies element by element.
Size(c) ==
  /\ pc[c] = "size"
  /\ draft' = [draft EXCEPT ![c].keys = DOMAIN wallets, ![c].len = Len(sessions)]
  /\ Goto(c, "copy")
  /\ UNCHANGED <<service, mu, call, answer, calls>>

\* The range over the map gives one wallet at a time, in any order, and sees
\* an entry that is added meanwhile or misses it.
ListWallets(c) ==
  /\ pc[c] = "copy" /\ call[c].op = "wallets"
  /\ \/ /\ \E id \in DOMAIN wallets \ draft[c].seen :
             draft' = [draft EXCEPT ![c].seen = @ \cup {id}]
        /\ UNCHANGED <<pc, answer>>
     \/ /\ draft[c].keys \subseteq draft[c].seen
        /\ Return(c, [kind |-> "wallets",
                      list |-> { wallets[id] : id \in draft[c].seen }], "runlock")
        /\ UNCHANGED draft
  /\ UNCHANGED <<service, mu, call, calls>>

ListBridgeSessions(c) ==
  /\ pc[c] = "copy" /\ call[c].op = "sessions"
  /\ Return(c, [kind |-> "sessions",
                list |-> SubSeq(sessions, 1, draft[c].len)], "runlock")
  /\ UNCHANGED <<service, mu, call, draft, calls>>

ListRoutes(c) ==
  /\ pc[c] = "copy" /\ call[c].op = "routes"
  /\ Return(c, [kind |-> "routes", list |-> RoutesFor(call[c].from, call[c].to)],
            "runlock")
  /\ UNCHANGED <<service, mu, call, draft, calls>>

Serve(c) ==
  \/ Enter(c) \/ Unlock(c) \/ RLock(c) \/ RUnlock(c)
  \/ Lookup(c) \/ Bump(c) \/ PairWallet(c) \/ CreateBridgeSession(c)
  \/ Size(c) \/ ListWallets(c) \/ ListBridgeSessions(c) \/ ListRoutes(c)

ServiceNext ==
  \E c \in Clients : Announce(c) \/ Serve(c)
                     \/ \E req \in Requests : Receive(c, req)

ServiceSpec == ServiceInit /\ [][ServiceNext]_serviceVars

\* Goroutines are scheduled, and a waiting writer gets the mutex in the end
\* (sync.Mutex hands over to one that has waited for a millisecond).
Fairness == \A c \in Clients : WF_serviceVars(Serve(c)) /\ SF_serviceVars(Announce(c))

FairSpec == ServiceSpec /\ Fairness
-----------------------------------------------------------------------------
ServiceTypeOK ==
  /\ nextID \in 0..MaxCalls
  /\ DOMAIN wallets \subseteq 1..MaxCalls
  /\ \A id \in DOMAIN wallets : wallets[id] \in [id : {id}, chain : Chains]
  /\ Len(sessions) \in 0..MaxCalls
  /\ writer \in Clients \cup {NoClient} /\ readers \subseteq Clients
  /\ pc \in [Clients -> {"idle", "lock", "wait", "lookup", "bump", "store", "unlock",
                         "rlock", "blocked", "size", "copy", "runlock"}]
  /\ call \in [Clients -> Requests \cup {Idle}]
  /\ calls \in 0..MaxCalls

\* No two of the wallets and sessions are ever given the same number, and
\* sessions are kept in the order of their numbers.
IdsAreDistinct ==
  /\ \A i, j \in 1..Len(sessions) : i < j => sessions[i].id < sessions[j].id
  /\ \A i \in 1..Len(sessions) : sessions[i].id \notin DOMAIN wallets

\* A session is for a wallet that is paired, as it is paired.
SessionsHaveWallets ==
  \A i \in 1..Len(sessions) :
    /\ sessions[i].wallet.id \in DOMAIN wallets
    /\ sessions[i].wallet = wallets[sessions[i].wallet.id]

\* What a client has been told of stays: wallets are never dropped or
\* changed, sessions only appended.
NothingIsLost ==
  [][/\ \A id \in DOMAIN wallets : id \in DOMAIN wallets' /\ wallets'[id] = wallets[id]
     /\ Len(sessions') >= Len(sessions)
     /\ SubSeq(sessions', 1, Len(sessions)) = sessions]_serviceVars

Planned(c) == answer[c].kind = "session"

\* Every request is answered: no handler waits for ever for the mutex.
EveryCallReturns == \A c \in Clients : pc[c] # "idle" ~> pc[c] = "idle"

Registry == INSTANCE DashboardRegistry
              WITH MaxID <- MaxCalls,
                   wallets <- { wallets[id] : id \in DOMAIN wallets }

\* Concurrent calls are linearizable: each takes effect at one instant.
ImplementsRegistry == Registry!Spec
=============================================================================
