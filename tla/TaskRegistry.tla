---------------------------- MODULE TaskRegistry ----------------------------
(***************************************************************************)
(* How the factory hands out tasks (factory/main.go).  A task looked up by *)
(* name is a copy with its two assets filled in; one looked up by a pair   *)
(* of assets is the configured task itself, whose two asset fields every   *)
(* caller shares and every such lookup overwrites, without a lock.         *)
(***************************************************************************)
EXTENDS Integers, FiniteSetsExt, Sequences, Functions

CONSTANTS
  Callers,     \* goroutines using one factory
  Assets,      \* the ids of the configured assets
  Tasks,       \* the configured tasks, in order: [name, allow]
  Pipelines,   \* the configured pipelines, in order: [allow, tasks]
  Fold,        \* a name as strings.EqualFold sees it
  Requests,    \* [name, src, dst], where name or dst may be None
  None,
  OneAtATime   \* whether callers keep lookups by assets from overlapping

Any == "*"
NoCall == [name |-> None, src |-> None, dst |-> None]
Names == { Tasks[i].name : i \in DOMAIN Tasks }
Allow(name) == (CHOOSE t \in Range(Tasks) : t.name = name).allow

\* What a configuration is.
ASSUME ConfigAssumption ==
  /\ Tasks \in Seq(Range(Tasks)) /\ Pipelines \in Seq(Range(Pipelines))
  /\ \A t \in Range(Tasks) : t.allow \in Seq(Range(t.allow))
  /\ \A p \in Range(Pipelines) : p.tasks \in Seq(Range(p.tasks)) /\ p.tasks # <<>>
  /\ \A t, u \in Range(Tasks) : t.name = u.name => t = u
  /\ None \notin Assets /\ Any \notin Assets
  /\ \A r \in Requests : r.name = None => r.dst # None

\* What crosschain.yaml keeps to as well, and no code sees to: a task is allowed
\* for assets that are configured, and for each of them once, and the tasks of a
\* pipeline have no assets of their own.
ASSUME AllowAssumption ==
  \A t \in Range(Tasks) : \A e \in Range(t.allow) : e.src \in Assets \cup {Any}
ASSUME ReloadAssumption ==
  /\ \A t \in Range(Tasks) : \A e, f \in Range(t.allow) : f.src \in {e.src, Any} => e = f
  /\ \A p \in Range(Pipelines) : \A n \in Names \cap Range(p.tasks) : Allow(n) = <<>>

VARIABLES
  shared,   \* the SrcAsset and DstAsset fields of each configured task
  pc,       \* "idle", "enriching", "held" or "refused", for each caller
  call,     \* its request
  todo,     \* the tasks of the path found that are still to be enriched
  half,     \* whether the first of them has its source only
  found     \* the tasks it got: its own copies, or the shared ones

tasksVars == <<shared, pc, call, todo, half, found>>

TasksInit ==
  /\ shared = [n \in Names |-> [src |-> None, dst |-> None]]
  /\ pc = [c \in Callers |-> "idle"]
  /\ call = [c \in Callers |-> NoCall]
  /\ todo = [c \in Callers |-> <<>>]
  /\ half = [c \in Callers |-> FALSE]
  /\ found = [c \in Callers |-> <<>>]

-----------------------------------------------------------------------------

Grants(config, src, dst) == [src |-> src, dst |-> dst] \in Range(config.allow)

\* Mutant: a copied task moves the asset to itself.
CopyToSource(name, src) ==
  IF name \in Names /\ \E e \in Range(Allow(name)) : e.src \in {Any, src}
  THEN <<[task |-> name, own |-> TRUE, src |-> src, dst |-> src]>>
  ELSE <<>>

\* The copy that the first allow entry for src gives, if there is one.
CfgFromTask(name, src) ==
  LET allow == IF name \in Names THEN Allow(name) ELSE <<>>
      hits  == { i \in DOMAIN allow : allow[i].src \in {Any, src} }
      entry == allow[Min(hits)]
      dst   == IF entry.src = Any THEN src ELSE entry.dst
  IN  IF hits = {} \/ dst \notin Assets THEN <<>>
      ELSE <<[task |-> name, own |-> TRUE, dst |-> dst,
              src |-> IF src \in Assets THEN src ELSE None]>>

\* The names of the tasks that lead from src to dst: one task, or a pipeline's.
Path(src, dst) ==
  LET direct == { i \in DOMAIN Tasks : Grants(Tasks[i], src, dst) }
      piped  == { i \in DOMAIN Pipelines : Grants(Pipelines[i], src, dst) }
  IN  IF {src, dst} \subseteq Assets /\ direct # {} THEN <<Tasks[Min(direct)].name>>
      ELSE IF {src, dst} \subseteq Assets /\ piped # {} THEN Pipelines[Min(piped)].tasks
      ELSE <<>>

\* A lookup by assets may start: the callers take turns, or do not care.
Turn(c) == OneAtATime =>
  \A d \in Callers \ {c} : /\ pc[d] # "enriching"
                           /\ \A i \in DOMAIN found[d] : found[d][i].own

Goto(c, label) == pc' = [pc EXCEPT ![c] = label]

\* A caller asks for a task by name, by a pair of assets or by all three.
Lookup(c) ==
  /\ pc[c] = "idle"
  /\ \E r \in Requests :
       LET copy == IF r.name = None THEN <<>> ELSE CfgFromTask(r.name, r.src)
           path == IF r.dst = None THEN <<>> ELSE Path(r.src, r.dst)
       IN  /\ call' = [call EXCEPT ![c] = r]
           /\ \/ /\ copy # <<>>
                 /\ Goto(c, "held")
                 /\ found' = [found EXCEPT ![c] = copy]
                 /\ UNCHANGED todo
              \/ /\ copy = <<>> /\ path # <<>> /\ Turn(c)
                 /\ Goto(c, "enriching")
                 /\ todo' = [todo EXCEPT ![c] = path]
                 /\ UNCHANGED found
              \/ /\ copy = <<>> /\ path = <<>>
                 /\ Goto(c, "refused")
                 /\ UNCHANGED <<todo, found>>
  /\ UNCHANGED <<shared, half>>

\* Mutant: a task that has its source already is taken to be enriched.
StoreSrcOnce(c) ==
  /\ pc[c] = "enriching" /\ todo[c] # <<>> /\ ~half[c]
  /\ Head(todo[c]) \in Names
  /\ shared' = IF shared[Head(todo[c])].src # None THEN shared
               ELSE [shared EXCEPT ![Head(todo[c])].src = call[c].src]
  /\ half' = [half EXCEPT ![c] = TRUE]
  /\ UNCHANGED <<pc, call, todo, found>>

\* The two stores of enrichTaskBySrcDstAssets.
StoreSrc(c) ==
  /\ pc[c] = "enriching" /\ todo[c] # <<>> /\ ~half[c]
  /\ Head(todo[c]) \in Names
  /\ shared' = [shared EXCEPT ![Head(todo[c])].src = call[c].src]
  /\ half' = [half EXCEPT ![c] = TRUE]
  /\ UNCHANGED <<pc, call, todo, found>>

StoreDst(c) ==
  /\ half[c]
  /\ shared' = [shared EXCEPT ![Head(todo[c])].dst = call[c].dst]
  /\ half' = [half EXCEPT ![c] = FALSE]
  /\ found' = [found EXCEPT ![c] = Append(@, [task |-> Head(todo[c]), own |-> FALSE])]
  /\ todo' = [todo EXCEPT ![c] = Tail(@)]
  /\ UNCHANGED <<pc, call>>

\* A pipeline may name a task that is not configured.
Misnamed(c) ==
  /\ pc[c] = "enriching" /\ todo[c] # <<>>
  /\ Head(todo[c]) \notin Names
  /\ Goto(c, "refused")
  /\ todo' = [todo EXCEPT ![c] = <<>>]
  /\ found' = [found EXCEPT ![c] = <<>>]
  /\ UNCHANGED <<shared, call, half>>

\* All of the path enriched; a name picks the first task it fits.
Deliver(c) ==
  /\ pc[c] = "enriching" /\ todo[c] = <<>>
  /\ LET fits   == { i \in DOMAIN found[c] : Fold[found[c][i].task] = Fold[call[c].name] }
         result == IF call[c].name = None THEN found[c]
                   ELSE IF fits = {} THEN <<>> ELSE <<found[c][Min(fits)]>>
     IN  /\ found' = [found EXCEPT ![c] = result]
         /\ Goto(c, IF result = <<>> THEN "refused" ELSE "held")
  /\ UNCHANGED <<shared, call, todo, half>>

\* The caller is done with its tasks, or with the error.
Drop(c) ==
  /\ pc[c] \in {"held", "refused"}
  /\ Goto(c, "idle")
  /\ call' = [call EXCEPT ![c] = NoCall]
  /\ found' = [found EXCEPT ![c] = <<>>]
  /\ UNCHANGED <<shared, todo, half>>

TasksNext == \E c \in Callers : Lookup(c) \/ StoreSrc(c) \/ StoreDst(c) \/ Misnamed(c)
                           \/ Deliver(c) \/ Drop(c)

TasksSpec == TasksInit /\ [][TasksNext]_tasksVars

-----------------------------------------------------------------------------

\* The assets a task shows whoever reads it now.
View(task) == IF task.own THEN [src |-> task.src, dst |-> task.dst]
                          ELSE shared[task.task]

Held(c) == IF pc[c] = "held" THEN Range(found[c]) ELSE {}

(* Every variable has its type, and a half-enriched task is one that is    *)
(* still on its caller's path (enrichTaskBySrcDstAssets).                  *)
TasksTypeOK ==
  /\ shared \in [Names -> [src : Assets \cup {None}, dst : Assets \cup {None}]]
  /\ pc \in [Callers -> {"idle", "enriching", "held", "refused"}]
  /\ call \in [Callers -> Requests \cup {NoCall}]
  /\ half \in [Callers -> BOOLEAN]
  /\ \A c \in Callers :
       /\ (pc[c] = "idle") = (call[c] = NoCall)
       /\ half[c] => pc[c] = "enriching" /\ todo[c] # <<>> /\ Head(todo[c]) \in Names
       /\ \A i \in DOMAIN found[c] : found[c][i].task \in Names

(* As long as a caller holds the tasks it looked up, they move the asset   *)
(* it asked about, and one found by a pair of assets moves it to the asset *)
(* it named (getTaskConfigBySrcDstAssets).                                 *)
HeldAsAsked ==
  \A c \in Callers : \A task \in Held(c) :
    /\ View(task).src = call[c].src
    /\ ~task.own => View(task).dst = call[c].dst

(* A task that was found by its assets is the same when it is loaded again *)
(* by its name and those assets, as a service does that keeps only the     *)
(* task's id between the steps of a pipeline (TestWormholeReloadTasks).    *)
ReloadGivesTheSame ==
  \A c \in Callers : \A task \in Held(c) :
    call[c].name = None =>
      LET again == CfgFromTask(task.task, call[c].src)
          path  == Path(call[c].src, call[c].dst)
      IN  IF again = <<>> THEN task.task \in Range(path)
                          ELSE View(again[1]) = View(task)
=============================================================================
