------------------------------- MODULE ModelCache -------------------------------
(***************************************************************************)
(* ModelCache: the models held in memory, the threads that use them, and   *)
(* the memory budget.                                                      *)
(*                                                                         *)
(* Every section under the cache's lock is one action.  The lock is free   *)
(* while a model is used and while it is unloaded, and between the choice  *)
(* of a victim and its eviction.  A use, a registration and a new budget   *)
(* each end in enforcing the budget; an eviction asked for directly does   *)
(* not.  A model whose unloading raises stays in the cache, unusable.      *)
(***************************************************************************)
EXTENDS Integers, Sequences, FiniteSets
LOCAL INSTANCE FiniteSetsExt

CONSTANTS
  CacheThreads,
  Models,
  NoModel,
  Megabytes,   \* the size of each model
  Budgets,     \* the budgets that are set
  NoBudget     \* no limit, which every budget is below

ASSUME CacheAssumption ==
  /\ IsFiniteSet(CacheThreads)
  /\ Megabytes \in [Models -> Nat]
  /\ Budgets \subseteq Nat
  /\ NoBudget \in Nat /\ NoBudget > MapThenSumSet(LAMBDA k : Megabytes[k], Models)

VARIABLES
  entries,   \* the models in the cache, each with its users and whether it is unloading
  recent,    \* the models in the cache, the least recently used first
  resident,  \* the memory accounted for
  budget,
  thread,    \* what each thread does
  direct,    \* history: the models whose last unloading was asked for directly
  yielded,   \* history: an enforcement has given up on one of those
  broken     \* history: the models whose unloading has raised

cacheVars == <<entries, recent, resident, budget, thread, direct, yielded, broken>>

Steps == {"idle", "using", "enforcing", "evicting", "unloading"}

CacheInit ==
  /\ entries = [k \in {} |-> {}]
  /\ recent = <<>>
  /\ resident = 0
  /\ budget \in Budgets \cup {NoBudget}
  /\ thread = [t \in CacheThreads |-> [at |-> "idle", model |-> NoModel, enforces |-> FALSE]]
  /\ direct = {}
  /\ yielded = FALSE
  /\ broken = {}

Is(t, step) == thread[t].at = step
Becomes(t, step, k, enforces) ==
  thread' = [thread EXCEPT ![t] = [at |-> step, model |-> k, enforces |-> enforces]]

Touched(k) == Append(SelectSeq(recent, LAMBDA m : m # k), k)

\* The models that nobody uses and nobody unloads.
Candidates == {k \in DOMAIN entries : entries[k].users = 0 /\ ~entries[k].unloading}

Register(t, k) ==
  /\ Is(t, "idle") /\ k \notin DOMAIN entries
  /\ entries' = [m \in DOMAIN entries \cup {k} |->
                   IF m = k THEN [users |-> 0, unloading |-> FALSE] ELSE entries[m]]
  /\ recent' = Touched(k)
  /\ resident' = resident + Megabytes[k]
  /\ Becomes(t, "enforcing", NoModel, FALSE)
  /\ UNCHANGED <<budget, direct, yielded, broken>>

SetMemoryBudget(t, b) ==
  /\ Is(t, "idle")
  /\ budget' = b
  /\ Becomes(t, "enforcing", NoModel, FALSE)
  /\ UNCHANGED <<entries, recent, resident, direct, yielded, broken>>

\* The least recently used candidate is evicted, if the budget asks for it.
EnforceBudget(t) ==
  /\ Is(t, "enforcing")
  /\ IF resident <= budget \/ Candidates = {}
     THEN Becomes(t, "idle", NoModel, FALSE)
     ELSE \E i \in DOMAIN recent :
            /\ recent[i] \in Candidates /\ \A j \in 1 .. i - 1 : recent[j] \notin Candidates
            /\ Becomes(t, "evicting", recent[i], TRUE)
  /\ UNCHANGED <<entries, recent, resident, budget, direct, yielded, broken>>

AcquireModel(t, k) ==
  /\ Is(t, "idle")
  /\ k \in DOMAIN entries /\ ~entries[k].unloading
  /\ entries' = [entries EXCEPT ![k].users = @ + 1]
  /\ recent' = Touched(k)
  /\ Becomes(t, "using", k, FALSE)
  /\ UNCHANGED <<resident, budget, direct, yielded, broken>>

\* Faulty variant: the budget is not enforced when a use ends.
ReleaseOnly(t) ==
  /\ Is(t, "using")
  /\ entries' = [entries EXCEPT ![thread[t].model].users = @ - 1]
  /\ Becomes(t, "idle", NoModel, FALSE)
  /\ UNCHANGED <<recent, resident, budget, direct, yielded, broken>>

Release(t) ==
  /\ Is(t, "using")
  /\ entries' = [entries EXCEPT ![thread[t].model].users = @ - 1]
  /\ Becomes(t, "enforcing", NoModel, FALSE)
  /\ UNCHANGED <<recent, resident, budget, direct, yielded, broken>>

AskToEvict(t, k) ==
  /\ Is(t, "idle") /\ k \in DOMAIN entries
  /\ Becomes(t, "evicting", k, FALSE)
  /\ UNCHANGED <<entries, recent, resident, budget, direct, yielded, broken>>

\* Faulty variant: the choice of a victim is trusted although the lock was free since.
EvictableAsChosen(k) == k \in DOMAIN entries /\ ~entries[k].unloading

Evictable(k) == k \in Candidates

Evict(t) ==
  LET k == thread[t].model
      enforces == thread[t].enforces
  IN /\ Is(t, "evicting")
     /\ Evictable(k)
     /\ entries' = [entries EXCEPT ![k].unloading = TRUE]
     /\ direct' = IF enforces THEN direct \ {k} ELSE direct \cup {k}
     /\ Becomes(t, "unloading", k, enforces)
     /\ UNCHANGED <<recent, resident, budget, yielded, broken>>

\* Somebody uses it or was first to evict it: a direct request, or the whole enforcement,
\* ends here.
EvictRefused(t) ==
  LET k == thread[t].model
  IN /\ Is(t, "evicting")
     /\ ~Evictable(k)
     /\ yielded' = (yielded \/ (thread[t].enforces /\ k \in direct))
     /\ Becomes(t, "idle", NoModel, FALSE)
     /\ UNCHANGED <<entries, recent, resident, budget, direct, broken>>

Unloaded(t) ==
  LET k == thread[t].model
  IN /\ Is(t, "unloading")
     /\ entries' = [m \in DOMAIN entries \ {k} |-> entries[m]]
     /\ recent' = SelectSeq(recent, LAMBDA m : m # k)
     /\ resident' = resident - Megabytes[k]
     /\ IF thread[t].enforces
        THEN Becomes(t, "enforcing", NoModel, FALSE)
        ELSE Becomes(t, "idle", NoModel, FALSE)
     /\ UNCHANGED <<budget, direct, yielded, broken>>

\* The exception leaves through the enforcement too.
UnloadRaises(t) ==
  /\ Is(t, "unloading")
  /\ broken' = broken \cup {thread[t].model}
  /\ Becomes(t, "idle", NoModel, FALSE)
  /\ UNCHANGED <<entries, recent, resident, budget, direct, yielded>>

CacheNext ==
  \E t \in CacheThreads :
    \/ \E k \in Models : Register(t, k) \/ AcquireModel(t, k) \/ AskToEvict(t, k)
    \/ \E b \in Budgets \cup {NoBudget} : SetMemoryBudget(t, b)
    \/ EnforceBudget(t) \/ Release(t)
    \/ Evict(t) \/ EvictRefused(t) \/ Unloaded(t) \/ UnloadRaises(t)

CacheSpec == CacheInit /\ [][CacheNext]_cacheVars

-----------------------------------------------------------------------------
CacheTypeOK ==
  /\ DOMAIN entries \subseteq Models
  /\ entries \in [DOMAIN entries -> [users : Nat, unloading : BOOLEAN]]
  /\ thread = [t \in CacheThreads |-> thread[t]]
  /\ \A t \in CacheThreads : thread[t].at \in Steps

\* The lock is free while a model is used and between the choice of a victim and its
\* eviction; still no model is unloaded or gone while a thread uses it, and one thread at
\* most unloads it.
UsedIsLoaded ==
  /\ \A t \in CacheThreads :
       Is(t, "using") =>
         thread[t].model \in DOMAIN entries /\ ~entries[thread[t].model].unloading
  /\ \A t, u \in CacheThreads :
       Is(t, "unloading") /\ Is(u, "unloading") /\ thread[t].model = thread[u].model => t = u

\* When every use has ended and every call has returned, the memory is within the budget or nothing more
\* can be evicted, however evictions, uses and new budgets have crossed; except after an
\* unloading raised, or an enforcement met a model whose eviction was asked for directly.
WithinBudgetAtRest ==
  (\A t \in CacheThreads : Is(t, "idle")) =>
    resident <= budget \/ Candidates = {} \/ yielded \/ broken # {}

=============================================================================
