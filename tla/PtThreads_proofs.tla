-------------------------- MODULE PtThreads_proofs ---------------------------
(***************************************************************************)
(* Proofs about PtThreads, for any workers and any that may be detached.   *)
(*                                                                         *)
(* IInv has two halves.  One is about the running_mutex of a thread, which *)
(* the thread has from before it is known to anybody until it ends.  The   *)
(* other is about the catalog: its nodes, their links, and what the store  *)
(* of the head after a removal, made without the lock, may put there.      *)
(***************************************************************************)
EXTENDS PtThreads, TLAPS

Unready == {"begun", "listed", "locked"}
Early == {"none", "failed"} \cup Unready

\* A thread that is on its way to its routine is the one pthread_create waits for.
Starting ==
    \A w \in Worker :
        /\ pc[w] \in Unready => call.at = "creating" /\ call.who = w
        /\ w \in registered => pc[w] \notin Early

\* The mutex is with the thread from before the registration until the exit.
Running == \A w \in Worker : pc[w] \in {"locked", "running", "walk", "found"} => owner[w] = w

Joining ==
    /\ call.at \in {"lock", "joined"} => pc[call.who] \notin Early
    /\ call.at = "joined" => Ended(call.who)

\* The nodes N linked by link: none leads out of N or back to the first, no two lead to
\* the same, and all of them are met from the first on.
Chained(N, link) ==
    /\ Main \in N
    /\ \A u \in N : link[u] \in (N \cup {Null}) \ {Main}
    /\ \A u, v \in N : link[u] = link[v] /\ link[u] # Null => u = v
    /\ \A S \in SUBSET N :
          Main \in S /\ (\A u \in S : link[u] # Null => link[u] \in S) => S = N

\* The nodes in N have the same link in both.
Agree(N, link, new) == \A u \in N : new[u] = link[u]

Nodes == {Main} \cup {w \in Worker : HasNode(w)}

\* Nobody removes the main thread, so that the head never changes; a node is freed after
\* it has been unlinked.
Catalog ==
    /\ head = Main
    /\ Chained(Nodes, next)
    /\ \A w \in Worker :
          /\ pc[w] = "store" => at[w] = Main
          /\ pc[w] \in {"freed", "store"} => w \in freed
          /\ w \in freed => pc[w] \in {"freed", "store", "gone"}

IInv == TypeOK /\ Starting /\ Running /\ Joining /\ JoinedHasEnded /\ Catalog

-----------------------------------------------------------------------------
(* Lists *)

\* What is written into links of other nodes does not matter.
LEMMA OtherLinks ==
    ASSUME NEW N, NEW link, NEW new, Chained(N, link), Agree(N, link, new)
    PROVE  Chained(N, new)
BY DEF Chained, Agree

\* A walk from the head (__get_thread) meets the nodes of the catalog and no others.
LEMMA WalkMeets ==
    ASSUME head = Main, Nodes \subseteq Thread, Chained(Nodes, next), Main # Null
    PROVE  Listed = Nodes
<1>1. ASSUME NEW t \in Listed PROVE t \in Nodes
  <2>1. /\ Main \in Nodes
        /\ \A u \in Nodes : next[u] # Null => next[u] \in Nodes
    BY DEF Chained
  <2> QED BY <1>1, <2>1 DEF Listed
<1>2. ASSUME NEW t \in Nodes, NEW S \in SUBSET Thread,
             Main \in S, \A u \in S : next[u] # Null => next[u] \in S
      PROVE  t \in S
  <2>1. /\ S \cap Nodes \in SUBSET Nodes /\ Main \in S \cap Nodes
        /\ \A u \in S \cap Nodes : next[u] # Null => next[u] \in S \cap Nodes
    BY <1>2 DEF Chained
  <2>2. S \cap Nodes = Nodes BY <2>1 DEF Chained
  <2> QED BY <2>2
<1>3. \A t \in Nodes : t \in Listed BY <1>2 DEF Listed
<1> QED BY <1>1, <1>3

\* __register_thread: a new node after the last.
LEMMA AppendChained ==
    ASSUME NEW N, NEW link, Chained(N, link), NEW t, t \notin N, t # Null,
           NEW last \in N, link[last] = Null,
           NEW new, new[last] = t, new[t] = Null,
           Agree(N \ {last}, link, new)
    PROVE  Chained(N \cup {t}, new)
<1>1. Main \in N \cup {t} BY DEF Chained, Agree
<1>2. \A u \in N \cup {t} : new[u] \in (N \cup {t} \cup {Null}) \ {Main}
  BY DEF Chained, Agree
<1>3. \A u, v \in N \cup {t} : new[u] = new[v] /\ new[u] # Null => u = v
  BY DEF Chained, Agree
<1>4. ASSUME NEW S \in SUBSET (N \cup {t}), Main \in S,
             \A u \in S : new[u] # Null => new[u] \in S
      PROVE  S = N \cup {t}
  <2>1. /\ S \cap N \in SUBSET N /\ Main \in S \cap N
        /\ \A u \in S \cap N : link[u] # Null => link[u] \in S \cap N
    BY <1>4 DEF Chained, Agree
  <2>2. S \cap N = N BY <2>1 DEF Chained
  <2>3. t \in S BY <1>4, <2>2 DEF Agree
  <2> QED BY <2>2, <2>3
<1> QED BY <1>1, <1>2, <1>3, <1>4 DEF Chained

\* __remove_thread: the node before leads to the node behind.
LEMMA RemoveChained ==
    ASSUME NEW N, NEW link, Chained(N, link), NEW t \in N, t # Main, t # Null,
           NEW previous \in N, link[previous] = t,
           NEW new, new[previous] = link[t], Null \notin N,
           Agree(N \ {previous}, link, new)
    PROVE  Chained(N \ {t}, new)
<1>1. previous # t
  <2> SUFFICES ASSUME previous = t PROVE FALSE
    OBVIOUS
  <2>1. /\ N \ {t} \in SUBSET N /\ Main \in N \ {t}
        /\ \A u \in N \ {t} : link[u] # Null => link[u] \in N \ {t}
    BY DEF Chained, Agree
  <2> QED BY <2>1 DEF Chained
<1>2. \A u \in N : u # previous => link[u] # t BY DEF Chained, Agree
<1>3. \A u \in N \ {t} : new[u] \in ((N \ {t}) \cup {Null}) \ {Main}
  BY <1>1, <1>2 DEF Chained, Agree
<1>4. \A u, v \in N \ {t} : new[u] = new[v] /\ new[u] # Null => u = v
  BY <1>1 DEF Chained, Agree
<1>5. ASSUME NEW S \in SUBSET (N \ {t}), Main \in S,
             \A u \in S : new[u] # Null => new[u] \in S
      PROVE  S = N \ {t}
  <2>1. CASE previous \in S
    <3>1. /\ S \cup {t} \in SUBSET N /\ Main \in S \cup {t}
          /\ \A u \in S \cup {t} : link[u] # Null => link[u] \in S \cup {t}
      BY <1>5, <2>1 DEF Chained, Agree
    <3>2. S \cup {t} = N BY <3>1 DEF Chained
    <3> QED BY <3>2, <1>5
  <2>2. CASE previous \notin S
    <3>1. /\ S \in SUBSET N
          /\ \A u \in S : link[u] # Null => link[u] \in S
      BY <1>5, <2>2 DEF Chained, Agree
    <3>2. S = N BY <3>1, <1>5 DEF Chained
    <3> QED BY <3>2, <2>2
  <2> QED BY <2>1, <2>2
<1> QED BY <1>3, <1>4, <1>5 DEF Chained

-----------------------------------------------------------------------------
LEMMA InitInv == Init => IInv
<1> SUFFICES ASSUME Init PROVE IInv
  OBVIOUS
<1>1. TypeOK BY ThreadAssumption DEF Init, TypeOK, Idle, Thread, WorkerPlace, MainPlace
<1>2. Nodes = {Main} BY DEF Init, Nodes, HasNode
<1>3. Chained({Main}, next) BY ThreadAssumption DEF Init, Chained, Thread
<1>4. Catalog BY <1>2, <1>3 DEF Init, Catalog
<1> QED BY <1>1, <1>4 DEF Init, IInv, Starting, Running, Joining, JoinedHasEnded, Idle, Unready

LEMMA TypeStep == ASSUME IInv, [Next]_vars PROVE TypeOK'
<1> USE ThreadAssumption DEF IInv, TypeOK, Thread, WorkerPlace, MainPlace, Idle, Goto, catalog
<1>1. CASE Registered \/ Attributes \/ JoinLock \/ JoinUnlock
  <2>1. CASE Registered BY <2>1 DEF Registered
  <2>2. CASE Attributes BY <2>2 DEF Attributes, SetDetached
  <2>3. CASE JoinLock BY <2>3 DEF JoinLock
  <2>4. CASE JoinUnlock BY <2>4 DEF JoinUnlock
  <2> QED BY <1>1, <2>1, <2>2, <2>3, <2>4
<1>2. ASSUME NEW w \in Worker, Create(w) \/ CreateFails(w) \/ Detach(w) \/ Join(w)
      PROVE  TypeOK'
  <2>1. CASE Create(w) BY <2>1 DEF Create
  <2>2. CASE CreateFails(w) BY <2>2 DEF CreateFails
  <2>3. CASE Detach(w) BY <2>3 DEF Detach, SetDetached
  <2>4. CASE Join(w) BY <2>4 DEF Join
  <2> QED BY <1>2, <2>1, <2>2, <2>3, <2>4
<1>3. ASSUME NEW w \in Worker, Register(w) PROVE TypeOK'
  BY <1>3 DEF Register, Append, Listed
<1>4. ASSUME NEW w \in Worker, Unlink(w) PROVE TypeOK'
  BY <1>4 DEF Unlink, Remove, Listed
<1>5. ASSUME NEW w \in Worker,
             \/ LockRunning(w) \/ PostRegistered(w) \/ FoundItself(w) \/ NotFound(w)
             \/ UnlockRunning(w) \/ CheckDetached(w) \/ ClearLink(w) \/ Free(w)
             \/ Exit(w) \/ WalkOn(w) \/ ReadHead(w) \/ StoreHead(w)
      PROVE  TypeOK'
  BY <1>5 DEF LockRunning, PostRegistered, FoundItself, NotFound, UnlockRunning, CheckDetached,
              ClearLink, Free, Exit, WalkOn, ReadHead, StoreHead
<1>6. CASE UNCHANGED vars BY <1>6 DEF vars
<1> QED BY <1>1, <1>2, <1>3, <1>4, <1>5, <1>6 DEF Next, MainReturns, WorkerStep

LEMMA MutexStep ==
    ASSUME IInv, [Next]_vars
    PROVE  Starting' /\ Running' /\ Joining' /\ JoinedHasEnded'
<1> DEFINE Mutex == Starting /\ Running /\ Joining /\ JoinedHasEnded
<1> USE ThreadAssumption DEF IInv, TypeOK, Thread, Idle, Goto, catalog,
        Starting, Running, Joining, JoinedHasEnded, Ended, Early, Unready
<1>1. CASE Registered BY <1>1 DEF Registered
<1>2. CASE Attributes BY <1>2 DEF Attributes
<1>3. CASE JoinLock
  <2>1. /\ call.who \in Worker /\ pc' = pc /\ joined' = joined /\ registered' = registered
        /\ call'.at = "joined" /\ call'.who = call.who
        /\ \A w \in Worker : owner'[w] = IF w = call.who THEN Main ELSE owner[w]
    BY <1>3 DEF JoinLock
  <2> QED BY <1>3, <2>1 DEF JoinLock, WorkerPlace
<1>4. CASE JoinUnlock BY <1>4 DEF JoinUnlock
<1>5. ASSUME NEW w \in Worker, Create(w) PROVE Mutex' BY <1>5 DEF Create
<1>6. ASSUME NEW w \in Worker, CreateFails(w) PROVE Mutex' BY <1>6 DEF CreateFails
<1>7. ASSUME NEW w \in Worker, Detach(w) PROVE Mutex' BY <1>7 DEF Detach
<1>8. ASSUME NEW w \in Worker, Join(w) PROVE Mutex'
  BY <1>8 DEF Join, Known
<1>9. ASSUME NEW w \in Worker, Register(w) PROVE Mutex' BY <1>9 DEF Register
<1>10. ASSUME NEW w \in Worker, LockRunning(w) PROVE Mutex' BY <1>10 DEF LockRunning
<1>11. ASSUME NEW w \in Worker, PostRegistered(w) PROVE Mutex' BY <1>11 DEF PostRegistered
<1>12. ASSUME NEW w \in Worker, Exit(w) \/ FoundItself(w) \/ NotFound(w) PROVE Mutex'
  BY <1>12 DEF Exit, FoundItself, NotFound
<1>13. ASSUME NEW w \in Worker, WalkOn(w) PROVE Mutex' BY <1>13 DEF WalkOn
<1>14. ASSUME NEW w \in Worker, UnlockRunning(w) PROVE Mutex' BY <1>14 DEF UnlockRunning
<1>15. ASSUME NEW w \in Worker, CheckDetached(w) PROVE Mutex' BY <1>15 DEF CheckDetached
<1>16. ASSUME NEW w \in Worker,
              Unlink(w) \/ ClearLink(w) \/ Free(w) \/ ReadHead(w) \/ StoreHead(w)
       PROVE  Mutex'
  BY <1>16 DEF Unlink, ClearLink, Free, ReadHead, StoreHead
<1>17. CASE UNCHANGED vars BY <1>17 DEF vars
<1> QED
  BY <1>1, <1>2, <1>3, <1>4, <1>5, <1>6, <1>7, <1>8, <1>9, <1>10, <1>11, <1>12, <1>13, <1>14,
     <1>15, <1>16, <1>17 DEF Next, MainReturns, WorkerStep

\* No step but Register and Unlink adds a node to the catalog or takes one from it, and
\* none changes the link of a node in it.
LEMMA CatalogStep == ASSUME IInv, [Next]_vars PROVE Catalog'
<1> USE ThreadAssumption DEF IInv, Thread, Goto, catalog
<1>0. /\ Nodes \subseteq Thread /\ Null \notin Nodes /\ head = Main /\ Chained(Nodes, next)
      /\ Listed = Nodes
  BY WalkMeets DEF Nodes, Catalog
<1>1. ASSUME UNCHANGED <<pc, catalog, freed, at>> PROVE Catalog'
  BY <1>1 DEF Catalog, Nodes, HasNode
<1>2. ASSUME NEW w \in Worker, Register(w) PROVE Catalog'
  <2>1. PICK last \in Nodes : /\ next[last] = Null
                              /\ next' = [next EXCEPT ![last] = w, ![w] = Null]
                              /\ head' = head
    BY <1>2, <1>0 DEF Register, Append
  <2>2. w \notin Nodes /\ Nodes' = Nodes \cup {w}
    BY <1>2 DEF Nodes, HasNode, Register, TypeOK, Catalog
  <2>3. /\ w # last /\ w # Null /\ w \in Thread /\ last \in Thread
        /\ next'[last] = w /\ next'[w] = Null
        /\ Agree(Nodes \ {last}, next, next')
    BY <1>0, <2>1, <2>2 DEF TypeOK, Agree
  <2>4. Chained(Nodes \cup {w}, next')
    BY <1>0, <2>1, <2>2, <2>3, AppendChained
  <2> QED BY <1>2, <1>0, <2>1, <2>2, <2>4 DEF Catalog, Register, TypeOK
<1>3. ASSUME NEW w \in Worker, Unlink(w) PROVE Catalog'
  <2>1. w \in Nodes /\ Nodes' = Nodes \ {w}
    BY <1>3 DEF Nodes, HasNode, Unlink, TypeOK, Catalog
  <2>2. PICK previous \in Nodes : /\ next[previous] = w
                                  /\ next' = [next EXCEPT ![previous] = next[w]]
                                  /\ head' = head
    BY <1>3, <1>0, <2>1 DEF Unlink, Remove
  <2>3. /\ w # Main /\ w # Null
        /\ next'[previous] = next[w]
        /\ Agree(Nodes \ {previous}, next, next')
    BY <1>0, <2>1, <2>2 DEF TypeOK, Agree
  <2>4. Chained(Nodes \ {w}, next')
    BY <1>0, <2>1, <2>2, <2>3, RemoveChained
  <2> QED BY <1>3, <1>0, <2>1, <2>2, <2>4 DEF Catalog, Unlink, TypeOK
<1>4. ASSUME NEW w \in Worker, ClearLink(w) PROVE Catalog'
  <2>1. w \notin Nodes /\ Nodes' = Nodes
    BY <1>4 DEF Nodes, HasNode, ClearLink, TypeOK, Catalog
  <2>2. Agree(Nodes, next, next') BY <1>4, <1>0, <2>1 DEF ClearLink, TypeOK, Agree
  <2>3. Chained(Nodes, next') BY <1>0, <2>2, OtherLinks
  <2> QED BY <1>4, <1>0, <2>1, <2>3 DEF Catalog, ClearLink, TypeOK
<1>5. ASSUME NEW w \in Worker,
             \/ Create(w) \/ CreateFails(w) \/ LockRunning(w) \/ PostRegistered(w)
             \/ Exit(w) \/ WalkOn(w) \/ FoundItself(w) \/ NotFound(w)
             \/ UnlockRunning(w) \/ CheckDetached(w) \/ Free(w) \/ ReadHead(w) \/ StoreHead(w)
      PROVE  Catalog'
  <2>1. next' = next
    BY <1>5 DEF Create, CreateFails, LockRunning, PostRegistered, Exit, WalkOn, FoundItself,
                NotFound, UnlockRunning, CheckDetached, Free, ReadHead, StoreHead
  <2>2. Nodes' = Nodes
    BY <1>5 DEF Nodes, HasNode, TypeOK, Catalog, Create, CreateFails, LockRunning,
                PostRegistered, Exit, WalkOn, FoundItself, NotFound, UnlockRunning,
                CheckDetached, Free, ReadHead, StoreHead
  <2>3. Chained(Nodes, next)' BY <1>0, <2>1, <2>2
  <2> QED BY <1>5, <2>3 DEF TypeOK, Catalog, Create, CreateFails, LockRunning,
                PostRegistered, Exit, WalkOn, FoundItself, NotFound, UnlockRunning,
                CheckDetached, Free, ReadHead, StoreHead
<1>6. CASE \/ UNCHANGED vars \/ MainReturns
           \/ \E w \in Worker : Detach(w) \/ Join(w)
  BY <1>6, <1>1 DEF vars, MainReturns, Registered, Attributes, JoinLock, JoinUnlock, Detach, Join
<1> QED BY <1>2, <1>3, <1>4, <1>5, <1>6 DEF Next, WorkerStep

LEMMA StepInv == ASSUME IInv, [Next]_vars PROVE IInv'
BY TypeStep, MutexStep, CatalogStep DEF IInv

\* What the proofs rest on is an invariant of the program.
THEOREM Invariant == Spec => []IInv
<1> QED BY InitInv, StepInv, PTL DEF Spec

\* The variables keep their types, the calls of Main theirs.
THEOREM TypesOK == Spec => []TypeOK
<1>1. IInv => TypeOK BY DEF IInv
<1> QED BY <1>1, Invariant, PTL

\* However many threads there are and whatever becomes of the catalog, pthread_join
\* does not return before the thread it names has left its routine.
THEOREM JoinedHasEndedAlways == Spec => []JoinedHasEnded
<1>1. IInv => JoinedHasEnded BY DEF IInv
<1> QED BY <1>1, Invariant, PTL

\* However many threads come and go, each at its own time, a walk through the catalog
\* (__get_thread, __register_thread, __remove_thread) meets those that have registered
\* and not removed themselves, and no node that has been freed.
THEOREM CatalogExactAlways == Spec => []CatalogExact
<1>1. IInv => CatalogExact
  BY WalkMeets, ThreadAssumption DEF IInv, Catalog, CatalogExact, Nodes, Thread
<1> QED BY <1>1, Invariant, PTL
==============================================================================
