------------------------------ MODULE PtThreads ------------------------------
(***************************************************************************)
(* Threads of the POSIX interface of the C library on Linux                *)
(* (bld/clib/posix/c): pthread_create, pthread_exit, pthread_detach and    *)
(* pthread_join, and the catalog of threads they share.                    *)
(*                                                                         *)
(* The catalog is a list with a node for each thread.  Most of its users   *)
(* hold a semaphore; what one of them does while it holds it is a single   *)
(* step here.  The two that do not, the walk by which a thread finds       *)
(* itself and the store of the head after a removal, are taken apart.  A   *)
(* node bears the name of its thread: thread ids are not reused.           *)
(***************************************************************************)
EXTENDS Naturals, FiniteSets

CONSTANTS
    Worker,       \* threads made with pthread_create
    Main,         \* the thread that makes, detaches and joins them
    Null,         \* NULL
    MayDetach     \* the workers that the program may detach

Thread == Worker \cup {Main}

ASSUME ThreadAssumption ==
    /\ Main \notin Worker /\ Null \notin Thread
    /\ IsFiniteSet(Worker) /\ MayDetach \subseteq Worker

VARIABLES
    pc,           \* where each worker is
    call,         \* what Main is doing: [at, who, attr]
    head,         \* __ptcatalog
    next,         \* the link of each node
    detached,     \* the nodes with detached set
    freed,        \* the nodes that have been given back to the heap
    owner,        \* owner of the running_mutex of each node
    registered,   \* the workers whose semaphore of that name has been posted
    at,           \* the node a worker looks at, or the head it has read
    joined        \* history: the workers Main has joined

catalog == <<head, next>>
vars == <<pc, call, catalog, detached, freed, owner, registered, at, joined>>

WorkerPlace == {"none", "failed", "begun", "listed", "locked", "running", "walk", "found",
                "unlocked", "remove", "unlinked", "cleared", "freed", "store", "gone"}
MainPlace == {"idle", "creating", "attributes", "lock", "joined"}

Idle == [at |-> "idle", who |-> Null, attr |-> FALSE]

TypeOK ==
    /\ pc \in [Worker -> WorkerPlace]
    /\ call \in [at : MainPlace, who : Worker \cup {Null}, attr : BOOLEAN]
    /\ call.at # "idle" => call.who \in Worker
    /\ head \in Thread \cup {Null}
    /\ next \in [Thread -> Thread \cup {Null}]
    /\ detached \subseteq Thread /\ freed \subseteq Worker
    /\ owner \in [Worker -> Thread \cup {Null}]
    /\ registered \subseteq Worker /\ joined \subseteq Worker
    /\ at \in [Worker -> Thread \cup {Null}]

-----------------------------------------------------------------------------
(* The catalog *)

\* The nodes that a walk from the head meets: those in every set that has the head and
\* goes along the links.
Listed ==
    {t \in Thread :
        \A S \in SUBSET Thread :
            /\ head # Null => head \in S
            /\ \A u \in S : next[u] # Null => next[u] \in S
            => t \in S}

\* __register_thread: the new node becomes the last.
Append(t) ==
    /\ IF head = Null
       THEN head' = t /\ next' = [next EXCEPT ![t] = Null]
       ELSE \E last \in Listed :
               /\ next[last] = Null
               /\ next' = [next EXCEPT ![last] = t, ![t] = Null]
               /\ head' = head

\* mutant: the link cleared before it is copied
CutOff(t) ==
    IF head = t THEN head' = next[t] /\ next' = next
    ELSE head' = head /\ next' = [u \in Thread |-> IF next[u] = t THEN Null ELSE next[u]]

\* __remove_thread, up to where it releases the catalog.
Remove(t) ==
    IF head = t
    THEN head' = next[t] /\ next' = next
    ELSE /\ head' = head
         /\ IF t \in Listed
            THEN \E previous \in Listed :
                    /\ next[previous] = t
                    /\ next' = [next EXCEPT ![previous] = next[t]]
            ELSE next' = next

-----------------------------------------------------------------------------
(* A program: Main and the calls it makes *)

Goto(w, place) == pc' = [pc EXCEPT ![w] = place]

\* pthread_create up to the wait for the registration; the new thread begins.
Create(w) ==
    /\ call.at = "idle" /\ pc[w] = "none"
    /\ \E attr \in BOOLEAN :
          /\ attr => w \in MayDetach
          /\ call' = [at |-> "creating", who |-> w, attr |-> attr]
    /\ Goto(w, "begun")
    /\ UNCHANGED <<catalog, detached, freed, owner, registered, at, joined>>

\* _beginthread returns -1: pthread_create waits for the registration all the same.
CreateFails(w) ==
    /\ call.at = "idle" /\ pc[w] = "none"
    /\ call' = [at |-> "creating", who |-> w, attr |-> FALSE]
    /\ Goto(w, "failed")
    /\ UNCHANGED <<catalog, detached, freed, owner, registered, at, joined>>

\* mutant: the thread id dropped before the attributes are looked at
Forgets ==
    /\ call.at = "creating" /\ call.who \in registered
    /\ call' = IF call.attr THEN [Idle EXCEPT !.at = "attributes"] ELSE Idle
    /\ registered' = registered \ {call.who}
    /\ UNCHANGED <<pc, catalog, detached, freed, owner, at, joined>>

\* The rest of pthread_create.
Registered ==
    /\ call.at = "creating" /\ call.who \in registered
    /\ call' = IF call.attr THEN [call EXCEPT !.at = "attributes"] ELSE Idle
    /\ registered' = registered \ {call.who}
    /\ UNCHANGED <<pc, catalog, detached, freed, owner, at, joined>>

SetDetached(w) == detached' = IF w \in Listed THEN detached \cup {w} ELSE detached

Attributes ==
    /\ call.at = "attributes"
    /\ SetDetached(call.who)
    /\ call' = Idle
    /\ UNCHANGED <<pc, catalog, freed, owner, registered, at, joined>>

\* The threads that Main may name in a call: a detached or joined one is gone.
Known(w) == pc[w] \notin {"none", "failed"} /\ w \notin detached \cup joined

\* pthread_detach
Detach(w) ==
    /\ call.at = "idle" /\ Known(w) /\ w \in MayDetach
    /\ SetDetached(w)
    /\ UNCHANGED <<pc, call, catalog, freed, owner, registered, at, joined>>

\* pthread_join: the node, which is in the catalog as nobody has detached it, has
\* the mutex to wait for; the count of those who wait is used by nobody.
Join(w) ==
    /\ call.at = "idle" /\ Known(w) /\ w \in Listed
    /\ call' = [at |-> "lock", who |-> w, attr |-> FALSE]
    /\ UNCHANGED <<pc, catalog, detached, freed, owner, registered, at, joined>>

JoinLock ==
    /\ call.at = "lock" /\ owner[call.who] = Null
    /\ owner' = [owner EXCEPT ![call.who] = Main]
    /\ call' = [call EXCEPT !.at = "joined"]
    /\ UNCHANGED <<pc, catalog, detached, freed, registered, at, joined>>

JoinUnlock ==
    /\ call.at = "joined"
    /\ owner' = [owner EXCEPT ![call.who] = Null]
    /\ joined' = joined \cup {call.who}
    /\ call' = Idle
    /\ UNCHANGED <<pc, catalog, detached, freed, registered, at>>

-----------------------------------------------------------------------------
(* The new thread: __thread_start, its routine, and pthread_exit *)

\* mutant: the registration posted before the mutex is locked
PostEarly(w) ==
    /\ pc[w] = "begun"
    /\ Append(w)
    /\ Goto(w, "listed")
    /\ registered' = registered \cup {w}
    /\ UNCHANGED <<call, detached, freed, owner, at, joined>>

Register(w) ==
    /\ pc[w] = "begun"
    /\ Append(w)
    /\ Goto(w, "listed")
    /\ UNCHANGED <<call, detached, freed, owner, registered, at, joined>>

LockRunning(w) ==
    /\ pc[w] = "listed" /\ owner[w] = Null
    /\ owner' = [owner EXCEPT ![w] = w]
    /\ Goto(w, "locked")
    /\ UNCHANGED <<call, catalog, detached, freed, registered, at, joined>>

NoPost(w) ==                         \* mutant: the creator is not told
    /\ pc[w] = "locked"
    /\ Goto(w, "running")
    /\ UNCHANGED <<call, catalog, detached, freed, owner, registered, at, joined>>

PostRegistered(w) ==
    /\ pc[w] = "locked"
    /\ registered' = registered \cup {w}
    /\ Goto(w, "running")
    /\ UNCHANGED <<call, catalog, detached, freed, owner, at, joined>>

\* The routine has returned; pthread_exit looks for its thread, __get_thread, and
\* holds no lock as it walks.
Exit(w) ==
    /\ pc[w] = "running"
    /\ at' = [at EXCEPT ![w] = head]
    /\ Goto(w, "walk")
    /\ UNCHANGED <<call, catalog, detached, freed, owner, registered, joined>>

\* The link of a node that has been freed may be anything that the heap or a new
\* node has left there.
WalkOn(w) ==
    /\ pc[w] = "walk" /\ at[w] \notin {w, Null}
    /\ \E n \in IF at[w] \in freed THEN Thread \cup {Null} ELSE {next[at[w]]} :
          at' = [at EXCEPT ![w] = n]
    /\ UNCHANGED <<pc, call, catalog, detached, freed, owner, registered, joined>>

FoundItself(w) ==
    /\ pc[w] = "walk" /\ at[w] = w
    /\ Goto(w, "found")
    /\ UNCHANGED <<call, catalog, detached, freed, owner, registered, at, joined>>

\* myself == NULL: the thread ends as it is.
NotFound(w) ==
    /\ pc[w] = "walk" /\ at[w] = Null
    /\ Goto(w, "gone")
    /\ UNCHANGED <<call, catalog, detached, freed, owner, registered, at, joined>>

KeepsRunning(w) ==                   \* mutant: the joiners are not released
    /\ pc[w] = "found"
    /\ Goto(w, "unlocked")
    /\ UNCHANGED <<call, catalog, detached, freed, owner, registered, at, joined>>

UnlockRunning(w) ==
    /\ pc[w] = "found"
    /\ owner' = [owner EXCEPT ![w] = Null]
    /\ Goto(w, "unlocked")
    /\ UNCHANGED <<call, catalog, detached, freed, registered, at, joined>>

CheckDetached(w) ==
    /\ pc[w] = "unlocked"
    /\ Goto(w, IF w \in detached THEN "remove" ELSE "gone")
    /\ UNCHANGED <<call, catalog, detached, freed, owner, registered, at, joined>>

\* __unregister_thread: the node is unlinked, cleared and freed; then the head is
\* read, without the lock, and stored.
Unlink(w) ==
    /\ pc[w] = "remove"
    /\ Remove(w)
    /\ Goto(w, "unlinked")
    /\ UNCHANGED <<call, detached, freed, owner, registered, at, joined>>

ClearLink(w) ==
    /\ pc[w] = "unlinked"
    /\ next' = [next EXCEPT ![w] = Null]
    /\ Goto(w, "cleared")
    /\ UNCHANGED <<call, head, detached, freed, owner, registered, at, joined>>

Free(w) ==
    /\ pc[w] = "cleared"
    /\ freed' = freed \cup {w}
    /\ Goto(w, "freed")
    /\ UNCHANGED <<call, catalog, detached, owner, registered, at, joined>>

ReadHead(w) ==
    /\ pc[w] = "freed"
    /\ at' = [at EXCEPT ![w] = head]
    /\ Goto(w, "store")
    /\ UNCHANGED <<call, catalog, detached, freed, owner, registered, joined>>

StoreHead(w) ==
    /\ pc[w] = "store"
    /\ head' = at[w]
    /\ Goto(w, "gone")
    /\ UNCHANGED <<call, next, detached, freed, owner, registered, at, joined>>

-----------------------------------------------------------------------------
\* __init_pthread_catalog has registered the main thread.
Init ==
    /\ pc = [w \in Worker |-> "none"]
    /\ call = Idle
    /\ head = Main /\ next = [t \in Thread |-> Null]
    /\ detached = {} /\ freed = {}
    /\ owner = [w \in Worker |-> Null]
    /\ registered = {} /\ joined = {}
    /\ at = [w \in Worker |-> Null]

WorkerStep(w) ==
    \/ Register(w) \/ LockRunning(w) \/ PostRegistered(w)
    \/ Exit(w) \/ WalkOn(w) \/ FoundItself(w) \/ NotFound(w)
    \/ UnlockRunning(w) \/ CheckDetached(w)
    \/ Unlink(w) \/ ClearLink(w) \/ Free(w) \/ ReadHead(w) \/ StoreHead(w)

MainReturns == Registered \/ Attributes \/ JoinLock \/ JoinUnlock

Next ==
    \/ MainReturns
    \/ \E w \in Worker :
          \/ Create(w) \/ CreateFails(w) \/ Detach(w) \/ Join(w)
          \/ WorkerStep(w)

\* The kernel runs every thread; when the program makes a call is its own affair.
Fairness == WF_vars(MainReturns) /\ \A w \in Worker : WF_vars(WorkerStep(w))

Spec == Init /\ [][Next]_vars /\ Fairness

-----------------------------------------------------------------------------
Ended(w) == pc[w] \in {"unlocked", "remove", "unlinked", "cleared", "freed", "store", "gone"}

\* A thread that pthread_join has returned for has left its routine: the mutex a
\* joiner waits for is locked by the thread itself, before pthread_create lets
\* anybody know of the thread.
JoinedHasEnded == \A w \in joined : Ended(w)

\* A thread has registered and has not taken itself off the catalog.
HasNode(w) ==
    \/ pc[w] \in {"listed", "locked", "running", "walk", "found", "unlocked", "remove"}
    \/ pc[w] = "gone" /\ w \notin freed

\* Whatever the order in which threads come and go, the catalog holds a node for
\* every thread that has registered and has not removed itself, and no other: no
\* removal loses the nodes behind it, the store of the head brings none back, and
\* no node in the catalog has been freed.
CatalogExact == Listed = {Main} \cup {w \in Worker : HasNode(w)}

\* pthread_create returns once the thread has been made.
CreateReturns ==
    \A w \in Worker :
        (call.at = "creating" /\ call.who = w /\ pc[w] # "failed") ~> (call.at = "idle")

\* pthread_join returns, as a thread unlocks its mutex when it exits: in a program
\* that detaches no thread, so that no node leaves the catalog.
JoinReturnsUndetached ==
    \A w \in Worker :
        []<>(detached = {} => ~(call.at = "lock" /\ call.who = w))

\* pthread_join returns in any program, "Unlock to release any joins" (ptexit.c:58).
JoinReturns ==
    \A w \in Worker : (call.at = "lock" /\ call.who = w) ~> (w \in joined)
==============================================================================
