------------------------------- MODULE PtSync --------------------------------
(***************************************************************************)
(* The synchronisation objects of the POSIX interface of the C library     *)
(* (bld/clib/posix/c): mutexes, condition variables, read-write locks,     *)
(* barriers and pthread_once, each built on the one before it.             *)
(*                                                                         *)
(* A thread is the stack of what it has left to do: calls, the places in   *)
(* them where it stops between two steps, and what a program does between  *)
(* its calls.  A call is [at, on]: the place and the object.  Under all of *)
(* them are counting semaphores (sem_wait, sem_post), one step each.       *)
(***************************************************************************)
EXTENDS Integers, Sequences, FiniteSets

CONSTANTS
    Thread,
    Ready,        \* MUTEX_STATUS_READY
    Limit,        \* the count of the barrier
    Programs      \* what the threads do: a set of [Thread -> Seq(calls)]

\* A mutex and a condition variable of the program, the block_mutex of its read-write
\* lock, the mutex and the condition variable of its barrier, and that of its once.
Mutex == {"mutex", "block_mutex", "access", "once"}
Cond == {"cond", "barrier"}
MutexOf(c) == IF c = "cond" THEN "mutex" ELSE "access"

VARIABLES
    stack,        \* what each thread has left to do
    res,          \* the result of its last pthread_mutex_lock or _trylock
    snap,         \* the waiters it has seen
    sem, owner,   \* of each mutex
    clear_block, wait_block, waiters,       \* of each condition variable
    read_waiters, \* of the read-write lock
    count,        \* of the barrier
    executed,     \* of the once control
    items,        \* what the mutex and the condition variable of the program protect
    arrived, left,                \* history: each thread's calls of pthread_barrier_wait
    serial,       \* history: how often one returned PTHREAD_BARRIER_SERIAL_THREAD
    ran           \* history: how often the routine of pthread_once has begun

mutexes == <<sem, owner>>
conds == <<clear_block, wait_block, waiters>>
others == <<read_waiters, count, executed>>
history == <<arrived, left, serial, ran>>
vars == <<stack, res, snap, mutexes, conds, others, items, history>>

Call(place, object) == [at |-> place, on |-> object]
Do(place) == Call(place, "mutex")

ASSUME SyncAssumption ==
    /\ Ready \notin Thread /\ Limit \in Nat \ {0}
    /\ \A p \in Programs : DOMAIN p = Thread

Init ==
    /\ stack \in Programs
    /\ res = [t \in Thread |-> "ok"] /\ snap = [t \in Thread |-> 0]
    /\ sem = [m \in Mutex |-> 1] /\ owner = [m \in Mutex |-> Ready]
    /\ clear_block = [c \in Cond |-> 1]
    /\ wait_block = [c \in Cond |-> 0] /\ waiters = [c \in Cond |-> 0]
    /\ read_waiters = 0 /\ count = 0 /\ executed = FALSE /\ items = 0
    /\ arrived = [t \in Thread |-> 0] /\ left = [t \in Thread |-> 0]
    /\ serial = 0 /\ ran = 0

TypeOK ==
    /\ DOMAIN stack = Thread
    /\ res \in [Thread -> {"ok", "busy", "deadlock", "perm"}]
    /\ snap \in [Thread -> Nat]
    /\ sem \in [Mutex -> {0, 1}] /\ owner \in [Mutex -> Thread \cup {Ready}]
    /\ clear_block \in [Cond -> {0, 1}] /\ wait_block \in [Cond -> Nat]
    /\ waiters \in [Cond -> 0..Cardinality(Thread)]
    /\ read_waiters \in Nat /\ count \in 0..Limit
    /\ executed \in BOOLEAN /\ items \in Nat

\* The thread t is at the place; it goes on with other calls in its stead.
At(t, place) == stack[t] # <<>> /\ Head(stack[t]).at = place
On(t) == Head(stack[t]).on
Then(t, calls) == stack' = [stack EXCEPT ![t] = calls \o Tail(@)]
Next1(t, place) == Then(t, <<Call(place, On(t))>>)
Returns(t) == Then(t, <<>>)
Result(t, r) == res' = [res EXCEPT ![t] = r]

-----------------------------------------------------------------------------
(* Mutexes: of the default type, PTHREAD_MUTEX_ERRORCHECK *)

Lock(t) ==
    /\ At(t, "lock")
    /\ IF owner[On(t)] = t
       THEN Returns(t) /\ Result(t, "deadlock")
       ELSE Next1(t, "take") /\ res' = res
    /\ UNCHANGED <<snap, mutexes, conds, others, items, history>>

TriesOwner(t) ==                     \* mutant: no sem_wait
    /\ At(t, "trylock")
    /\ IF owner[On(t)] = Ready
       THEN owner' = [owner EXCEPT ![On(t)] = t] /\ Result(t, "ok")
       ELSE owner' = owner /\ Result(t, "busy")
    /\ Returns(t)
    /\ UNCHANGED <<snap, sem, conds, others, items, history>>

TryLock(t) ==
    /\ At(t, "trylock")
    /\ IF owner[On(t)] = Ready
       THEN Next1(t, "take") /\ res' = res
       ELSE Returns(t) /\ Result(t, "busy")
    /\ UNCHANGED <<snap, mutexes, conds, others, items, history>>

Take(t) ==
    /\ At(t, "take") /\ sem[On(t)] > 0
    /\ sem' = [sem EXCEPT ![On(t)] = @ - 1]
    /\ Next1(t, "own")
    /\ UNCHANGED <<res, snap, owner, conds, others, items, history>>

\* The semaphore stays taken when the owner is not MUTEX_STATUS_READY: which cannot be,
\* so that it does not matter that pthread_mutex_trylock would not tell.
Own(t) ==
    /\ At(t, "own")
    /\ owner' = [owner EXCEPT ![On(t)] = IF @ = Ready THEN t ELSE @]
    /\ Result(t, IF owner[On(t)] = Ready THEN "ok" ELSE "perm")
    /\ Returns(t)
    /\ UNCHANGED <<snap, sem, conds, others, items, history>>

Unlock(t) ==
    /\ At(t, "unlock")
    /\ IF owner[On(t)] = t
       THEN owner' = [owner EXCEPT ![On(t)] = Ready] /\ Next1(t, "post")
       ELSE owner' = owner /\ Returns(t)
    /\ UNCHANGED <<res, snap, sem, conds, others, items, history>>

Post(t) ==
    /\ At(t, "post")
    /\ sem' = [sem EXCEPT ![On(t)] = @ + 1]
    /\ Returns(t)
    /\ UNCHANGED <<res, snap, owner, conds, others, items, history>>

-----------------------------------------------------------------------------
(* Condition variables *)

\* mutant: the mutex is unlocked before the waiter is counted
UnlocksFirst(t) ==
    /\ \/ /\ At(t, "wait")
          /\ Then(t, <<Call("unlock", MutexOf(On(t))), Call("enter", On(t))>>)
          /\ waiters' = waiters
       \/ /\ At(t, "enter") /\ clear_block[On(t)] > 0
          /\ Then(t, <<Call("block", On(t)), Call("leave", On(t)), Call("lock", MutexOf(On(t)))>>)
          /\ waiters' = [waiters EXCEPT ![On(t)] = @ + 1]
    /\ UNCHANGED <<res, snap, mutexes, clear_block, wait_block, others, items, history>>

\* pthread_cond_wait and pthread_cond_timedwait up to the unlocking of the mutex; the
\* count is made with clear_block taken.
Wait(t) ==
    /\ \/ /\ At(t, "wait")
          /\ Then(t, <<Call("unlock", MutexOf(On(t))), Call("block", On(t)),
                       Call("leave", On(t)), Call("lock", MutexOf(On(t)))>>)
       \/ /\ At(t, "timedwait")
          /\ Then(t, <<Call("unlock", MutexOf(On(t))), Call("timedblock", On(t)),
                       Call("leave", On(t)), Call("pass", On(t)),
                       Call("lock", MutexOf(On(t)))>>)
    /\ clear_block[On(t)] > 0
    /\ waiters' = [waiters EXCEPT ![On(t)] = @ + 1]
    /\ UNCHANGED <<res, snap, mutexes, clear_block, wait_block, others, items, history>>

Block(t) ==
    /\ At(t, "block") \/ At(t, "timedblock")
    /\ wait_block[On(t)] > 0
    /\ wait_block' = [wait_block EXCEPT ![On(t)] = @ - 1]
    /\ Returns(t)
    /\ UNCHANGED <<res, snap, mutexes, clear_block, waiters, others, items, history>>

Timeout(t) ==
    /\ At(t, "timedblock")
    /\ Returns(t)
    /\ UNCHANGED <<res, snap, mutexes, conds, others, items, history>>

Leave(t) ==
    /\ At(t, "leave")
    /\ waiters' = [waiters EXCEPT ![On(t)] = @ - 1]
    /\ Returns(t)
    /\ UNCHANGED <<res, snap, mutexes, clear_block, wait_block, others, items, history>>

\* A pthread_cond_timedwait takes clear_block and posts it again before it returns.
Pass(t) ==
    /\ At(t, "pass") /\ clear_block[On(t)] > 0
    /\ Returns(t)
    /\ UNCHANGED <<res, snap, mutexes, conds, others, items, history>>

\* pthread_cond_signal and pthread_cond_broadcast
Notify(t) ==
    /\ \/ At(t, "signal") /\ Then(t, <<Call("if", On(t)), Call("let", On(t))>>)
       \/ At(t, "broadcast") /\ Then(t, <<Call("while", On(t)), Call("let", On(t))>>)
    /\ clear_block[On(t)] > 0
    /\ clear_block' = [clear_block EXCEPT ![On(t)] = @ - 1]
    /\ UNCHANGED <<res, snap, mutexes, wait_block, waiters, others, items, history>>

LookForWaiters(t) ==
    /\ At(t, "if") \/ At(t, "while")
    /\ IF waiters[On(t)] = 0
       THEN Returns(t)
       ELSE Then(t, <<Call("snap", On(t)), Call("token", On(t)), Call("spin", On(t))>>
                    \o IF At(t, "while") THEN <<Call("while", On(t))>> ELSE <<>>)
    /\ UNCHANGED <<res, snap, mutexes, conds, others, items, history>>

Snapshot(t) ==
    /\ At(t, "snap")
    /\ snap' = [snap EXCEPT ![t] = waiters[On(t)]]
    /\ Returns(t)
    /\ UNCHANGED <<res, mutexes, conds, others, items, history>>

Token(t) ==
    /\ At(t, "token")
    /\ wait_block' = [wait_block EXCEPT ![On(t)] = @ + 1]
    /\ Returns(t)
    /\ UNCHANGED <<res, snap, mutexes, clear_block, waiters, others, items, history>>

NoSpin(t) ==                         \* mutant: no wait for the waiter to leave
    /\ At(t, "spin")
    /\ Returns(t)
    /\ UNCHANGED <<res, snap, mutexes, conds, others, items, history>>

Spin(t) ==
    /\ At(t, "spin")
    /\ waiters[On(t)] # snap[t] \/ snap[t] = 0
    /\ Returns(t)
    /\ UNCHANGED <<res, snap, mutexes, conds, others, items, history>>

LetIn(t) ==
    /\ At(t, "let")
    /\ clear_block' = [clear_block EXCEPT ![On(t)] = @ + 1]
    /\ Returns(t)
    /\ UNCHANGED <<res, snap, mutexes, wait_block, waiters, others, items, history>>

-----------------------------------------------------------------------------
(* Read-write locks *)

Block_mutex(place) == Call(place, "block_mutex")
CountReader == <<Do("count"), Block_mutex("unlock")>>

\* pthread_rwlock_rdlock, _tryrdlock, _wrlock and _trywrlock
RwLock(t) ==
    /\ \/ At(t, "rdlock") /\ Then(t, <<Block_mutex("lock"), Do("reader")>>)
       \/ At(t, "tryrdlock") /\ Then(t, <<Block_mutex("trylock"), Do("reader")>>)
       \/ At(t, "wrlock") /\ Then(t, <<Block_mutex("lock"), Do("writer")>>)
       \/ At(t, "trywrlock") /\ Then(t, <<Block_mutex("trylock"), Do("trywriter")>>)
    /\ UNCHANGED <<res, snap, mutexes, conds, others, items, history>>

\* What follows, by the result of the mutex.  A pthread_rwlock_wrlock that finds
\* readers sleeps and tries again if it had the mutex.
RwLocked(t) ==
    /\ \/ /\ At(t, "reader")
          /\ Then(t, IF res[t] = "ok" THEN CountReader ELSE <<>>)
          /\ res' = res
       \/ /\ At(t, "writer")
          /\ IF read_waiters = 0
             THEN Returns(t) /\ Result(t, "ok")
             ELSE /\ Then(t, <<Block_mutex("unlock")>> \o
                             IF res[t] = "ok" THEN <<Do("wrlock")>> ELSE <<>>)
                  /\ Result(t, "ok")
       \/ /\ At(t, "trywriter")
          /\ IF read_waiters = 0 \/ res[t] # "ok"
             THEN Returns(t) /\ res' = res
             ELSE Then(t, <<Block_mutex("unlock")>>) /\ Result(t, "busy")
    /\ UNCHANGED <<snap, mutexes, conds, others, items, history>>

CountIn(t) ==
    /\ At(t, "count")
    /\ read_waiters' = read_waiters + 1
    /\ Returns(t)
    /\ UNCHANGED <<res, snap, mutexes, conds, count, executed, items, history>>

\* mutant: __pthread_mutex_mylock is not asked
AllReaders(t) ==
    /\ At(t, "rwunlock")
    /\ Then(t, <<Block_mutex("lock"), Do("discount"), Block_mutex("unlock")>>)
    /\ UNCHANGED <<res, snap, mutexes, conds, others, items, history>>

\* pthread_rwlock_unlock; __pthread_mutex_mylock tells a writer.
RwUnlock(t) ==
    /\ At(t, "rwunlock")
    /\ Then(t, IF owner["block_mutex"] = t
               THEN <<Block_mutex("unlock")>>
               ELSE <<Block_mutex("lock"), Do("discount"), Block_mutex("unlock")>>)
    /\ UNCHANGED <<res, snap, mutexes, conds, others, items, history>>

CountOut(t) ==
    /\ At(t, "discount")
    /\ read_waiters' = IF read_waiters > 0 THEN read_waiters - 1 ELSE 0
    /\ Returns(t)
    /\ UNCHANGED <<res, snap, mutexes, conds, count, executed, items, history>>

-----------------------------------------------------------------------------
(* Barriers and pthread_once *)

BarrierWait(t) ==
    /\ At(t, "barrier")
    /\ arrived' = [arrived EXCEPT ![t] = @ + 1]
    /\ Then(t, <<Call("lock", "access"), Do("arrive"), Call("unlock", "access"), Do("left")>>)
    /\ UNCHANGED <<res, snap, mutexes, conds, others, items, left, serial, ran>>

OneShort(t) ==                       \* mutant: off by one
    /\ At(t, "arrive")
    /\ count' = count + 1
    /\ Then(t, IF count + 1 >= Limit - 1
               THEN <<Call("broadcast", "barrier"), Do("reset")>>
               ELSE <<Call("wait", "barrier")>>)
    /\ UNCHANGED <<res, snap, mutexes, conds, read_waiters, executed, items, history>>

Arrive(t) ==
    /\ At(t, "arrive")
    /\ count' = count + 1
    /\ Then(t, IF count + 1 >= Limit
               THEN <<Call("broadcast", "barrier"), Do("reset")>>
               ELSE <<Call("wait", "barrier")>>)
    /\ UNCHANGED <<res, snap, mutexes, conds, read_waiters, executed, items, history>>

Reset(t) ==
    /\ At(t, "reset")
    /\ count' = 0
    /\ serial' = serial + 1
    /\ Returns(t)
    /\ UNCHANGED <<res, snap, mutexes, conds, read_waiters, executed, items, arrived, left, ran>>

BarrierReturns(t) ==
    /\ At(t, "left")
    /\ left' = [left EXCEPT ![t] = @ + 1]
    /\ Returns(t)
    /\ UNCHANGED <<res, snap, mutexes, conds, others, items, arrived, serial, ran>>

Once(t) ==
    /\ \/ At(t, "once") /\ Then(t, <<Call("lock", "once"), Do("check"), Call("unlock", "once")>>)
       \/ At(t, "check") /\ Then(t, IF executed THEN <<>> ELSE <<Do("routine"), Do("executed")>>)
    /\ UNCHANGED <<res, snap, mutexes, conds, others, items, history>>

Routine(t) ==
    /\ At(t, "routine")
    /\ ran' = ran + 1
    /\ Returns(t)
    /\ UNCHANGED <<res, snap, mutexes, conds, others, items, arrived, left, serial>>

Executed(t) ==
    /\ At(t, "executed")
    /\ executed' = TRUE
    /\ Returns(t)
    /\ UNCHANGED <<res, snap, mutexes, conds, read_waiters, count, items, history>>

-----------------------------------------------------------------------------
(* What a program does between its calls *)

\* While it has the mutex: adds an item, or takes one, for which it may have to wait;
\* with a time limit it waits once.
Use(t) ==
    /\ \/ At(t, "add") /\ items' = items + 1 /\ Returns(t)
       \/ At(t, "get") /\ items > 0 /\ items' = items - 1 /\ Returns(t)
       \/ At(t, "get") /\ items = 0 /\ Then(t, <<Call("wait", "cond"), Do("get")>>) /\ items' = items
       \/ At(t, "poll") /\ items > 0 /\ items' = items - 1 /\ Returns(t)
       \/ At(t, "poll") /\ items = 0 /\ Then(t, <<Call("timedwait", "cond"), Do("try")>>)
                        /\ items' = items
       \/ At(t, "try") /\ items' = (IF items > 0 THEN items - 1 ELSE 0) /\ Returns(t)
    /\ UNCHANGED <<res, snap, mutexes, conds, others, history>>

\* Inside what a lock protects; and past the two calls that depend on a lock that it
\* has tried to take.
Inside(t) ==
    /\ \E place \in {"inside", "reading", "writing", "initialised"} : At(t, place)
    /\ Returns(t)
    /\ UNCHANGED <<res, snap, mutexes, conds, others, items, history>>

IfLocked(t) ==
    /\ At(t, "iflocked")
    /\ stack' = [stack EXCEPT ![t] = IF res[t] = "ok" THEN Tail(@) ELSE SubSeq(@, 4, Len(@))]
    /\ UNCHANGED <<res, snap, mutexes, conds, others, items, history>>

-----------------------------------------------------------------------------
Step(t) ==
    \/ Lock(t) \/ TryLock(t) \/ Take(t) \/ Own(t) \/ Unlock(t) \/ Post(t)
    \/ Wait(t) \/ Block(t) \/ Timeout(t) \/ Leave(t) \/ Pass(t)
    \/ Notify(t) \/ LookForWaiters(t) \/ Snapshot(t) \/ Token(t) \/ Spin(t) \/ LetIn(t)
    \/ RwLock(t) \/ RwLocked(t) \/ CountIn(t) \/ RwUnlock(t) \/ CountOut(t)
    \/ BarrierWait(t) \/ Arrive(t) \/ Reset(t) \/ BarrierReturns(t)
    \/ Once(t) \/ Routine(t) \/ Executed(t)
    \/ Use(t) \/ Inside(t) \/ IfLocked(t)

Next == \E t \in Thread : Step(t)

\* The kernel runs every thread; and a thread that would have a semaphore gets it some
\* day, as a writer that keeps trying sleeps in between.
Fairness == \A t \in Thread : WF_vars(Step(t)) /\ SF_vars(Take(t))

Spec == Init /\ [][Next]_vars /\ Fairness

-----------------------------------------------------------------------------
Are(place) == {t \in Thread : At(t, place)}

\* One thread is inside the mutex, a writer is alone, and pthread_once returns to any
\* thread when its routine has been run, once.
Exclusion ==
    /\ Cardinality(Are("inside") \cup Are("add") \cup Are("get") \cup Are("poll") \cup Are("try")) <= 1
    /\ Are("writing") # {} => Cardinality(Are("writing") \cup Are("reading")) = 1
    /\ Are("initialised") # {} => executed /\ ran = 1

\* "If we make this correction, things have gone wrong" (ptrwlock.c:99): a reader that
\* unlocks is among those counted.
NoCorrection == Are("discount") # {} => read_waiters > 0

\* No thread leaves the barrier before all have come, as often as they come again, and
\* of each round one is told that it is PTHREAD_BARRIER_SERIAL_THREAD.
BarrierRounds == \A t \in Thread : left[t] <= serial /\ serial <= arrived[t]

\* Where no wait has a time limit, a token is for a thread that waited when it was
\* posted, and is gone before the one that posted it goes on: no later wait ends at once.
NoLeftToken ==
    wait_block["barrier"] > 0 => \E t \in Thread : At(t, "spin") /\ On(t) = "barrier"

\* Every program ends: no waiter is forgotten, nobody waits for a lock that is free.
AllEnd == <>(\A t \in Thread : stack[t] = <<>>)
==============================================================================
