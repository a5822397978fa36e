----------------------------- MODULE ThreadLock ------------------------------
(***************************************************************************)
(* The locks of the C library (bld/clib/mthread/c/mthread.c) as they are   *)
(* on Linux: a recursive lock that its first user creates, over the futex  *)
(* semaphore of bld/clib/linux/c.                                          *)
(*                                                                         *)
(* Each step reads or writes one word that threads share.  The futex is    *)
(* external: FUTEX_WAIT sleeps if the word is the one it was told, in one  *)
(* step, until it is woken or 0.1 ms are over.                             *)
(***************************************************************************)
EXTENDS Integers

CONSTANTS
    Thread,       \* the threads
    Lock,         \* the semaphore_objects of the library
    InitSem,      \* InitSemaphore
    None,         \* owner 0
    Depth         \* bound: how often a thread holds a lock

Object == Lock \cup {InitSem}

ASSUME LockAssumption ==
    /\ Lock # {} /\ InitSem \notin Lock
    /\ None \notin Thread
    /\ Depth \in Nat \ {0}

VARIABLES
    pc,           \* where each thread is
    want,         \* the lock that it accesses or releases
    sem,          \* the object whose semaphore it waits for or posts
    seen,         \* the value it has read
    value, futex, \* the semaphore of each object
    initialized, owner, count,      \* the other members of each object
    holds,        \* history: how many times each thread holds each lock
    made          \* history: how many times each semaphore was initialised

thread == <<pc, want, sem, seen>>
semaphore == <<value, futex>>
member == <<initialized, owner, count>>
history == <<holds, made>>
vars == <<thread, semaphore, member, history>>

Waiting == {"try", "swap", "look", "wait", "asleep"}
Place == {"idle", "fatal", "check", "won", "busy", "own", "again", "make", "mark",
          "unlock", "post", "wake", "clear"} \cup Waiting

TypeOK ==
    /\ pc \in [Thread -> Place]
    /\ want \in [Thread -> Lock] /\ sem \in [Thread -> Object]
    /\ seen \in [Thread -> Nat]
    /\ value \in [Object -> Nat] /\ futex \in [Object -> {0, 1}]
    /\ initialized \in [Object -> BOOLEAN]
    /\ owner \in [Object -> Thread \cup {None}] /\ count \in [Object -> Nat]
    /\ holds \in [Thread -> [Lock -> Nat]] /\ made \in [Lock -> Nat]

\* __InitMultipleThread has made InitSemaphore, while there was one thread.
Init ==
    /\ pc = [t \in Thread |-> "idle"]
    /\ want = [t \in Thread |-> CHOOSE l \in Lock : TRUE]
    /\ sem = [t \in Thread |-> InitSem]
    /\ seen = [t \in Thread |-> 0]
    /\ value = [o \in Object |-> IF o = InitSem THEN 1 ELSE 0]
    /\ futex = [o \in Object |-> IF o = InitSem THEN 1 ELSE 0]
    /\ initialized = [o \in Object |-> o = InitSem]
    /\ owner = [o \in Object |-> None]
    /\ count = [o \in Object |-> 0]
    /\ holds = [t \in Thread |-> [l \in Lock |-> 0]]
    /\ made = [l \in Lock |-> 0]

From(t, place) == pc[t] = place
Goto(t, place) == pc' = [pc EXCEPT ![t] = place]

-----------------------------------------------------------------------------
(* __AccessSemaphore up to the wait for a semaphore *)

Access(t, l) ==
    /\ From(t, "idle") /\ holds[t][l] < Depth
    /\ want' = [want EXCEPT ![t] = l]
    /\ IF owner[l] = t
       THEN /\ count' = [count EXCEPT ![l] = @ + 1]
            /\ holds' = [holds EXCEPT ![t][l] = @ + 1]
            /\ pc' = pc
       ELSE Goto(t, "check") /\ UNCHANGED <<count, holds>>
    /\ UNCHANGED <<sem, seen, semaphore, initialized, owner, made>>

Check(t) ==
    /\ From(t, "check")
    /\ sem' = [sem EXCEPT ![t] = IF initialized[want[t]] THEN want[t] ELSE InitSem]
    /\ Goto(t, "try")
    /\ UNCHANGED <<want, seen, semaphore, member, history>>

-----------------------------------------------------------------------------
(* sem_wait *)

\* __decrement_if_positive
Try(t) ==
    /\ From(t, "try")
    /\ seen' = [seen EXCEPT ![t] = value[sem[t]]]
    /\ Goto(t, IF value[sem[t]] > 0 THEN "swap" ELSE "look")
    /\ UNCHANGED <<want, sem, semaphore, member, history>>

Decrement(t) ==                      \* mutant: the value stored without a comparison
    /\ From(t, "swap")
    /\ value' = [value EXCEPT ![sem[t]] = seen[t] - 1] /\ Goto(t, "won")
    /\ UNCHANGED <<want, sem, seen, futex, member, history>>

Swap(t) ==
    /\ From(t, "swap")
    /\ IF value[sem[t]] = seen[t]
       THEN value' = [value EXCEPT ![sem[t]] = seen[t] - 1] /\ Goto(t, "won")
       ELSE value' = value /\ Goto(t, "look")
    /\ UNCHANGED <<want, sem, seen, futex, member, history>>

Look(t) ==
    /\ From(t, "look")
    /\ Goto(t, IF value[sem[t]] <= 0 THEN "wait" ELSE "try")
    /\ UNCHANGED <<want, sem, seen, semaphore, member, history>>

Sleep(t) ==
    /\ From(t, "wait")
    /\ Goto(t, IF futex[sem[t]] = 1 THEN "asleep" ELSE "try")
    /\ UNCHANGED <<want, sem, seen, semaphore, member, history>>

NoTimeout(t) == FALSE                \* mutant: a wait that only a wake-up ends

Timeout(t) ==
    /\ From(t, "asleep")
    /\ Goto(t, "try")
    /\ UNCHANGED <<want, sem, seen, semaphore, member, history>>

\* The futex says that there is something to wait for.
Won(t) ==
    /\ From(t, "won")
    /\ Goto(t, IF value[sem[t]] = 0 THEN "busy" ELSE "own")
    /\ UNCHANGED <<want, sem, seen, semaphore, member, history>>

Busy(t) ==
    /\ From(t, "busy")
    /\ futex' = [futex EXCEPT ![sem[t]] = 1]
    /\ Goto(t, "own")
    /\ UNCHANGED <<want, sem, seen, value, member, history>>

-----------------------------------------------------------------------------
(* The rest of __AccessSemaphore *)

\* The access has ended, or the nested one of InitSemaphore has.
Own(t) ==
    /\ From(t, "own")
    /\ owner' = [owner EXCEPT ![sem[t]] = t]
    /\ count' = [count EXCEPT ![sem[t]] = @ + 1]
    /\ IF sem[t] = InitSem
       THEN Goto(t, "again") /\ holds' = holds
       ELSE Goto(t, "idle") /\ holds' = [holds EXCEPT ![t][want[t]] = @ + 1]
    /\ UNCHANGED <<want, sem, seen, semaphore, initialized, made>>

Trust(t) ==                          \* mutant: not looked at again under InitSemaphore
    /\ From(t, "again")
    /\ Goto(t, "make")
    /\ UNCHANGED <<want, sem, seen, semaphore, member, history>>

CheckAgain(t) ==
    /\ From(t, "again")
    /\ Goto(t, IF initialized[want[t]] THEN "unlock" ELSE "make")
    /\ UNCHANGED <<want, sem, seen, semaphore, member, history>>

\* sem_init
Make(t) ==
    /\ From(t, "make")
    /\ value' = [value EXCEPT ![want[t]] = 1]
    /\ futex' = [futex EXCEPT ![want[t]] = 1]
    /\ made' = [made EXCEPT ![want[t]] = @ + 1]
    /\ Goto(t, "mark")
    /\ UNCHANGED <<want, sem, seen, member, holds>>

Mark(t) ==
    /\ From(t, "mark")
    /\ initialized' = [initialized EXCEPT ![want[t]] = TRUE]
    /\ Goto(t, "unlock")
    /\ UNCHANGED <<want, sem, seen, semaphore, owner, count, history>>

-----------------------------------------------------------------------------
(* __ReleaseSemaphore *)

\* The members of the object o, and where it leads a thread that has to go on at
\* the place after; nothing happens when the count is 0.
LetGo(t, o, after) ==
    LET wrong == count[o] > 0 /\ owner[o] # t
    IN  /\ count' = [count EXCEPT ![o] = IF @ = 0 \/ wrong THEN @ ELSE @ - 1]
        /\ owner' = [owner EXCEPT ![o] = IF count[o] = 1 /\ ~wrong THEN None ELSE @]
        /\ Goto(t, IF wrong THEN "fatal" ELSE IF count[o] = 1 THEN "post" ELSE after)

Release(t, l) ==
    /\ From(t, "idle") /\ holds[t][l] > 0
    /\ holds' = [holds EXCEPT ![t][l] = @ - 1]
    /\ want' = [want EXCEPT ![t] = l]
    /\ sem' = [sem EXCEPT ![t] = l]
    /\ LetGo(t, l, "idle")
    /\ UNCHANGED <<seen, semaphore, initialized, made>>

\* The semaphore of the object has been seen to: on to sem_wait.
Unlock(t) ==
    /\ From(t, "unlock")
    /\ LetGo(t, InitSem, "try")
    /\ UNCHANGED <<want, sem, seen, semaphore, initialized, history>>

\* sem_post
Sleepers(o) == {u \in Thread : pc[u] = "asleep" /\ sem[u] = o}
HandOver(t) ==                       \* mutant: a value of -1 for a semaphore with sleepers
    /\ From(t, "post")
    /\ value' = [value EXCEPT ![sem[t]] = IF Sleepers(sem[t]) = {} THEN @ + 1 ELSE @ - 1]
    /\ Goto(t, "wake")
    /\ UNCHANGED <<want, sem, seen, futex, member, history>>

Post(t) ==
    /\ From(t, "post")
    /\ value' = [value EXCEPT ![sem[t]] = @ + 1]
    /\ Goto(t, "wake")
    /\ UNCHANGED <<want, sem, seen, futex, member, history>>

Wake(t) ==
    /\ From(t, "wake")
    /\ pc' = [u \in Thread |->
                 IF u = t THEN "clear"
                 ELSE IF pc[u] = "asleep" /\ sem[u] = sem[t] THEN "try" ELSE pc[u]]
    /\ UNCHANGED <<want, sem, seen, semaphore, member, history>>

LateOwner(t) ==                      \* mutant: the owner reset after the post
    /\ From(t, "clear")
    /\ futex' = [futex EXCEPT ![sem[t]] = 0]
    /\ owner' = [owner EXCEPT ![sem[t]] = None]
    /\ IF sem[t] = InitSem
       THEN Goto(t, "try") /\ sem' = [sem EXCEPT ![t] = want[t]]
       ELSE Goto(t, "idle") /\ sem' = sem
    /\ UNCHANGED <<want, seen, value, initialized, count, history>>

Clear(t) ==
    /\ From(t, "clear")
    /\ futex' = [futex EXCEPT ![sem[t]] = 0]
    /\ IF sem[t] = InitSem
       THEN Goto(t, "try") /\ sem' = [sem EXCEPT ![t] = want[t]]
       ELSE Goto(t, "idle") /\ sem' = sem
    /\ UNCHANGED <<want, seen, value, member, history>>

-----------------------------------------------------------------------------
Inside(t) ==
    \/ Check(t) \/ Try(t) \/ Swap(t) \/ Look(t) \/ Sleep(t) \/ Timeout(t)
    \/ Won(t) \/ Busy(t) \/ Own(t) \/ CheckAgain(t) \/ Make(t) \/ Mark(t)
    \/ Unlock(t) \/ Post(t) \/ Wake(t) \/ Clear(t)

GiveUp(t) == \E l \in Lock : Release(t, l)

Next ==
    \E t \in Thread :
        \/ Inside(t) \/ GiveUp(t)
        \/ \E l \in Lock : Access(t, l)

\* The kernel runs every thread, and each gives up what it holds.
Fairness == \A t \in Thread : WF_vars(Inside(t)) /\ WF_vars(GiveUp(t))

Spec == Init /\ [][Next]_vars /\ Fairness

-----------------------------------------------------------------------------
\* However its accesses and creations interleave, the library has recursive locks.
RL == INSTANCE RecursiveLock
RecursiveLocks == RL!Spec

\* A semaphore is initialised once, though its users look at obj->initialized
\* without a lock, and never while somebody waits for it or has it.
MadeOnce ==
    \A l \in Lock :
        /\ made[l] <= 1
        /\ made[l] = 0 => ~ \E t \in Thread :
              sem[t] = l /\ pc[t] \in Waiting \cup {"won", "busy", "own"}

\* "Semaphore unlocked by wrong owner" is never said to a thread that releases a
\* lock it holds, and its count is that of its holder.
OwnerKept ==
    /\ \A t \in Thread : pc[t] # "fatal"
    /\ \A t \in Thread, l \in Lock :
          holds[t][l] > 0 => owner[l] = t /\ count[l] = holds[t][l]

\* When threads want a lock one of them gets it: no wake-up is lost for good.
SomebodyGetsIt ==
    \A l \in Lock :
        (\E t \in Thread : want[t] = l /\ pc[t] \in Waiting)
            ~> (\E t \in Thread : holds[t][l] > 0)
==============================================================================
