---------------------------- MODULE RecursiveLock ----------------------------
(***************************************************************************)
(* What __AccessSemaphore and __ReleaseSemaphore promise their callers: a  *)
(* lock that one thread holds at a time, and that its holder may take      *)
(* again and gives up when it has released it as often.                    *)
(***************************************************************************)
EXTENDS Naturals

CONSTANTS
    Thread,
    Lock

VARIABLE
    holds         \* how many times each thread holds each lock

Init == holds = [t \in Thread |-> [l \in Lock |-> 0]]

Access(t, l) ==
    /\ \A u \in Thread \ {t} : holds[u][l] = 0
    /\ holds' = [holds EXCEPT ![t][l] = @ + 1]

Release(t, l) ==
    /\ holds[t][l] > 0
    /\ holds' = [holds EXCEPT ![t][l] = @ - 1]

Next == \E t \in Thread, l \in Lock : Access(t, l) \/ Release(t, l)

Spec == Init /\ [][Next]_holds
==============================================================================
