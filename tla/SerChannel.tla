----------------------------- MODULE SerChannel ------------------------------
(***************************************************************************)
(* What RemotePut and RemoteGet (bld/trap/ser/c/serlink.c) are for: a pair *)
(* of channels, one per direction.  Blocks are named by increasing         *)
(* numbers.  A side puts a block, the other side takes it, and the putting *)
(* side may come to hold it for delivered.  A block may be taken without   *)
(* its contents: RemoteGet returns 0 bytes when it has resynchronised.     *)
(***************************************************************************)
EXTENDS Integers, Sequences

CONSTANT Id         \* the numbers blocks are named by, all above 0

VARIABLES put,        \* the block each side put last
          due,        \* will that side resynchronise when the block is confirmed?
          taken,      \* the blocks each side has taken
          emptied,    \* those of them it took without their contents
          confirmed,  \* the blocks each side holds for delivered
          unheard     \* has a side given up a block while the other was away?

vars == <<put, due, taken, emptied, confirmed, unheard>>

Peer == {"client", "server"}
Other(p) == IF p = "client" THEN "server" ELSE "client"
Last(s) == IF s = <<>> THEN 0 ELSE s[Len(s)]

Init == /\ put = [p \in Peer |-> 0]
        /\ due = [p \in Peer |-> FALSE]
        /\ taken = [p \in Peer |-> <<>>]
        /\ emptied = [p \in Peer |-> {}]
        /\ confirmed = [p \in Peer |-> {}]
        /\ unheard = FALSE

Put(p, n) == /\ n > put[p]
             /\ put' = [put EXCEPT ![p] = n]
             /\ \E d \in BOOLEAN : due' = [due EXCEPT ![p] = d]
             /\ UNCHANGED <<taken, emptied, confirmed, unheard>>

\* A block is taken after those taken before it, and after it was put.
Take(p, n, empty) ==
    /\ Last(taken[p]) < n /\ n <= put[Other(p)]
    /\ taken' = [taken EXCEPT ![p] = Append(@, n)]
    /\ emptied' = [emptied EXCEPT ![p] = @ \cup (IF empty THEN {n} ELSE {})]
    /\ UNCHANGED <<put, due, confirmed, unheard>>

Confirm(p) == /\ confirmed' = [confirmed EXCEPT ![p] = @ \cup {put[p]}]
              /\ UNCHANGED <<put, due, taken, emptied, unheard>>

\* A side gives up its block while the other side is not there to take it.
GiveUp == /\ unheard' = TRUE
          /\ UNCHANGED <<put, due, taken, emptied, confirmed>>

LossyNext ==
    \/ GiveUp
    \/ \E p \in Peer : \/ Confirm(p)
                      \/ \E n \in Id : Put(p, n) \/ \E empty \in BOOLEAN : Take(p, n, empty)
LossySpec == Init /\ [][LossyNext]_vars

\* The reliable channel passes over no block, confirms what was taken, and empties
\* a block only when its sender will resynchronise as well.  It becomes a lossy one
\* when a side has given up.
Sound(p) ==
    \/ \E n \in Id : Put(p, n) /\ put[p] = Last(taken[Other(p)])
    \/ put[Other(p)] \in Id /\ Take(p, put[Other(p)], due[Other(p)])
    \/ Confirm(p) /\ put[p] = Last(taken[Other(p)])
ReliableNext ==
    \/ GiveUp
    \/ unheard /\ LossyNext
    \/ \E p \in Peer : Sound(p)
ReliableSpec == Init /\ [][ReliableNext]_vars
=============================================================================
