---------------------------- MODULE PtSync_proofs ----------------------------
(***************************************************************************)
(* Proofs about PtSync, for any number of threads and any programs that    *)
(* are Disciplined (PtDiscipline).                                         *)
(*                                                                         *)
(* The invariant gives each thread the mode in which it is: what the rules *)
(* let it do is in Legals, and each object has a part that says what the   *)
(* modes of the threads mean for it.  A step is shown to be a move of the  *)
(* rules, then to keep the parts it touches.                               *)
(***************************************************************************)
EXTENDS PtDiscipline, FiniteSetTheorems, SequenceTheorems, TLAPS

-----------------------------------------------------------------------------
(* The invariant: G gives each thread the mode in which it is *)

Readers(G) == {t \in Thread : G[t].rw = "reader"}

Values ==
    /\ res \in [Thread -> {"ok", "busy", "deadlock", "perm"}] /\ snap \in [Thread -> Int]
    /\ sem \in [Mutex -> {0, 1}] /\ owner \in [Mutex -> Thread \cup {Ready}]
    /\ wait_block \in [Cond -> Int] /\ waiters \in [Cond -> Int]
    /\ read_waiters \in Int /\ count \in Int /\ executed \in BOOLEAN
    /\ arrived \in [Thread -> Int] /\ left \in [Thread -> Int] /\ serial \in Int /\ ran \in Int

Types(G) == G \in [Thread -> Mode] /\ stack \in [Thread -> Seq(Item)] /\ Values

\* Every thread keeps to the rules in what it has left to do.
Legals(G) == \A t \in Thread : Legal(stack[t], G[t]) /\ (G[t].ok <=> res[t] = "ok")

\* A mutex has one user at most, its owner if it has an owner.
Mutexes(G) ==
    \A x \in Mutex :
        /\ \A t \in Thread : owner[x] = t <=> Owns(G[t], x)
        /\ sem[x] = 1 => \A t \in Thread : G[t].ph[x] = "out"
        /\ \A t, u \in Thread : G[t].ph[x] # "out" /\ G[u].ph[x] # "out" => t = u

RwLocks(G) ==
    /\ read_waiters = Cardinality(Readers(G))
    /\ \A t \in Thread : G[t].rw = "writer" => Owns(G[t], "block_mutex") /\ read_waiters = 0

Onces(G) ==
    /\ \A t \in Thread :
        /\ G[t].once \in {"first", "ran"} => Owns(G[t], "once") /\ ~executed
        /\ G[t].once = "knows" => executed
        /\ G[t].once = "first" => ran = 0
        /\ G[t].once = "ran" => ran = 1
    /\ executed => ran = 1
    /\ ~executed => ran = 0 \/ \E t \in Thread : G[t].once = "ran"

\* The round of the barrier that is not yet over.
Round == serial + 1
Counted(G) == {t \in Thread : G[t].bar \notin {"-", "begun"} /\ arrived[t] = Round}
Sleepers(G) == {t \in Thread : G[t].bar \in {"counted", "awake"}}

\* Where a thread is in pthread_barrier_wait, by its calls and returns.
Place(G, t) ==
    LET bar == G[t].bar IN
    /\ bar \in {"past"} \cup Waking => Owns(G[t], "access")
    /\ bar = "-" => arrived[t] = serial /\ left[t] = serial
    /\ bar \in {"begun", "past", "counted", "awake"} \cup Waking =>
          arrived[t] = Round /\ left[t] = serial
    /\ bar = "back" => arrived[t] \in {serial, Round} /\ left[t] = arrived[t] - 1
    /\ bar = "back" /\ arrived[t] = Round => \E u \in Thread : G[u].bar \in Waking
    /\ bar = "home" => arrived[t] = serial /\ left[t] = serial - 1
    /\ bar \in Waking => Counted(G) = Thread

NobodyAwake(G) == \A t \in Thread : G[t].bar # "awake"
OneAwake(G) ==
    \E t \in Thread : G[t].bar = "awake" /\ \A u \in Thread : G[u].bar = "awake" => u = t

\* A token: posted; taken; or its taker has left, and the last thread may go on.
Passing(G, t) ==
    \/ waiters["barrier"] = snap[t] /\ wait_block["barrier"] = 1 /\ NobodyAwake(G)
    \/ waiters["barrier"] = snap[t] /\ wait_block["barrier"] = 0 /\ OneAwake(G)
    \/ waiters["barrier"] = snap[t] - 1 /\ wait_block["barrier"] = 0 /\ NobodyAwake(G)

Handing(G, t) ==
    LET bar == G[t].bar IN
    /\ bar = "snaps" => waiters["barrier"] > 0
    /\ bar = "tokens" => snap[t] = waiters["barrier"] /\ snap[t] > 0
    /\ bar = "spins" => snap[t] > 0 /\ Passing(G, t)
    /\ bar \in {"lets", "resets"} => waiters["barrier"] = 0

Quiet(G) ==
    (\A t \in Thread : G[t].bar # "spins") => wait_block["barrier"] = 0 /\ NobodyAwake(G)

Rounds(G) ==
    /\ count = Cardinality(Counted(G))
    /\ waiters["barrier"] = Cardinality(Sleepers(G))
    /\ \A t \in Thread : Place(G, t) /\ Handing(G, t)
    /\ Quiet(G)

Good(G) ==
    /\ IsFiniteSet(Thread)
    /\ Types(G) /\ Legals(G) /\ Mutexes(G) /\ RwLocks(G) /\ Onces(G)
    /\ Limit = Cardinality(Thread) => Rounds(G)

Inv == \E G : Good(G)

-----------------------------------------------------------------------------
(* A legal step *)

LEMMA Goes ==
    ASSUME NEW s, NEW m, Legal(s, m)
    PROVE  /\ s \in Seq(Item) /\ m \in Mode
           /\ s = <<>> => Free(m)
           /\ s # <<>> => Moves(Head(s), m) # {}
           /\ s # <<>> => \A x \in After(s, m) : Legal(x[1], x[2])
<1>1. PICK L : Closed(L) /\ <<s, m>> \in L BY DEF Legal
<1>2. /\ L \subseteq Seq(Item) \X Mode
      /\ s = <<>> => Free(m)
      /\ s # <<>> => Moves(Head(s), m) # {} /\ After(s, m) \subseteq L
  BY <1>1 DEF Closed
<1>3. ASSUME s # <<>>, NEW x \in After(s, m) PROVE Legal(x[1], x[2])
  <2>1. x \in L /\ x = <<x[1], x[2]>> BY <1>3, <1>2
  <2> QED BY <2>1, <1>1 DEF Legal
<1> QED BY <1>1, <1>2, <1>3

\* The thread t is in the mode m and calls c.
Makes(G, t, c, m) == stack[t] # <<>> /\ c = Head(stack[t]) /\ m = G[t]

\* A thread that is at a place may be there.
LEMMA MayBeAt ==
    ASSUME NEW G, Types(G), Legals(G), NEW t \in Thread, NEW c, NEW m, Makes(G, t, c, m)
    PROVE  c \in Item /\ m \in Mode /\ Moves(c, m) # {}
<1>1. Legal(stack[t], m) BY DEF Legals, Makes
<1>2. stack[t] \in Seq(Item) /\ m \in Mode /\ Moves(c, m) # {} BY <1>1, Goes DEF Makes
<1>3. c \in Item BY <1>2 DEF Makes
<1> QED BY <1>2, <1>3

\* The threads keep to the rules when one goes on by a move that the rules have.
LEMMA Carries ==
    ASSUME NEW G, Types(G), Legals(G), NEW t \in Thread, NEW c, NEW m, Makes(G, t, c, m),
           c.at # "iflocked", NEW calls, NEW n, <<calls, n>> \in Moves(c, m), Then(t, calls),
           res' \in [Thread -> {"ok", "busy", "deadlock", "perm"}],
           n.ok <=> res'[t] = "ok", \A u \in Thread : u # t => res'[u] = res[u]
    PROVE  /\ n \in Mode
           /\ stack' \in [Thread -> Seq(Item)]
           /\ Legals([G EXCEPT ![t] = n])'
<1>1. Legal(stack[t], m) BY DEF Legals, Makes
<1>2. <<calls \o Tail(stack[t]), n>> \in After(stack[t], m)
  <2>1. After(stack[t], m) = {<<move[1] \o Tail(stack[t]), move[2]>> : move \in Moves(c, m)}
    BY DEF After, Makes
  <2>2. /\ <<calls, n>>[1] = calls /\ <<calls, n>>[2] = n
        /\ <<calls, n>> \in Moves(c, m)
    OBVIOUS
  <2>3. \E move \in Moves(c, m) :
           <<calls \o Tail(stack[t]), n>> = <<move[1] \o Tail(stack[t]), move[2]>>
    BY <2>2, Zenon
  <2>4. <<calls \o Tail(stack[t]), n>> \in
          {<<move[1] \o Tail(stack[t]), move[2]>> : move \in Moves(c, m)}
    BY <2>3, Zenon
  <2> QED BY <2>1, <2>4, Zenon
<1>3. Legal(calls \o Tail(stack[t]), n)
  <2>1. \A x \in After(stack[t], m) : Legal(x[1], x[2]) BY <1>1, Goes DEF Makes
  <2> QED BY <2>1, <1>2
<1>4. calls \o Tail(stack[t]) \in Seq(Item) /\ n \in Mode BY <1>3, Goes
<1>5. stack' = [stack EXCEPT ![t] = calls \o Tail(stack[t])] BY DEF Then
<1>6. ASSUME NEW u \in Thread
      PROVE  /\ Legal(stack'[u], [G EXCEPT ![t] = n][u])
             /\ [G EXCEPT ![t] = n][u].ok <=> res'[u] = "ok"
  <2>1. CASE u = t BY <2>1, <1>3, <1>5 DEF Types
  <2>2. CASE u # t BY <2>2, <1>5 DEF Types, Legals
  <2> QED BY <2>1, <2>2
<1> QED BY <1>4, <1>5, <1>6 DEF Types, Legals

-----------------------------------------------------------------------------
(* What one object needs of a step that does not touch it *)

LEMMA MutexFrame ==
    ASSUME NEW G, Types(G), Mutexes(G), NEW t \in Thread, NEW n, n.ph = G[t].ph,
           UNCHANGED <<sem, owner>>
    PROVE  Mutexes([G EXCEPT ![t] = n])'
BY DEF Types, Mutexes, Owns

LEMMA RwFrame ==
    ASSUME NEW G, Types(G), RwLocks(G), NEW t \in Thread, NEW n, n.rw = G[t].rw,
           n.rw = "writer" => Owns(n, "block_mutex"), read_waiters' = read_waiters
    PROVE  RwLocks([G EXCEPT ![t] = n])'
<1>1. Readers([G EXCEPT ![t] = n]) = Readers(G) BY DEF Types, Readers
<1> QED BY <1>1 DEF Types, RwLocks, Readers

LEMMA OnceFrame ==
    ASSUME NEW G, Types(G), Onces(G), NEW t \in Thread, NEW n, n.once = G[t].once,
           n.once \in {"first", "ran"} => Owns(n, "once"), UNCHANGED <<executed, ran>>
    PROVE  Onces([G EXCEPT ![t] = n])'
BY DEF Types, Onces

LEMMA RoundFrame ==
    ASSUME NEW G, Types(G), Rounds(G), NEW t \in Thread, NEW n, n.bar = G[t].bar,
           n.bar \in {"past"} \cup Waking => Owns(n, "access"),
           \A u \in Thread : u # t \/ n.bar # "-" => snap'[u] = snap[u],
           UNCHANGED <<count, arrived, left, serial>>,
           waiters'["barrier"] = waiters["barrier"], wait_block'["barrier"] = wait_block["barrier"]
    PROVE  Rounds([G EXCEPT ![t] = n])'
<1> DEFINE H == [G EXCEPT ![t] = n]
<1>1. \A u \in Thread : H[u].bar = G[u].bar BY DEF Types
<1> HIDE DEF H
<1>2. Counted(H)' = Counted(G) /\ Sleepers(H) = Sleepers(G) BY <1>1 DEF Counted, Sleepers, Round
<1>3. NobodyAwake(H) <=> NobodyAwake(G) BY <1>1 DEF NobodyAwake
<1>4. OneAwake(H) <=> OneAwake(G) BY <1>1 DEF OneAwake
<1>5. ASSUME NEW u \in Thread PROVE Place(H, u)'
  <2>1. Place(G, u) BY DEF Rounds
  <2>2. H[u].bar \in {"past"} \cup Waking => Owns(H[u], "access")
    BY <2>1, <1>1 DEF Types, Place, H
  <2>3. (\E v \in Thread : G[v].bar \in Waking) => (\E v \in Thread : H[v].bar \in Waking)
    BY <1>1
  <2> QED BY <2>1, <2>2, <2>3, <1>1, <1>2 DEF Place, Round
<1>6. ASSUME NEW u \in Thread PROVE Handing(H, u)'
  <2>1. Handing(G, u) BY DEF Rounds
  <2> QED BY <2>1, <1>1, <1>3, <1>4 DEF Handing, Passing, NobodyAwake, OneAwake
<1>7. Quiet(H)' BY <1>1, <1>3 DEF Rounds, Quiet, NobodyAwake
<1>8. count' = Cardinality(Counted(H)') /\ waiters'["barrier"] = Cardinality(Sleepers(H))
  BY <1>2 DEF Rounds
<1> QED BY <1>5, <1>6, <1>7, <1>8 DEF Rounds, Sleepers, H

-----------------------------------------------------------------------------
(* One step of one thread *)

\* The rules of a place that has moves.
LEMMA Rules ==
    ASSUME NEW c, NEW m, Moves(c, m) # {}
    PROVE  /\ c.at \in MutexPlace => c.on \in Mutex /\ Moves(c, m) = MutexMoves(c.at, c.on, m)
           /\ c.at \in CondPlace =>
                 \/ c.on = "cond" /\ Moves(c, m) = CondMoves(c.at, m)
                 \/ c.on = "barrier" /\ Moves(c, m) = BarrierMoves(c.at, m)
           /\ c.at \in RwPlace => Moves(c, m) = RwMoves(c.at, m)
           /\ c.at \in WaitPlace => Moves(c, m) = WaitMoves(c.at, m)
           /\ c.at \in OncePlace => Moves(c, m) = OnceMoves(c.at, m)
           /\ c.at \in UsePlace => Moves(c, m) = UseMoves(c.at, m)
BY DEF Moves, MutexPlace, CondPlace, RwPlace, WaitPlace, OncePlace, UsePlace

\* The thread t goes on by a move from c to calls and the mode n.
Turns(G, t, c, calls, n) ==
    /\ stack[t] # <<>> /\ c = Head(stack[t]) /\ c.at # "iflocked"
    /\ <<calls, n>> \in Moves(c, G[t]) /\ Then(t, calls)
    /\ n.ok <=> res'[t] = "ok"
    /\ \A u \in Thread : u # t => res'[u] = res[u]

LEMMA QuietStep ==
    ASSUME NEW G, Good(G), NEW t \in Thread, NEW c, NEW calls, NEW n,
           Turns(G, t, c, calls, n), Values',
           n.ph = G[t].ph, n.rw = G[t].rw, n.once = G[t].once, n.bar = G[t].bar,
           UNCHANGED <<sem, owner, read_waiters, count, executed, history>>,
           \A u \in Thread : u # t \/ n.bar # "-" => snap'[u] = snap[u],
           waiters'["barrier"] = waiters["barrier"], wait_block'["barrier"] = wait_block["barrier"]
    PROVE  Good([G EXCEPT ![t] = n])'
<1>1. Types(G) /\ Legals(G) /\ Mutexes(G) /\ RwLocks(G) /\ Onces(G) BY DEF Good
<1>2. n \in Mode /\ stack' \in [Thread -> Seq(Item)] /\ Legals([G EXCEPT ![t] = n])'
  BY <1>1, Carries DEF Turns, Makes, Values
<1>3. Types([G EXCEPT ![t] = n])' BY <1>1, <1>2 DEF Types
<1>4. Mutexes([G EXCEPT ![t] = n])' BY <1>1, MutexFrame
<1>5. RwLocks([G EXCEPT ![t] = n])'
  <2>1. n.rw = "writer" => Owns(n, "block_mutex") BY <1>1 DEF RwLocks, Owns
  <2> QED BY <1>1, <2>1, RwFrame
<1>6. Onces([G EXCEPT ![t] = n])'
  <2>1. n.once \in {"first", "ran"} => Owns(n, "once") BY <1>1 DEF Onces, Owns
  <2>2. UNCHANGED <<executed, ran>> BY DEF history
  <2> QED BY <1>1, <2>1, <2>2, OnceFrame
<1>7. ASSUME Rounds(G) PROVE Rounds([G EXCEPT ![t] = n])'
  <2>1. n.bar \in {"past"} \cup Waking => Owns(n, "access")
    BY <1>7 DEF Rounds, Place, Owns
  <2>2. UNCHANGED <<count, arrived, left, serial>> BY DEF history
  <2> QED BY <1>1, <1>7, <2>1, <2>2, RoundFrame
<1> QED BY <1>2, <1>3, <1>4, <1>5, <1>6, <1>7 DEF Good

\* What is to be shown of a step that some object notices.
LEMMA NoticedStep ==
    ASSUME NEW G, Good(G), NEW t \in Thread, NEW c, NEW calls, NEW n,
           Turns(G, t, c, calls, n), Values',
           Mutexes([G EXCEPT ![t] = n])', RwLocks([G EXCEPT ![t] = n])',
           Onces([G EXCEPT ![t] = n])',
           Limit = Cardinality(Thread) => Rounds([G EXCEPT ![t] = n])'
    PROVE  Inv'
<1>1. Types(G) /\ Legals(G) BY DEF Good
<1>2. n \in Mode /\ stack' \in [Thread -> Seq(Item)] /\ Legals([G EXCEPT ![t] = n])'
  BY <1>1, Carries DEF Turns, Makes, Values
<1>3. Types([G EXCEPT ![t] = n])' BY <1>1, <1>2 DEF Types
<1> QED BY <1>2, <1>3 DEF Good, Inv

\* What a thread at a place has to go by.
LEMMA Stands ==
    ASSUME NEW G, Good(G), NEW t \in Thread, NEW place, At(t, place)
    PROVE  /\ stack[t] # <<>> /\ Head(stack[t]).at = place /\ G[t] \in Mode
           /\ Head(stack[t]) \in Item /\ Moves(Head(stack[t]), G[t]) # {}
           /\ G[t].ok <=> res[t] = "ok"
BY MayBeAt DEF Good, At, Makes, Legals, Types

\* A step that keeps the mode.
LEMMA SameMode ==
    ASSUME NEW G, Good(G), NEW t \in Thread, NEW place, At(t, place), place # "iflocked",
           NEW calls, <<calls, G[t]>> \in Moves(Head(stack[t]), G[t]), Then(t, calls), Values',
           UNCHANGED <<res, sem, owner, read_waiters, count, executed, history>>,
           \A u \in Thread : u # t \/ ~Free(G[t]) => snap'[u] = snap[u],
           waiters'["barrier"] = waiters["barrier"], wait_block'["barrier"] = wait_block["barrier"]
    PROVE  Inv'
<1>1. Turns(G, t, Head(stack[t]), calls, G[t]) BY Stands DEF Turns, At
<1> QED BY <1>1, QuietStep DEF Inv, Free

LEMMA LockStep == ASSUME NEW G, Good(G), NEW t \in Thread, Lock(t) PROVE Inv'
<1> DEFINE c == Head(stack[t])
           n == [G[t] EXCEPT !.ok = FALSE]
<1>1. /\ stack[t] # <<>> /\ c.at = "lock" /\ G[t] \in Mode
      /\ G[t].ok <=> res[t] = "ok"
      /\ Moves(c, G[t]) # {}
  BY Stands DEF Lock
<1>2. c.on \in Mutex /\ Moves(c, G[t]) = LockMoves(G[t], c.on)
  BY <1>1, Rules DEF MutexPlace, MutexMoves
<1>3. /\ In(G[t], c.on, {"begun", "back"})
      /\ G[t].ph[c.on] \in {"out", "own"}
      /\ owner[c.on] = t <=> G[t].ph[c.on] = "own"
  BY <1>1, <1>2 DEF LockMoves, Move, Owns, Good, Mutexes
<1>4. Values' BY DEF Lock, Good, Types, Values, Result, mutexes, conds, others, history
<1>5. CASE owner[c.on] = t
  <2>1. <<<<>>, n>> \in Moves(c, G[t]) BY <1>2, <1>3, <1>5 DEF LockMoves, Move, Owns
  <2>2. n.ph = G[t].ph /\ n.rw = G[t].rw /\ n.once = G[t].once /\ n.bar = G[t].bar /\ n.ok = FALSE
    BY <1>1 DEF Mode
  <2>3. Turns(G, t, c, <<>>, n)
    BY <1>1, <1>5, <2>1, <2>2 DEF Turns, Lock, Returns, Result, On, Good, Types, Values
  <2> QED
    BY <1>4, <2>2, <2>3, QuietStep DEF Inv, Lock, mutexes, conds, others
<1>6. CASE owner[c.on] # t
  <2>1. <<<<Call("take", c.on)>>, G[t]>> \in Moves(c, G[t])
    BY <1>2, <1>3, <1>6 DEF LockMoves, Move, Owns
  <2> QED BY <1>4, <1>6, <2>1, SameMode DEF Lock, Next1, On, mutexes, conds, others
<1> QED BY <1>5, <1>6

LEMMA TryLockStep == ASSUME NEW G, Good(G), NEW t \in Thread, TryLock(t) PROVE Inv'
<1> DEFINE c == Head(stack[t])
           n == [G[t] EXCEPT !.ok = FALSE]
<1>1. /\ stack[t] # <<>> /\ c.at = "trylock" /\ G[t] \in Mode
      /\ Moves(c, G[t]) # {}
  BY Stands DEF TryLock
<1>2. c.on \in Mutex /\ Moves(c, G[t]) = TryMoves(G[t], c.on)
  BY <1>1, Rules DEF MutexPlace, MutexMoves
<1>3. /\ Free(G[t]) /\ c.on # "access" /\ G[t].ph[c.on] \in {"out", "own"}
      /\ owner[c.on] = t <=> G[t].ph[c.on] = "own"
  BY <1>1, <1>2 DEF TryMoves, Move, Owns, Good, Mutexes
<1>4. Values' BY DEF TryLock, Good, Types, Values, Result, mutexes, conds, others, history
<1>5. CASE owner[c.on] = Ready
  <2>1. <<<<Call("take", c.on)>>, G[t]>> \in Moves(c, G[t])
    BY <1>2, <1>3, <1>5, SyncAssumption DEF TryMoves, Move
  <2> QED BY <1>4, <1>5, <2>1, SameMode DEF TryLock, Next1, On, mutexes, conds, others
<1>6. CASE owner[c.on] # Ready
  <2>1. <<<<>>, n>> \in Moves(c, G[t]) BY <1>2, <1>3 DEF TryMoves, Move
  <2>2. n.ph = G[t].ph /\ n.rw = G[t].rw /\ n.once = G[t].once /\ n.bar = G[t].bar /\ n.ok = FALSE
    BY <1>1 DEF Mode
  <2>3. Turns(G, t, c, <<>>, n)
    BY <1>1, <1>6, <2>1, <2>2 DEF Turns, TryLock, Returns, Result, On, Good, Types, Values
  <2> QED BY <1>4, <2>2, <2>3, QuietStep DEF Inv, TryLock, mutexes, conds, others
<1> QED BY <1>5, <1>6

\* The condition variable of the program: nobody has promised anything about it.
LEMMA CondStep ==
    ASSUME NEW G, Good(G), NEW t \in Thread, On(t) = "cond",
           \/ Wait(t) \/ Notify(t) \/ LookForWaiters(t) \/ Block(t) \/ Timeout(t) \/ Leave(t)
           \/ Pass(t) \/ Snapshot(t) \/ Token(t) \/ Spin(t) \/ LetIn(t)
    PROVE  Inv'
<1> DEFINE c == Head(stack[t])
<1>1. PICK place : At(t, place) /\ place \in CondPlace
  BY DEF Wait, Block, Timeout, Leave, Pass, Notify, LookForWaiters, Snapshot, Token, Spin, LetIn,
         CondPlace
<1>2. /\ stack[t] # <<>> /\ c.at = place /\ G[t] \in Mode /\ Moves(c, G[t]) # {}
  BY <1>1, Stands
<1>3. Moves(c, G[t]) = CondMoves(c.at, G[t]) /\ Free(G[t])
  BY <1>1, <1>2, Rules DEF On, CondMoves, Move
<1>4. PICK calls : Then(t, calls) /\ <<calls, G[t]>> \in CondMoves(c.at, G[t])
  <2>1. CASE Wait(t)
    <3>1. CASE c.at = "wait"
      <4>1. Then(t, Waits("cond"))
        BY <2>1, <3>1 DEF Wait, On, At, Waits, MutexOf
      <4>2. <<Waits("cond"), G[t]>> \in CondMoves(c.at, G[t])
        BY <3>1, <1>2, <1>3 DEF CondMoves, Move
      <4> QED BY <4>1, <4>2
    <3>2. CASE c.at # "wait"
      <4>1. Then(t, TimedWaits("cond"))
        BY <2>1, <3>2 DEF Wait, On, At, TimedWaits, MutexOf
      <4>2. <<TimedWaits("cond"), G[t]>> \in CondMoves(c.at, G[t])
        BY <2>1, <3>2, <1>2, <1>3 DEF CondMoves, Move, Wait, At
      <4> QED BY <4>1, <4>2
    <3> QED BY <3>1, <3>2
  <2>2. CASE Notify(t)
    <3>1. \/ c.at = "signal" /\ Then(t, <<Call("if", "cond"), Call("let", "cond")>>)
          \/ c.at = "broadcast" /\ Then(t, <<Call("while", "cond"), Call("let", "cond")>>)
      BY <2>2 DEF Notify, At, On
    <3> QED BY <3>1, <1>3 DEF CondMoves, Move
  <2>3. CASE LookForWaiters(t)
    <3>1. /\ c.at \in {"if", "while"}
          /\ \/ Then(t, <<>>)
             \/ Then(t, Tokens("cond") \o
                          IF c.at = "while" THEN <<Call("while", "cond")>> ELSE <<>>)
      BY <2>3 DEF LookForWaiters, At, On, Returns, Tokens
    <3>2. Tokens("cond") \o <<>> = Tokens("cond") BY DEF Tokens
    <3> QED BY <3>1, <3>2, <1>3 DEF CondMoves, Move
  <2>4. CASE \/ Block(t) \/ Timeout(t) \/ Leave(t) \/ Pass(t) \/ Snapshot(t) \/ Token(t)
             \/ Spin(t) \/ LetIn(t)
    <3>1. /\ Then(t, <<>>)
          /\ c.at \in {"block", "timedblock", "leave", "pass", "snap", "token", "spin", "let"}
      BY <2>4 DEF Block, Timeout, Leave, Pass, Snapshot, Token, Spin, LetIn, Returns, At
    <3> QED BY <3>1, <1>3 DEF CondMoves, Move
  <2> QED BY <2>1, <2>2, <2>3, <2>4
<1>5. /\ UNCHANGED <<res, sem, owner, read_waiters, count, executed, history>>
      /\ \A u \in Thread : u # t => snap'[u] = snap[u]
      /\ waiters'["barrier"] = waiters["barrier"] /\ wait_block'["barrier"] = wait_block["barrier"]
      /\ Values'
  <2> USE DEF Good, Types, Values, mutexes, conds, others, history, Cond
  <2>1. CASE Wait(t) BY <2>1 DEF Wait
  <2>2. CASE Notify(t) \/ LookForWaiters(t) \/ Timeout(t) \/ Pass(t) \/ Spin(t) \/ LetIn(t)
    BY <2>2 DEF Notify, LookForWaiters, Timeout, Pass, Spin, LetIn
  <2>3. CASE Block(t) BY <2>3 DEF Block
  <2>4. CASE Leave(t) BY <2>4 DEF Leave
  <2>5. CASE Snapshot(t) BY <2>5 DEF Snapshot
  <2>6. CASE Token(t) BY <2>6 DEF Token
  <2> QED BY <2>1, <2>2, <2>3, <2>4, <2>5, <2>6
<1> QED BY <1>1, <1>3, <1>4, <1>5, SameMode DEF CondPlace

LEMMA RwLockStep == ASSUME NEW G, Good(G), NEW t \in Thread, RwLock(t) PROVE Inv'
<1> DEFINE c == Head(stack[t])
<1>1. PICK place \in {"rdlock", "tryrdlock", "wrlock", "trywrlock"} : At(t, place)
  BY DEF RwLock
<1>2. c.at = place /\ Moves(c, G[t]) # {} /\ Moves(c, G[t]) = RwMoves(place, G[t])
  BY <1>1, Stands, Rules DEF RwPlace
<1>3. PICK calls : Then(t, calls) /\ <<calls, G[t]>> \in Moves(c, G[t])
  BY <1>1, <1>2 DEF RwLock, At, RwMoves, Move
<1> QED
  BY <1>1, <1>3, SameMode DEF RwLock, Good, Types, Values, mutexes, conds, others, history

LEMMA UseStep == ASSUME NEW G, Good(G), NEW t \in Thread, Use(t) \/ Inside(t) PROVE Inv'
<1> DEFINE c == Head(stack[t])
<1>1. PICK place \in UsePlace \ {"iflocked"} : At(t, place) BY DEF Use, Inside, UsePlace
<1>2. c.at = place /\ Moves(c, G[t]) # {} /\ Moves(c, G[t]) = UseMoves(place, G[t])
  BY <1>1, Stands, Rules
<1>3. PICK calls : Then(t, calls) /\ <<calls, G[t]>> \in Moves(c, G[t])
  BY <1>1, <1>2 DEF Use, Inside, Returns, At, UseMoves, Move, UsePlace
<1> QED
  BY <1>1, <1>3, SameMode DEF Use, Inside, Good, Types, Values, mutexes, conds, others, history

\* A program that has not got the mutex goes past the two calls that depend on it.
LEMMA IfLockedStep == ASSUME NEW G, Good(G), NEW t \in Thread, IfLocked(t) PROVE Inv'
<1> DEFINE c == Head(stack[t])
<1>1. /\ stack[t] # <<>> /\ c.at = "iflocked" /\ G[t] \in Mode
      /\ Moves(c, G[t]) # {}
      /\ G[t].ok <=> res[t] = "ok"
  BY Stands DEF IfLocked
<1>2. Moves(c, G[t]) = UseMoves("iflocked", G[t]) BY <1>1, Rules DEF UsePlace
<1>3. Moves(c, G[t]) = {<< <<>>, G[t]>>} BY <1>1, <1>2 DEF UseMoves, Move
<1>4. Legal(stack'[t], G[t])
  <2>1. /\ Legal(stack[t], G[t]) /\ stack[t] \in Seq(Item)
        /\ \A x \in After(stack[t], G[t]) : Legal(x[1], x[2])
    BY <1>1, Goes DEF Good, Legals
  <2>2. CASE res[t] = "ok"
    <3>1. <<Tail(stack[t]), G[t]>> \in After(stack[t], G[t])
      <4>1. /\ << <<>>, G[t]>> \in Moves(c, G[t])
            /\ <<Tail(stack[t]), G[t]>> =
                  << << <<>>, G[t]>>[1] \o Tail(stack[t]), << <<>>, G[t]>>[2]>>
        BY <1>1, <1>3, <2>1
      <4>2. After(stack[t], G[t]) =
              {<<move[1] \o Tail(stack[t]), move[2]>> : move \in Moves(c, G[t])}
        BY <1>1, <2>2 DEF After
      <4> QED BY <4>1, <4>2, Zenon
    <3>2. Legal(Tail(stack[t]), G[t])
      <4>1. /\ <<Tail(stack[t]), G[t]>>[1] = Tail(stack[t])
            /\ <<Tail(stack[t]), G[t]>>[2] = G[t]
        OBVIOUS
      <4> QED BY <2>1, <3>1, <4>1, Zenon
    <3> QED BY <2>2, <3>2 DEF IfLocked, Good, Types
  <2>3. CASE res[t] # "ok"
    <3>1. <<SubSeq(stack[t], 4, Len(stack[t])), G[t]>> \in After(stack[t], G[t])
      BY <1>1, <2>3 DEF After
    <3>2. Legal(SubSeq(stack[t], 4, Len(stack[t])), G[t]) BY <2>1, <3>1
    <3> QED BY <2>3, <3>2 DEF IfLocked, Good, Types
  <2> QED BY <2>2, <2>3
<1>5. stack'[t] \in Seq(Item) BY <1>4, Goes
<1>6. Types(G)' /\ Legals(G)'
  BY <1>4, <1>5 DEF IfLocked, Good, Types, Values, Legals, mutexes, conds, others, history
<1>7. Mutexes(G)' /\ RwLocks(G)' /\ Onces(G)'
  BY DEF IfLocked, Good, Mutexes, RwLocks, Readers, Onces, mutexes, others, history
<1>8. ASSUME Rounds(G) PROVE Rounds(G)'
  BY <1>8 DEF IfLocked, Rounds, Counted, Round, Sleepers, Place, Handing, Passing, NobodyAwake,
     OneAwake, Quiet, conds, others, history
<1> QED BY <1>6, <1>7, <1>8 DEF Good, Inv

-----------------------------------------------------------------------------
(* Mutexes *)

\* The phase of the mutex x in n is ph, where it was that of G for t.
Phase(G, t, n, x, ph) == n.ph = [G[t].ph EXCEPT ![x] = ph]

\* The mutex x gets a phase for t; what the other objects need is that neither a writer,
\* nor the routine of pthread_once, nor a thread that wakes others is in the way.
LEMMA PhaseStep ==
    ASSUME NEW G, Good(G), NEW t \in Thread, NEW c, NEW calls, NEW n, NEW x \in Mutex, NEW ph,
           Turns(G, t, c, calls, n), Values', Mutexes([G EXCEPT ![t] = n])',
           Phase(G, t, n, x, ph), n.rw = G[t].rw, n.once = G[t].once,
           n.bar = G[t].bar,
           ph = "own" \/ /\ x = "block_mutex" => n.rw # "writer"
                         /\ x = "once" => n.once \notin {"first", "ran"}
                         /\ x = "access" => n.bar \notin {"past"} \cup Waking,
           UNCHANGED <<snap, conds, others, history>>
    PROVE  Inv'
<1>1. Types(G) /\ RwLocks(G) /\ Onces(G) BY DEF Good
<1>2. G[t] \in Mode /\ \A y \in Mutex : n.ph[y] = IF y = x THEN ph ELSE G[t].ph[y]
  BY <1>1 DEF Types, Mode, Phase
<1>3. RwLocks([G EXCEPT ![t] = n])'
  <2>1. n.rw = "writer" => Owns(n, "block_mutex")
    <3>1. G[t].rw = "writer" => Owns(G[t], "block_mutex") BY <1>1 DEF RwLocks
    <3> QED BY <3>1, <1>2 DEF Owns, Mutex
  <2> QED BY <1>1, <2>1, RwFrame DEF others
<1>4. Onces([G EXCEPT ![t] = n])'
  <2>1. n.once \in {"first", "ran"} => Owns(n, "once") BY <1>1, <1>2 DEF Onces, Owns, Mutex
  <2>2. UNCHANGED <<executed, ran>> BY DEF others, history
  <2> QED BY <1>1, <2>1, <2>2, OnceFrame
<1>5. ASSUME Rounds(G) PROVE Rounds([G EXCEPT ![t] = n])'
  <2>1. n.bar \in {"past"} \cup Waking => Owns(n, "access")
    BY <1>2, <1>5 DEF Rounds, Place, Owns, Mutex
  <2>2. /\ UNCHANGED <<count, arrived, left, serial, snap>>
        /\ waiters'["barrier"] = waiters["barrier"]
        /\ wait_block'["barrier"] = wait_block["barrier"]
    BY DEF conds, others, history
  <2> QED BY <1>1, <1>5, <2>1, <2>2, RoundFrame
<1> QED BY <1>3, <1>4, <1>5, NoticedStep DEF Good

\* What a thread is that makes a step with a mutex.
LEMMA AtMutex ==
    ASSUME NEW G, Good(G), NEW t \in Thread, NEW place \in MutexPlace, At(t, place)
    PROVE  /\ stack[t] # <<>> /\ Head(stack[t]).at = place /\ G[t] \in Mode
           /\ On(t) \in Mutex /\ On(t) = Head(stack[t]).on
           /\ Moves(Head(stack[t]), G[t]) # {}
           /\ Moves(Head(stack[t]), G[t]) = MutexMoves(place, On(t), G[t])
           /\ G[t].ok <=> res[t] = "ok"
BY Stands, Rules DEF On

Alone(G, t, x) == \A u \in Thread : u # t => G[u].ph[x] = "out"
OtherMutexes(x) == \A y \in Mutex : y # x => owner'[y] = owner[y] /\ sem'[y] = sem[y]

\* Of a mutex that no other thread uses.
LEMMA PhaseMutexes ==
    ASSUME NEW G, Types(G), Mutexes(G), NEW t \in Thread, NEW n, NEW x \in Mutex, NEW ph,
           Phase(G, t, n, x, ph),
           Alone(G, t, x), OtherMutexes(x),
           owner'[x] \notin Thread \ {t}, owner'[x] = t <=> ph = "own",
           sem'[x] = 1 => ph = "out"
    PROVE  Mutexes([G EXCEPT ![t] = n])'
<1> DEFINE H == [G EXCEPT ![t] = n]
<1>1. \A u \in Thread : \A y \in Mutex : H[u].ph[y] = IF u = t /\ y = x THEN ph ELSE G[u].ph[y]
  BY DEF Types, Mode, Phase
<1> HIDE DEF H
<1>2. ASSUME NEW y \in Mutex, y # x
      PROVE  /\ \A u \in Thread : owner'[y] = u <=> Owns(H[u], y)
             /\ sem'[y] = 1 => \A u \in Thread : H[u].ph[y] = "out"
             /\ \A u, v \in Thread : H[u].ph[y] # "out" /\ H[v].ph[y] # "out" => u = v
  <2>1. owner'[y] = owner[y] /\ sem'[y] = sem[y] BY <1>2 DEF OtherMutexes
  <2>2. \A u \in Thread : H[u].ph[y] = G[u].ph[y] BY <1>1, <1>2
  <2>3. /\ \A u \in Thread : owner[y] = u <=> Owns(G[u], y)
        /\ sem[y] = 1 => \A u \in Thread : G[u].ph[y] = "out"
        /\ \A u, v \in Thread : G[u].ph[y] # "out" /\ G[v].ph[y] # "out" => u = v
    BY DEF Mutexes
  <2> QED BY <2>1, <2>2, <2>3 DEF Owns
<1>3. /\ \A u \in Thread : owner'[x] = u <=> Owns(H[u], x)
      /\ sem'[x] = 1 => \A u \in Thread : H[u].ph[x] = "out"
      /\ \A u, v \in Thread : H[u].ph[x] # "out" /\ H[v].ph[x] # "out" => u = v
  BY <1>1 DEF Owns, Alone
<1>4. Mutexes(H)' BY <1>2, <1>3 DEF Mutexes, Owns
<1> QED BY <1>4 DEF H

LEMMA OwnStep == ASSUME NEW G, Good(G), NEW t \in Thread, Own(t) PROVE Inv'
<1>0. PICK x \in Mutex : x = On(t) BY AtMutex DEF Own, MutexPlace
<1> DEFINE c == Head(stack[t])
           n == [Sets(G[t], x, "own") EXCEPT !.ok = TRUE]
<1>1. /\ stack[t] # <<>> /\ c.at = "own" /\ G[t] \in Mode 
      /\ Moves(c, G[t]) # {} /\ Moves(c, G[t]) = OwnMoves(G[t], x)
  BY <1>0, AtMutex DEF Own, MutexPlace, MutexMoves
<1>2. G[t].ph[x] = "sem" /\ << <<>>, n>> \in Moves(c, G[t]) BY <1>1 DEF OwnMoves, Move
<1>3. owner[x] = Ready
  <2>1. owner[x] \in Thread \cup {Ready} BY <1>1 DEF Good, Types, Values
  <2>2. \A u \in Thread : /\ owner[x] = u <=> G[u].ph[x] = "own"
                          /\ G[t].ph[x] # "out" /\ G[u].ph[x] # "out" => t = u
    BY <1>1 DEF Good, Mutexes, Owns
  <2> QED BY <1>2, <2>1, <2>2
<1>4. /\ Phase(G, t, n, x, "own")
      /\ n.rw = G[t].rw /\ n.once = G[t].once /\ n.bar = G[t].bar /\ n.ok = TRUE
  BY <1>1 DEF Mode, Sets, Phase
<1>5. /\ owner' = [owner EXCEPT ![x] = t] /\ sem' = sem /\ Result(t, "ok") /\ Then(t, <<>>)
  BY <1>0, <1>1, <1>3 DEF Own, Returns, Good, Types, Values
<1>5a. UNCHANGED <<snap, conds, others, history>> BY DEF Own
<1>6. Values' BY <1>5, <1>5a DEF Result, Good, Types, Values, conds, others, history
<1>7. Turns(G, t, c, <<>>, n)
  BY <1>1, <1>2, <1>4, <1>5 DEF Turns, Result, Good, Types, Values
<1>8. Mutexes([G EXCEPT ![t] = n])'
  <2>1. Mutexes(G) /\ Types(G) BY DEF Good
  <2>2. Alone(G, t, x) /\ sem[x] # 1 BY <1>1, <1>2, <2>1 DEF Mutexes, Alone
  <2>3. OtherMutexes(x) /\ owner'[x] = t /\ sem'[x] # 1
    BY <1>1, <1>5, <2>1, <2>2 DEF Types, Values, OtherMutexes
  <2> HIDE DEF n
  <2> QED BY <1>1, <1>4, <2>1, <2>2, <2>3, PhaseMutexes
<1> HIDE DEF n, c
<1> QED BY <1>1, <1>4, <1>6, <1>7, <1>8, <1>5a, PhaseStep

LEMMA PostStep == ASSUME NEW G, Good(G), NEW t \in Thread, Post(t) PROVE Inv'
<1>1. PICK x \in Mutex : x = On(t) BY AtMutex DEF Post, MutexPlace
<1> DEFINE c == Head(stack[t])
           n == Sets(G[t], x, "out")
<1>2. /\ stack[t] # <<>> /\ c.at = "post" /\ G[t] \in Mode
      /\ Moves(c, G[t]) # {} /\ Moves(c, G[t]) = PostMoves(G[t], x)
      /\ G[t].ok <=> res[t] = "ok"
  BY <1>1, AtMutex DEF Post, MutexPlace, MutexMoves
<1>3. /\ G[t].ph[x] = "left" /\ In(G[t], x, {"counted", "home"})
      /\ << <<>>, n>> \in Moves(c, G[t])
  BY <1>2 DEF PostMoves, Move
<1>4. /\ Phase(G, t, n, x, "out")
      /\ n.rw = G[t].rw /\ n.once = G[t].once /\ n.bar = G[t].bar /\ n.ok = G[t].ok
  BY <1>2 DEF Mode, Sets, Phase
<1>5. Mutexes(G) /\ Types(G) /\ RwLocks(G) /\ Onces(G) BY DEF Good
<1>6. Alone(G, t, x) /\ sem[x] = 0 /\ owner[x] \notin Thread
  <2>1. Alone(G, t, x) BY <1>3, <1>5 DEF Mutexes, Alone
  <2>2. sem[x] = 0 BY <1>3, <1>5 DEF Mutexes, Types, Values
  <2>3. \A u \in Thread : G[u].ph[x] # "own" BY <1>3, <2>1 DEF Alone
  <2> QED BY <2>1, <2>2, <2>3, <1>5 DEF Mutexes, Owns
<1>7. /\ sem' = [sem EXCEPT ![x] = 1] /\ Then(t, <<>>)
      /\ UNCHANGED <<res, snap, owner, conds, others, history>>
  BY <1>1, <1>6 DEF Post, Returns
<1>8. Values' BY <1>5, <1>7 DEF Types, Values, conds, others, history
<1>9. Turns(G, t, c, <<>>, n) BY <1>2, <1>3, <1>4, <1>7 DEF Turns
<1>10. Mutexes([G EXCEPT ![t] = n])'
  <2>1. OtherMutexes(x) /\ owner'[x] \notin Thread
    BY <1>5, <1>6, <1>7 DEF Types, Values, OtherMutexes
  <2> HIDE DEF n
  <2> QED BY <1>4, <1>5, <1>6, <2>1, PhaseMutexes
<1>11. /\ x = "block_mutex" => n.rw # "writer"
       /\ x = "once" => n.once \notin {"first", "ran"}
       /\ x = "access" => n.bar \notin {"past"} \cup Waking
  BY <1>3, <1>4, <1>5 DEF RwLocks, Onces, Owns, In, Waking
<1> HIDE DEF n, c
<1> QED BY <1>4, <1>7, <1>8, <1>9, <1>10, <1>11, PhaseStep

LEMMA UnlockStep == ASSUME NEW G, Good(G), NEW t \in Thread, Unlock(t) PROVE Inv'
<1>1. PICK x \in Mutex : x = On(t) BY AtMutex DEF Unlock, MutexPlace
<1> DEFINE c == Head(stack[t])
           n == Sets(G[t], x, "left")
<1>2. /\ stack[t] # <<>> /\ c.at = "unlock" /\ G[t] \in Mode
      /\ Moves(c, G[t]) # {} /\ Moves(c, G[t]) = UnlockMoves(G[t], x)
      /\ G[t].ok <=> res[t] = "ok"
  BY <1>1, AtMutex DEF Unlock, MutexPlace, MutexMoves
<1>3. /\ MayUnlock(G[t], x)
      /\ \/ G[t].ph[x] = "own" /\ << <<Call("post", x)>>, n>> \in Moves(c, G[t])
         \/ G[t].ph[x] = "out" /\ << <<>>, G[t]>> \in Moves(c, G[t])
  BY <1>2 DEF UnlockMoves, Move, Owns
<1>4. Mutexes(G) /\ Types(G) BY DEF Good
<1>5. owner[x] = t <=> G[t].ph[x] = "own" BY <1>4 DEF Mutexes, Owns
<1>6. CASE G[t].ph[x] = "out"
  <2>1. Then(t, <<>>) /\ UNCHANGED <<res, snap, mutexes, conds, others, history>>
    BY <1>1, <1>5, <1>6 DEF Unlock, Returns, mutexes
  <2>2. Values' BY <1>4, <2>1 DEF Types, Values, mutexes, conds, others, history
  <2>3. At(t, "unlock") BY DEF Unlock
  <2>4. UNCHANGED <<res, snap, sem, owner, waiters, wait_block, read_waiters, count, executed,
                    history>>
    BY <2>1 DEF mutexes, conds, others
  <2>5. << <<>>, G[t]>> \in Moves(Head(stack[t]), G[t]) BY <1>3, <1>6
  <2> QED BY <2>1, <2>2, <2>3, <2>4, <2>5, SameMode
<1>7. CASE G[t].ph[x] = "own"
  <2>1. /\ Phase(G, t, n, x, "left")
        /\ n.rw = G[t].rw /\ n.once = G[t].once /\ n.bar = G[t].bar /\ n.ok = G[t].ok
    BY <1>2 DEF Mode, Sets, Phase
  <2>2. /\ owner' = [owner EXCEPT ![x] = Ready] /\ Then(t, <<Call("post", x)>>)
        /\ UNCHANGED <<res, snap, sem, conds, others, history>>
    BY <1>1, <1>5, <1>7 DEF Unlock, Next1
  <2>3. Values' BY <1>4, <2>2 DEF Types, Values, conds, others, history
  <2>4. Turns(G, t, c, <<Call("post", x)>>, n) BY <1>2, <1>3, <1>7, <2>1, <2>2 DEF Turns
  <2>5. Mutexes([G EXCEPT ![t] = n])'
    <3>1. Alone(G, t, x) /\ sem[x] # 1 BY <1>4, <1>7 DEF Mutexes, Alone
    <3>2. OtherMutexes(x) /\ owner'[x] = Ready /\ sem'[x] # 1
      BY <1>4, <2>2, <3>1 DEF Types, Values, OtherMutexes
    <3> HIDE DEF n
    <3> QED BY <1>4, <2>1, <3>1, <3>2, SyncAssumption, PhaseMutexes
  <2>6. /\ x = "block_mutex" => n.rw # "writer"
        /\ x = "once" => n.once \notin {"first", "ran"}
        /\ x = "access" => n.bar \notin {"past"} \cup Waking
    BY <1>3, <2>1 DEF MayUnlock, In, Waking
  <2> HIDE DEF n, c
  <2> QED BY <2>1, <2>2, <2>3, <2>4, <2>5, <2>6, PhaseStep
<1> QED BY <1>3, <1>6, <1>7

-----------------------------------------------------------------------------
(* Rounds of the barrier *)

Asleep(G) == \A u \in Thread : G[u].bar \notin Waking
OtherCalls(t) == \A u \in Thread : u # t => arrived'[u] = arrived[u] /\ left'[u] = left[u]

\* One thread at a time has the mutex of the barrier.
LEMMA OneWakes ==
    ASSUME NEW G, Mutexes(G), Rounds(G), NEW t \in Thread, NEW u \in Thread,
           G[t].bar \in {"past"} \cup Waking, G[u].bar \in {"past"} \cup Waking
    PROVE  t = u
<1>1. Owns(G[t], "access") /\ Owns(G[u], "access") BY DEF Rounds, Place
<1> QED BY <1>1 DEF Mutexes, Mutex, Owns

\* Who has not come yet, or has gone on, is waited for: nobody wakes the others.
LEMMA NobodyWakes ==
    ASSUME NEW G, Rounds(G), NEW t \in Thread, t \notin Counted(G)
    PROVE  Asleep(G)
BY DEF Rounds, Place, Asleep

LEMMA CalmStep ==
    ASSUME NEW G, Types(G), Rounds(G), Asleep(G), NEW t \in Thread, NEW n,
           n.bar \notin (Waking \ {"last"}) \cup {"awake"},
           OtherCalls(t), serial' = serial, wait_block'["barrier"] = wait_block["barrier"],
           Place([G EXCEPT ![t] = n], t)',
           count' = Cardinality(Counted([G EXCEPT ![t] = n])'),
           waiters'["barrier"] = Cardinality(Sleepers([G EXCEPT ![t] = n]))
    PROVE  Rounds([G EXCEPT ![t] = n])'
<1> DEFINE H == [G EXCEPT ![t] = n]
<1>1. H[t] = n /\ \A u \in Thread : u # t => H[u] = G[u] BY DEF Types
<1>2. Place(H, t)' OBVIOUS
<1> HIDE DEF H
<1>3. ASSUME NEW u \in Thread, u # t PROVE Place(H, u)'
  <2>1. Place(G, u) /\ H[u] = G[u] BY <1>1, <1>3 DEF Rounds
  <2>2. arrived'[u] = arrived[u] /\ left'[u] = left[u] BY <1>3 DEF OtherCalls
  <2>3. G[u].bar \notin Waking /\ ~(G[u].bar = "back" /\ arrived[u] = Round)
    BY <2>1 DEF Place, Asleep
  <2> QED BY <2>1, <2>2, <2>3 DEF Place, Round
<1>4. ASSUME NEW u \in Thread PROVE Handing(H, u)'
  BY <1>1 DEF Handing, Asleep, Waking
<1>5. Quiet(H)'
  <2>1. wait_block["barrier"] = 0 /\ NobodyAwake(G) BY DEF Rounds, Quiet, Asleep, Waking
  <2>2. NobodyAwake(H) BY <1>1, <2>1 DEF NobodyAwake
  <2> QED BY <2>1, <2>2 DEF Quiet, NobodyAwake
<1>6. \A u \in Thread : Place(H, u)' BY <1>2, <1>3
<1>7. count' = Cardinality(Counted(H)') /\ waiters'["barrier"] = Cardinality(Sleepers(H)')
  BY DEF H, Sleepers
<1>8. Rounds(H)' BY <1>4, <1>5, <1>6, <1>7 DEF Rounds
<1> QED BY <1>8 DEF H

\* The last thread to come goes on with waking the others.
LEMMA WakerStep ==
    ASSUME NEW G, Types(G), Mutexes(G), Rounds(G), NEW t \in Thread, NEW n,
           NEW H, H = [G EXCEPT ![t] = n],
           G[t].bar \in Waking, n.bar \in Waking, n.ph = G[t].ph,
           UNCHANGED <<count, arrived, left, serial>>, waiters'["barrier"] = waiters["barrier"],
           Handing(H, t)', Quiet(H)'
    PROVE  Rounds(H)'
<1>1. H[t] = n /\ \A u \in Thread : u # t => H[u] = G[u] BY DEF Types
<1>2. Counted(H)' = Counted(G) /\ Sleepers(H)' = Sleepers(G)
  BY <1>1 DEF Counted, Sleepers, Round, Waking
<1>3. ASSUME NEW u \in Thread PROVE Place(H, u)'
  <2>1. Place(G, u) BY DEF Rounds
  <2>2. CASE u = t
    BY <2>1, <2>2, <1>1, <1>2 DEF Place, Round, Waking, Owns
  <2>3. CASE u # t
    <3>1. \E v \in Thread : H[v].bar \in Waking BY <1>1
    <3> QED BY <2>1, <2>3, <3>1, <1>1, <1>2 DEF Place, Round
  <2> QED BY <2>2, <2>3
<1>4. ASSUME NEW u \in Thread PROVE Handing(H, u)'
  <2>1. CASE u = t BY <2>1
  <2>2. CASE u # t
    <3>1. G[u].bar \notin Waking BY <2>2, OneWakes
    <3> QED BY <2>2, <3>1, <1>1 DEF Handing, Waking
  <2> QED BY <2>1, <2>2
<1>5. count' = Cardinality(Counted(H)') /\ waiters'["barrier"] = Cardinality(Sleepers(H)')
  BY <1>2 DEF Rounds
<1> QED BY <1>3, <1>4, <1>5 DEF Rounds

\* Who has the semaphore again is past the reset: it was not free before that.
LEMMA TakeStep == ASSUME NEW G, Good(G), NEW t \in Thread, Take(t) PROVE Inv'
<1>1. PICK x \in Mutex : x = On(t) BY AtMutex DEF Take, MutexPlace
<1> DEFINE c == Head(stack[t])
           n == Taken(G[t], x)
           H == [G EXCEPT ![t] = n]
<1>2. /\ stack[t] # <<>> /\ c.at = "take" /\ G[t] \in Mode
      /\ Moves(c, G[t]) # {} /\ Moves(c, G[t]) = TakeMoves(G[t], x)
      /\ G[t].ok <=> res[t] = "ok"
  BY <1>1, AtMutex DEF Take, MutexPlace, MutexMoves
<1>3. /\ G[t].ph[x] = "out" /\ In(G[t], x, {"begun", "back"})
      /\ << <<Call("own", x)>>, n>> \in Moves(c, G[t])
  BY <1>2 DEF TakeMoves, Move
<1>4. /\ Phase(G, t, n, x, "sem") /\ n.rw = G[t].rw /\ n.once = G[t].once /\ n.ok = G[t].ok
      /\ n.bar = IF x = "access" /\ G[t].bar = "back" THEN "home" ELSE G[t].bar
  BY <1>2 DEF Mode, Sets, Phase, Taken
<1>5. Mutexes(G) /\ Types(G) /\ RwLocks(G) /\ Onces(G) BY DEF Good
<1>6. sem[x] = 1 /\ owner[x] \notin Thread /\ \A u \in Thread : G[u].ph[x] = "out"
  <2>1. sem[x] = 1 BY <1>1, <1>5 DEF Take, Types, Values
  <2> QED BY <2>1, <1>5 DEF Mutexes, Owns
<1>7. /\ sem' = [sem EXCEPT ![x] = 0] /\ Then(t, <<Call("own", x)>>)
      /\ UNCHANGED <<res, snap, owner, conds, others, history>>
  BY <1>1, <1>6 DEF Take, Next1
<1>8. Values' BY <1>5, <1>7 DEF Types, Values, conds, others, history
<1>9. Turns(G, t, c, <<Call("own", x)>>, n) BY <1>2, <1>3, <1>4, <1>7 DEF Turns
<1>10. Mutexes(H)'
  <2>1. OtherMutexes(x) /\ owner'[x] \notin Thread /\ sem'[x] = 0
    BY <1>5, <1>6, <1>7 DEF Types, Values, OtherMutexes
  <2>2. Alone(G, t, x) BY <1>6 DEF Alone
  <2> HIDE DEF n
  <2> QED BY <1>4, <1>5, <2>1, <2>2, PhaseMutexes
<1>11. CASE n.bar = G[t].bar
  <2>1. /\ x = "block_mutex" => n.rw # "writer"
        /\ x = "once" => n.once \notin {"first", "ran"}
        /\ x = "access" => n.bar \notin {"past"} \cup Waking
    BY <1>3, <1>4, <1>5, <1>11 DEF RwLocks, Onces, Owns, In, Waking
  <2> HIDE DEF n, c
  <2> QED BY <1>4, <1>7, <1>8, <1>9, <1>10, <1>11, <2>1, PhaseStep
<1>12. CASE x = "access" /\ G[t].bar = "back" /\ n.bar = "home"
  <2>1. RwLocks(H)'
    <3>1. n.rw = "writer" => Owns(n, "block_mutex")
      BY <1>2, <1>4, <1>5, <1>12 DEF RwLocks, Owns, Phase, Mode, Mutex
    <3> HIDE DEF n
    <3> QED BY <1>4, <1>5, <1>7, <3>1, RwFrame DEF others
  <2>2. Onces(H)'
    <3>1. n.once \in {"first", "ran"} => Owns(n, "once")
      BY <1>2, <1>4, <1>5, <1>12 DEF Onces, Owns, Phase, Mode, Mutex
    <3>2. UNCHANGED <<executed, ran>> BY <1>7 DEF others, history
    <3> HIDE DEF n
    <3> QED BY <1>4, <1>5, <3>1, <3>2, OnceFrame
  <2>3. ASSUME Rounds(G) PROVE Rounds(H)'
    <3>1. Asleep(G)
      BY <1>6, <1>12, <2>3 DEF Rounds, Place, Owns, Asleep
    <3>2. arrived[t] = serial /\ left[t] = serial - 1
      BY <1>5, <1>12, <2>3, <3>1 DEF Rounds, Place, Asleep, Types, Values
    <3>3. /\ UNCHANGED <<count, arrived, left, serial>>
          /\ waiters'["barrier"] = waiters["barrier"]
          /\ wait_block'["barrier"] = wait_block["barrier"]
      BY <1>7 DEF conds, others, history
    <3>4. H[t] = n /\ \A u \in Thread : u # t => H[u] = G[u] BY <1>5 DEF Types
    <3> HIDE DEF n, H
    <3>5. Place(H, t)' BY <1>12, <3>2, <3>3, <3>4 DEF Place, Waking
    <3>6. Counted(H)' = Counted(G) /\ Sleepers(H) = Sleepers(G)
      BY <1>5, <1>12, <3>2, <3>3, <3>4 DEF Counted, Sleepers, Round, Types, Values
    <3>7. count' = Cardinality(Counted(H)') /\ waiters'["barrier"] = Cardinality(Sleepers(H))
      BY <2>3, <3>3, <3>6 DEF Rounds
    <3>8. OtherCalls(t) /\ n.bar \notin (Waking \ {"last"}) \cup {"awake"}
      BY <1>12, <3>3 DEF OtherCalls, Waking
    <3> QED BY <1>5, <2>3, <3>1, <3>3, <3>5, <3>7, <3>8, CalmStep DEF H
  <2> HIDE DEF n, c
  <2> QED BY <1>8, <1>9, <1>10, <2>1, <2>2, <2>3, NoticedStep DEF Good
<1> QED BY <1>4, <1>11, <1>12

-----------------------------------------------------------------------------
(* Read-write locks and pthread_once *)

LEMMA RwStep ==
    ASSUME NEW G, Good(G), NEW t \in Thread, NEW c, NEW calls, NEW n,
           Turns(G, t, c, calls, n), Values',
           n.ph = G[t].ph, n.once = G[t].once, n.bar = G[t].bar,
           UNCHANGED <<snap, mutexes, conds, count, executed, history>>,
           RwLocks([G EXCEPT ![t] = n])'
    PROVE  Inv'
<1>1. Types(G) /\ Mutexes(G) /\ Onces(G) BY DEF Good
<1>2. Mutexes([G EXCEPT ![t] = n])' BY <1>1, MutexFrame DEF mutexes
<1>3. Onces([G EXCEPT ![t] = n])'
  <2>1. n.once \in {"first", "ran"} => Owns(n, "once") BY <1>1 DEF Onces, Owns
  <2>2. UNCHANGED <<executed, ran>> BY DEF history
  <2> QED BY <1>1, <2>1, <2>2, OnceFrame
<1>4. ASSUME Rounds(G) PROVE Rounds([G EXCEPT ![t] = n])'
  <2>1. n.bar \in {"past"} \cup Waking => Owns(n, "access") BY <1>4 DEF Rounds, Place, Owns
  <2>2. /\ UNCHANGED <<count, arrived, left, serial, snap>>
        /\ waiters'["barrier"] = waiters["barrier"]
        /\ wait_block'["barrier"] = wait_block["barrier"]
    BY DEF conds, history
  <2> QED BY <1>1, <1>4, <2>1, <2>2, RoundFrame
<1> QED BY <1>2, <1>3, <1>4, NoticedStep DEF Good

LEMMA Two == ASSUME NEW a, NEW b PROVE <<a>> \o <<b>> = <<a, b>>
<1>1. <<a>> \in Seq({a, b}) /\ <<b>> \in Seq({a, b}) /\ <<a, b>> \in Seq({a, b}) OBVIOUS
<1>2. Len(<<a>>) = 1 /\ Len(<<b>>) = 1 /\ Len(<<a, b>>) = 2 OBVIOUS
<1>3. <<a>> \o <<b>> \in Seq({a, b}) /\ Len(<<a>> \o <<b>>) = 2 BY <1>1, <1>2
<1>4. \A i \in 1..2 : (<<a>> \o <<b>>)[i] = <<a, b>>[i] BY <1>1, <1>2
<1> QED BY <1>1, <1>2, <1>3, <1>4, SeqEqual

\* What a thread is that makes a step with the read-write lock.
LEMMA AtRw ==
    ASSUME NEW G, Good(G), NEW t \in Thread, NEW place \in RwPlace, At(t, place)
    PROVE  /\ stack[t] # <<>> /\ Head(stack[t]).at = place /\ G[t] \in Mode
           /\ Moves(Head(stack[t]), G[t]) # {}
           /\ Moves(Head(stack[t]), G[t]) = RwMoves(place, G[t])
           /\ G[t].ok <=> res[t] = "ok"
BY Stands, Rules

\* A writer finds no reader while it has the block_mutex, and keeps it.
LEMMA WriterStep ==
    ASSUME NEW G, Good(G), NEW t \in Thread, RwLocked(t), At(t, "writer") \/ At(t, "trywriter")
    PROVE  Inv'
<1> DEFINE c == Head(stack[t])
           n == [G[t] EXCEPT !.rw = "writer"]
           H == [G EXCEPT ![t] = n]
           f == [G[t] EXCEPT !.ok = FALSE]
<1>1. PICK place \in {"writer", "trywriter"} : At(t, place) OBVIOUS
<1>2. /\ stack[t] # <<>> /\ c.at = place /\ G[t] \in Mode
      /\ Moves(c, G[t]) # {} /\ Moves(c, G[t]) = RwMoves(place, G[t])
      /\ G[t].ok <=> res[t] = "ok"
  BY <1>1, AtRw DEF RwPlace
<1>3. Values' BY DEF RwLocked, Good, Types, Values, Result, mutexes, conds, others, history
<1>4. UNCHANGED <<snap, mutexes, conds, others, history>> BY DEF RwLocked
<1>5. /\ UNCHANGED <<sem, owner, read_waiters, count, executed, history, snap>>
      /\ waiters'["barrier"] = waiters["barrier"]
      /\ wait_block'["barrier"] = wait_block["barrier"]
  BY <1>4 DEF mutexes, conds, others
<1>6. res \in [Thread -> {"ok", "busy", "deadlock", "perm"}] BY DEF Good, Types, Values
<1>7. /\ n.ph = G[t].ph /\ n.once = G[t].once /\ n.bar = G[t].bar /\ n.ok = G[t].ok
      /\ n.rw = "writer"
      /\ f.ph = G[t].ph /\ f.once = G[t].once /\ f.bar = G[t].bar /\ f.ok = FALSE
      /\ f.rw = G[t].rw
  BY <1>2 DEF Mode
<1>8. CASE read_waiters = 0 /\ res[t] = "ok"
  <2>1. Owns(G[t], "block_mutex") /\ G[t].rw = "-" /\ << <<>>, n>> \in Moves(c, G[t])
    BY <1>1, <1>2, <1>8 DEF RwMoves, Move
  <2>2. Then(t, <<>>) /\ res' = res
    BY <1>1, <1>2, <1>6, <1>8 DEF RwLocked, At, Returns, Result
  <2>3. Turns(G, t, c, <<>>, n) BY <1>1, <1>2, <1>7, <2>1, <2>2 DEF Turns
  <2>4. RwLocks(H)'
    <3>1. RwLocks(G) /\ Types(G) BY DEF Good
    <3>2. H[t] = n /\ \A u \in Thread : u # t => H[u] = G[u] BY <3>1 DEF Types
    <3>3. Owns(n, "block_mutex") BY <1>7, <2>1 DEF Owns
    <3> HIDE DEF n, H
    <3>4. Readers(H) = Readers(G) BY <1>7, <2>1, <3>2 DEF Readers
    <3> QED BY <1>5, <1>8, <3>1, <3>2, <3>3, <3>4 DEF RwLocks, Readers
  <2> HIDE DEF n, c
  <2> QED BY <1>3, <1>4, <1>7, <2>3, <2>4, RwStep DEF others
<1>9. CASE place = "writer" /\ ~(read_waiters = 0 /\ res[t] = "ok")
  <2>1. /\ res[t] = "ok"
        /\ <<<<Block_mutex("unlock"), Do("wrlock")>>, G[t]>> \in Moves(c, G[t])
    BY <1>2, <1>9 DEF RwMoves, Move
  <2>2. /\ Then(t, <<Block_mutex("unlock"), Do("wrlock")>>) /\ res' = res
    <3>1. /\ Then(t, <<Block_mutex("unlock")>> \o <<Do("wrlock")>>) /\ Result(t, "ok")
      BY <1>2, <1>9, <2>1 DEF RwLocked, At
    <3>2. <<Block_mutex("unlock")>> \o <<Do("wrlock")>> = <<Block_mutex("unlock"), Do("wrlock")>>
      BY Two
    <3> QED BY <3>1, <3>2, <2>1, <1>6 DEF Result
  <2> QED BY <1>1, <1>3, <1>5, <1>9, <2>1, <2>2, SameMode
<1>10. CASE place = "trywriter" /\ res[t] # "ok"
  <2>1. << <<>>, G[t]>> \in Moves(c, G[t]) BY <1>2, <1>10 DEF RwMoves, Move
  <2>2. Then(t, <<>>) /\ res' = res BY <1>2, <1>10 DEF RwLocked, At, Returns
  <2> QED BY <1>1, <1>3, <1>5, <1>10, <2>1, <2>2, SameMode
<1>11. CASE place = "trywriter" /\ res[t] = "ok" /\ read_waiters # 0
  <2>1. <<<<Block_mutex("unlock")>>, f>> \in Moves(c, G[t])
    BY <1>2, <1>11 DEF RwMoves, Move
  <2>2. Then(t, <<Block_mutex("unlock")>>) /\ Result(t, "busy")
    BY <1>2, <1>11 DEF RwLocked, At
  <2>3. Turns(G, t, c, <<Block_mutex("unlock")>>, f)
    BY <1>2, <1>6, <1>7, <1>11, <2>1, <2>2 DEF Turns, Result
  <2> HIDE DEF f, c
  <2> QED BY <1>3, <1>5, <1>7, <2>3, QuietStep DEF Inv
<1> QED BY <1>1, <1>8, <1>9, <1>10, <1>11

LEMMA ReaderStep ==
    ASSUME NEW G, Good(G), NEW t \in Thread, RwLocked(t), At(t, "reader") PROVE Inv'
<1> DEFINE c == Head(stack[t])
<1>1. /\ c.at = "reader" /\ G[t] \in Mode /\ stack[t] # <<>>
      /\ Moves(c, G[t]) # {} /\ Moves(c, G[t]) = RwMoves("reader", G[t])
      /\ G[t].ok <=> res[t] = "ok"
  BY AtRw DEF RwPlace
<1>2. /\ UNCHANGED <<res, sem, owner, read_waiters, count, executed, history, snap>>
      /\ waiters'["barrier"] = waiters["barrier"]
      /\ wait_block'["barrier"] = wait_block["barrier"]
  BY <1>1 DEF RwLocked, At, mutexes, conds, others
<1>3. Values' BY <1>2 DEF RwLocked, Good, Types, Values, mutexes, conds, others, history
<1>4. PICK calls : Then(t, calls) /\ <<calls, G[t]>> \in Moves(c, G[t])
  <2>1. Then(t, IF res[t] = "ok" THEN CountReader ELSE <<>>) BY <1>1 DEF RwLocked, At
  <2> QED BY <1>1, <2>1 DEF RwMoves, Move
<1> QED BY <1>2, <1>3, <1>4, SameMode

LEMMA CountInStep == ASSUME NEW G, Good(G), NEW t \in Thread, CountIn(t) PROVE Inv'
<1> DEFINE c == Head(stack[t])
           n == [G[t] EXCEPT !.rw = "reader"]
           H == [G EXCEPT ![t] = n]
<1>1. /\ stack[t] # <<>> /\ c.at = "count" /\ G[t] \in Mode
      /\ Moves(c, G[t]) # {} /\ Moves(c, G[t]) = RwMoves("count", G[t])
      /\ G[t].ok <=> res[t] = "ok"
  BY AtRw DEF RwPlace, CountIn
<1>2. /\ Owns(G[t], "block_mutex") /\ G[t].rw = "-" /\ << <<>>, n>> \in Moves(c, G[t])
  BY <1>1 DEF RwMoves, Move
<1>3. /\ n.ph = G[t].ph /\ n.once = G[t].once /\ n.bar = G[t].bar /\ n.ok = G[t].ok
      /\ n.rw = "reader"
  BY <1>1 DEF Mode
<1>4. /\ read_waiters' = read_waiters + 1
      /\ UNCHANGED <<res, snap, mutexes, conds, count, executed, history>> /\ Then(t, <<>>)
  BY DEF CountIn, Returns
<1>5. RwLocks(G) /\ Types(G) /\ Mutexes(G) /\ IsFiniteSet(Thread) BY DEF Good
<1>6. Values' BY <1>4, <1>5 DEF Types, Values, mutexes, conds, history
<1>7. Turns(G, t, c, <<>>, n) BY <1>1, <1>2, <1>3, <1>4 DEF Turns
<1>8. RwLocks(H)'
  <2>1. H[t] = n /\ \A u \in Thread : u # t => H[u] = G[u] BY <1>5 DEF Types
  <2> HIDE DEF n, H
  <2>2. Readers(H) = Readers(G) \cup {t} /\ t \notin Readers(G) /\ IsFiniteSet(Readers(G))
    <3>1. IsFiniteSet(Readers(G)) BY <1>5, FS_Subset DEF Readers
    <3> QED BY <1>2, <1>3, <2>1, <3>1 DEF Readers
  <2>3. Cardinality(Readers(H)) = Cardinality(Readers(G)) + 1 BY <2>2, FS_AddElement
  <2>4. ASSUME NEW u \in Thread PROVE H[u].rw # "writer"
    <3>1. G[u].rw = "writer" => u = t
      BY <1>2, <1>5 DEF RwLocks, Mutexes, Mutex, Owns
    <3> QED BY <1>2, <1>3, <2>1, <3>1
  <2> QED BY <1>4, <1>5, <2>3, <2>4 DEF RwLocks, Readers
<1> HIDE DEF n, c
<1> QED BY <1>3, <1>4, <1>6, <1>7, <1>8, RwStep

LEMMA RwUnlockStep == ASSUME NEW G, Good(G), NEW t \in Thread, RwUnlock(t) PROVE Inv'
<1> DEFINE c == Head(stack[t])
           n == [G[t] EXCEPT !.rw = "-"]
           H == [G EXCEPT ![t] = n]
<1>1. /\ stack[t] # <<>> /\ c.at = "rwunlock" /\ G[t] \in Mode
      /\ Moves(c, G[t]) # {} /\ Moves(c, G[t]) = RwMoves("rwunlock", G[t])
      /\ G[t].ok <=> res[t] = "ok"
  BY AtRw DEF RwPlace, RwUnlock
<1>2. RwLocks(G) /\ Types(G) /\ Mutexes(G) BY DEF Good
<1>3. owner["block_mutex"] = t <=> Owns(G[t], "block_mutex") BY <1>2 DEF Mutexes, Mutex
<1>4. UNCHANGED <<res, snap, mutexes, conds, others, history>> BY DEF RwUnlock
<1>5. Values' BY <1>4 DEF RwUnlock, Good, Types, Values, mutexes, conds, others, history
<1>6. CASE owner["block_mutex"] = t
  <2>1. G[t].rw = "writer" /\ << <<Block_mutex("unlock")>>, n>> \in Moves(c, G[t])
    BY <1>1, <1>3, <1>6 DEF RwMoves, Move, Owns
  <2>2. /\ n.ph = G[t].ph /\ n.once = G[t].once /\ n.bar = G[t].bar /\ n.ok = G[t].ok
        /\ n.rw = "-"
    BY <1>1 DEF Mode
  <2>3. Then(t, <<Block_mutex("unlock")>>) BY <1>6 DEF RwUnlock
  <2>4. Turns(G, t, c, <<Block_mutex("unlock")>>, n) BY <1>1, <1>4, <2>1, <2>2, <2>3 DEF Turns
  <2>5. RwLocks(H)'
    <3>1. H[t] = n /\ \A u \in Thread : u # t => H[u] = G[u] BY <1>2 DEF Types
    <3> HIDE DEF n, H
    <3>2. Readers(H) = Readers(G) BY <2>1, <2>2, <3>1 DEF Readers
    <3> QED BY <1>2, <1>4, <2>2, <3>1, <3>2 DEF RwLocks, Readers, others
  <2> HIDE DEF n, c
  <2> QED BY <1>4, <1>5, <2>2, <2>4, <2>5, RwStep DEF others
<1>7. CASE owner["block_mutex"] # t
  <2> DEFINE calls == <<Block_mutex("lock"), Do("discount"), Block_mutex("unlock")>>
  <2>1. <<calls, G[t]>> \in Moves(c, G[t]) BY <1>1, <1>3, <1>7 DEF RwMoves, Move, Owns
  <2>2. Then(t, calls) /\ At(t, "rwunlock") BY <1>7 DEF RwUnlock
  <2>3. /\ UNCHANGED <<res, sem, owner, read_waiters, count, executed, history, snap>>
        /\ waiters'["barrier"] = waiters["barrier"]
        /\ wait_block'["barrier"] = wait_block["barrier"]
    BY <1>4 DEF mutexes, conds, others
  <2> HIDE DEF calls
  <2> QED BY <1>5, <2>1, <2>2, <2>3, SameMode
<1> QED BY <1>6, <1>7

\* A reader that goes is one of those counted.
LEMMA CountOutStep == ASSUME NEW G, Good(G), NEW t \in Thread, CountOut(t) PROVE Inv'
<1> DEFINE c == Head(stack[t])
           n == [G[t] EXCEPT !.rw = "-"]
           H == [G EXCEPT ![t] = n]
<1>1. /\ stack[t] # <<>> /\ c.at = "discount" /\ G[t] \in Mode
      /\ Moves(c, G[t]) # {} /\ Moves(c, G[t]) = RwMoves("discount", G[t])
      /\ G[t].ok <=> res[t] = "ok"
  BY AtRw DEF RwPlace, CountOut
<1>2. G[t].rw = "reader" /\ << <<>>, n>> \in Moves(c, G[t]) BY <1>1 DEF RwMoves, Move
<1>3. /\ n.ph = G[t].ph /\ n.once = G[t].once /\ n.bar = G[t].bar /\ n.ok = G[t].ok
      /\ n.rw = "-"
  BY <1>1 DEF Mode
<1>4. RwLocks(G) /\ Types(G) /\ IsFiniteSet(Thread) BY DEF Good
<1>5. t \in Readers(G) /\ IsFiniteSet(Readers(G)) /\ Cardinality(Readers(G)) \in Nat
  <2>1. IsFiniteSet(Readers(G)) BY <1>4, FS_Subset DEF Readers
  <2> QED BY <1>2, <2>1, FS_CardinalityType DEF Readers
<1>6. Cardinality(Readers(G) \ {t}) = Cardinality(Readers(G)) - 1 /\ read_waiters > 0
  <2>1. Cardinality(Readers(G) \ {t}) = Cardinality(Readers(G)) - 1 BY <1>5, FS_RemoveElement
  <2>2. Cardinality(Readers(G)) # 0 BY <1>5, FS_EmptySet
  <2> QED BY <1>4, <1>5, <2>1, <2>2 DEF RwLocks
<1>7. /\ read_waiters' = read_waiters - 1 /\ Then(t, <<>>)
      /\ UNCHANGED <<res, snap, mutexes, conds, count, executed, history>>
  BY <1>6 DEF CountOut, Returns
<1>8. Values' BY <1>4, <1>7 DEF Types, Values, mutexes, conds, history
<1>9. Turns(G, t, c, <<>>, n) BY <1>1, <1>2, <1>3, <1>7 DEF Turns
<1>10. RwLocks(H)'
  <2>1. H[t] = n /\ \A u \in Thread : u # t => H[u] = G[u] BY <1>4 DEF Types
  <2> HIDE DEF n, H
  <2>2. Readers(H) = Readers(G) \ {t} BY <1>3, <2>1 DEF Readers
  <2>3. \A u \in Thread : H[u].rw # "writer" BY <1>3, <1>4, <1>6, <2>1 DEF RwLocks
  <2> QED BY <1>4, <1>6, <1>7, <2>2, <2>3 DEF RwLocks, Readers
<1> HIDE DEF n, c
<1> QED BY <1>3, <1>7, <1>8, <1>9, <1>10, RwStep

LEMMA OnceStep ==
    ASSUME NEW G, Good(G), NEW t \in Thread, NEW c, NEW calls, NEW n,
           Turns(G, t, c, calls, n), Values',
           n.ph = G[t].ph, n.rw = G[t].rw, n.bar = G[t].bar,
           UNCHANGED <<snap, mutexes, conds, read_waiters, count, arrived, left, serial>>,
           Onces([G EXCEPT ![t] = n])'
    PROVE  Inv'
<1>1. Types(G) /\ Mutexes(G) /\ RwLocks(G) BY DEF Good
<1>2. Mutexes([G EXCEPT ![t] = n])' BY <1>1, MutexFrame DEF mutexes
<1>3. RwLocks([G EXCEPT ![t] = n])'
  <2>1. n.rw = "writer" => Owns(n, "block_mutex") BY <1>1 DEF RwLocks, Owns
  <2> QED BY <1>1, <2>1, RwFrame
<1>4. ASSUME Rounds(G) PROVE Rounds([G EXCEPT ![t] = n])'
  <2>1. n.bar \in {"past"} \cup Waking => Owns(n, "access") BY <1>4 DEF Rounds, Place, Owns
  <2>2. /\ waiters'["barrier"] = waiters["barrier"]
        /\ wait_block'["barrier"] = wait_block["barrier"]
    BY DEF conds
  <2> QED BY <1>1, <1>4, <2>1, <2>2, RoundFrame
<1> QED BY <1>2, <1>3, <1>4, NoticedStep DEF Good

\* Who has the mutex of pthread_once is the only one to look at executed and to set it.
LEMMA OneChecks ==
    ASSUME NEW G, Mutexes(G), Onces(G), NEW t \in Thread, NEW u \in Thread,
           Owns(G[t], "once"), G[u].once \in {"first", "ran"}
    PROVE  u = t
BY DEF Mutexes, Onces, Owns, Mutex

LEMMA AtOnce ==
    ASSUME NEW G, Good(G), NEW t \in Thread, NEW place \in OncePlace, At(t, place)
    PROVE  /\ stack[t] # <<>> /\ Head(stack[t]).at = place /\ G[t] \in Mode
           /\ Moves(Head(stack[t]), G[t]) # {}
           /\ Moves(Head(stack[t]), G[t]) = OnceMoves(place, G[t])
           /\ G[t].ok <=> res[t] = "ok"
BY Stands, Rules

LEMMA CheckStep == ASSUME NEW G, Good(G), NEW t \in Thread, Once(t) PROVE Inv'
<1> DEFINE c == Head(stack[t])
<1>1. Types(G) /\ Mutexes(G) /\ Onces(G) BY DEF Good
<1>2. UNCHANGED <<res, snap, mutexes, conds, others, history>> BY DEF Once
<1>3. Values' BY <1>1, <1>2 DEF Types, Values, mutexes, conds, others, history
<1>4. CASE At(t, "once")
  <2> DEFINE calls == <<Call("lock", "once"), Do("check"), Call("unlock", "once")>>
  <2>0. Moves(c, G[t]) # {} /\ Moves(c, G[t]) = OnceMoves("once", G[t])
    BY <1>4, AtOnce DEF OncePlace
  <2>1. <<calls, G[t]>> \in Moves(c, G[t]) BY <2>0 DEF OnceMoves, Move
  <2>2. Then(t, calls) BY <1>4 DEF Once, At
  <2>3. /\ UNCHANGED <<res, sem, owner, read_waiters, count, executed, history, snap>>
        /\ waiters'["barrier"] = waiters["barrier"]
        /\ wait_block'["barrier"] = wait_block["barrier"]
    BY <1>2 DEF mutexes, conds, others
  <2> HIDE DEF calls
  <2> QED BY <1>3, <1>4, <2>1, <2>2, <2>3, SameMode
<1>5. CASE At(t, "check")
  <2>1. /\ stack[t] # <<>> /\ c.at = "check" /\ G[t] \in Mode
        /\ Moves(c, G[t]) # {} /\ Moves(c, G[t]) = OnceMoves("check", G[t])
        /\ G[t].ok <=> res[t] = "ok"
    BY <1>5, AtOnce DEF OncePlace
  <2>2. PICK b \in BOOLEAN : b = executed BY <1>1 DEF Types, Values
  <2> DEFINE calls == IF b THEN <<>> ELSE <<Do("routine"), Do("executed")>>
             n == [G[t] EXCEPT !.once = IF b THEN "knows" ELSE "first"]
             H == [G EXCEPT ![t] = n]
  <2>3. /\ Owns(G[t], "once") /\ G[t].once \in {"-", "knows"} /\ <<calls, n>> \in Moves(c, G[t])
    BY <2>1 DEF OnceMoves, Move
  <2>4. /\ n.ph = G[t].ph /\ n.rw = G[t].rw /\ n.bar = G[t].bar /\ n.ok = G[t].ok
        /\ n.once = IF b THEN "knows" ELSE "first"
    BY <2>1 DEF Mode
  <2>5. Then(t, calls) BY <1>5, <2>2 DEF Once, At
  <2>6. Turns(G, t, c, calls, n) BY <1>2, <2>1, <2>3, <2>4, <2>5 DEF Turns
  <2>7. Onces(H)'
    <3>1. H[t] = n /\ \A u \in Thread : u # t => H[u] = G[u] BY <1>1 DEF Types
    <3>2. \A u \in Thread : G[u].once \notin {"first", "ran"} BY <1>1, <2>3, OneChecks
    <3>3. ~executed => ran = 0 BY <1>1, <3>2 DEF Onces
    <3>4. executed' = executed /\ ran' = ran BY <1>2 DEF others, history
    <3>5. Owns(n, "once") BY <2>3, <2>4 DEF Owns
    <3> HIDE DEF n, H
    <3> QED BY <1>1, <2>2, <2>4, <3>1, <3>2, <3>3, <3>4, <3>5 DEF Onces
  <2>8. UNCHANGED <<snap, mutexes, conds, read_waiters, count, arrived, left, serial>>
    BY <1>2 DEF others, history
  <2> HIDE DEF n, c, calls
  <2> QED BY <1>3, <2>4, <2>6, <2>7, <2>8, OnceStep
<1> QED BY <1>4, <1>5 DEF Once

LEMMA RoutineStep ==
    ASSUME NEW G, Good(G), NEW t \in Thread, Routine(t) \/ Executed(t) PROVE Inv'
<1>1. Types(G) /\ Mutexes(G) /\ Onces(G) BY DEF Good
<1>2. PICK place \in {"routine", "executed"} :
         /\ At(t, place)
         /\ \/ Routine(t) /\ place = "routine"
            \/ Executed(t) /\ place = "executed"
  BY DEF Routine, Executed
<1> DEFINE c == Head(stack[t])
           n == [G[t] EXCEPT !.once = IF place = "routine" THEN "ran" ELSE "knows"]
           H == [G EXCEPT ![t] = n]
<1>3. /\ stack[t] # <<>> /\ c.at = place /\ G[t] \in Mode
      /\ Moves(c, G[t]) # {} /\ Moves(c, G[t]) = OnceMoves(place, G[t])
      /\ G[t].ok <=> res[t] = "ok"
  BY <1>2, AtOnce DEF OncePlace
<1>4. /\ G[t].once = IF place = "routine" THEN "first" ELSE "ran"
      /\ << <<>>, n>> \in Moves(c, G[t])
  BY <1>3 DEF OnceMoves, Move
<1>5. /\ n.ph = G[t].ph /\ n.rw = G[t].rw /\ n.bar = G[t].bar /\ n.ok = G[t].ok
      /\ n.once = IF place = "routine" THEN "ran" ELSE "knows"
  BY <1>3 DEF Mode
<1>6. /\ Then(t, <<>>)
      /\ UNCHANGED <<res, snap, mutexes, conds, read_waiters, count, arrived, left, serial>>
      /\ IF place = "routine" THEN ran' = ran + 1 /\ executed' = executed
                              ELSE ran' = ran /\ executed' = TRUE
  BY <1>2 DEF Routine, Executed, Returns, others, history
<1>7. Values'
  <2>1. ran' \in Int BY <1>1, <1>6 DEF Types, Values
  <2>2. executed \in BOOLEAN BY <1>1 DEF Types, Values
  <2>3. executed' \in BOOLEAN
    <3>1. CASE place = "routine" BY <1>6, <2>2, <3>1
    <3>2. CASE place # "routine" BY <1>6, <3>2
    <3> QED BY <3>1, <3>2
  <2> QED BY <1>1, <1>6, <2>1, <2>3 DEF Types, Values, mutexes, conds
<1>8. Turns(G, t, c, <<>>, n) BY <1>3, <1>4, <1>5, <1>6 DEF Turns
<1>9. Onces(H)'
  <2>1. H[t] = n /\ \A u \in Thread : u # t => H[u] = G[u] BY <1>1 DEF Types
  <2>2. Owns(G[t], "once") /\ ~executed /\ ran = IF place = "routine" THEN 0 ELSE 1
    BY <1>1, <1>4 DEF Onces
  <2>3. \A u \in Thread : u # t => G[u].once \notin {"first", "ran", "knows"}
    <3>1. \A u \in Thread : u # t => G[u].once \notin {"first", "ran"}
      BY <1>1, <2>2, OneChecks
    <3> QED BY <3>1, <1>1, <2>2 DEF Onces
  <2>4. Owns(n, "once") BY <1>5, <2>2 DEF Owns
  <2> HIDE DEF n, H
  <2> QED BY <1>1, <1>5, <1>6, <2>1, <2>2, <2>3, <2>4 DEF Onces
<1> HIDE DEF n, c
<1> QED BY <1>5, <1>6, <1>7, <1>8, <1>9, OnceStep

-----------------------------------------------------------------------------
(* Barriers *)

LEMMA BarStep ==
    ASSUME NEW G, Good(G), NEW t \in Thread, NEW c, NEW calls, NEW n,
           Turns(G, t, c, calls, n), Values',
           n.ph = G[t].ph, n.rw = G[t].rw, n.once = G[t].once,
           UNCHANGED <<mutexes, read_waiters, executed, ran>>,
           Limit = Cardinality(Thread) => Rounds([G EXCEPT ![t] = n])'
    PROVE  Inv'
<1>1. Types(G) /\ Mutexes(G) /\ RwLocks(G) /\ Onces(G) BY DEF Good
<1>2. Mutexes([G EXCEPT ![t] = n])' BY <1>1, MutexFrame DEF mutexes
<1>3. RwLocks([G EXCEPT ![t] = n])'
  <2>1. n.rw = "writer" => Owns(n, "block_mutex") BY <1>1 DEF RwLocks, Owns
  <2> QED BY <1>1, <2>1, RwFrame
<1>4. Onces([G EXCEPT ![t] = n])'
  <2>1. n.once \in {"first", "ran"} => Owns(n, "once") BY <1>1 DEF Onces, Owns
  <2> QED BY <1>1, <2>1, OnceFrame
<1> QED BY <1>2, <1>3, <1>4, NoticedStep

LEMMA AtWait ==
    ASSUME NEW G, Good(G), NEW t \in Thread, NEW place \in WaitPlace, At(t, place)
    PROVE  /\ stack[t] # <<>> /\ Head(stack[t]).at = place /\ G[t] \in Mode
           /\ Moves(Head(stack[t]), G[t]) # {}
           /\ Moves(Head(stack[t]), G[t]) = WaitMoves(place, G[t])
           /\ G[t].ok <=> res[t] = "ok"
BY Stands, Rules

\* pthread_barrier_wait is called, or returns.
LEMMA BarrierWaitStep ==
    ASSUME NEW G, Good(G), NEW t \in Thread, BarrierWait(t) \/ BarrierReturns(t) PROVE Inv'
<1>1. PICK place \in {"barrier", "left"} :
         /\ At(t, place)
         /\ \/ BarrierWait(t) /\ place = "barrier"
            \/ BarrierReturns(t) /\ place = "left"
  BY DEF BarrierWait, BarrierReturns
<1> DEFINE c == Head(stack[t])
           calls == IF place = "barrier"
                    THEN <<Call("lock", "access"), Do("arrive"), Call("unlock", "access"),
                           Do("left")>>
                    ELSE <<>>
           n == Plays(G[t], IF place = "barrier" THEN "begun" ELSE "-")
           H == [G EXCEPT ![t] = n]
<1>2. /\ stack[t] # <<>> /\ c.at = place /\ G[t] \in Mode
      /\ Moves(c, G[t]) # {} /\ Moves(c, G[t]) = WaitMoves(place, G[t])
      /\ G[t].ok <=> res[t] = "ok"
  BY <1>1, AtWait DEF WaitPlace
<1>3. /\ G[t].bar = IF place = "barrier" THEN "-" ELSE "home"
      /\ <<calls, n>> \in Moves(c, G[t])
  BY <1>2 DEF WaitMoves, Move, Free
<1>4. /\ n.ph = G[t].ph /\ n.rw = G[t].rw /\ n.once = G[t].once /\ n.ok = G[t].ok
      /\ n.bar = IF place = "barrier" THEN "begun" ELSE "-"
  BY <1>2 DEF Mode, Plays
<1>5. /\ Then(t, calls)
      /\ UNCHANGED <<res, snap, mutexes, conds, others, items, serial, ran>>
      /\ IF place = "barrier" THEN arrived' = [arrived EXCEPT ![t] = @ + 1] /\ left' = left
                              ELSE left' = [left EXCEPT ![t] = @ + 1] /\ arrived' = arrived
  BY <1>1 DEF BarrierWait, BarrierReturns, Returns
<1>6. Types(G) BY DEF Good
<1>7. arrived' \in [Thread -> Int] /\ left' \in [Thread -> Int]
  <2>1. CASE place = "barrier" BY <2>1, <1>5, <1>6 DEF Types, Values
  <2>2. CASE place # "barrier" BY <2>2, <1>5, <1>6 DEF Types, Values
  <2> QED BY <2>1, <2>2
<1>8. Values' BY <1>5, <1>6, <1>7 DEF Types, Values, mutexes, conds, others
<1>9. Turns(G, t, c, calls, n) BY <1>2, <1>3, <1>4, <1>5 DEF Turns
<1>10. ASSUME Rounds(G) PROVE Rounds(H)'
  <2>1. H[t] = n /\ \A u \in Thread : u # t => H[u] = G[u] BY <1>6 DEF Types
  <2>2. OtherCalls(t) /\ serial' = serial /\ count' = count
        /\ waiters'["barrier"] = waiters["barrier"]
        /\ wait_block'["barrier"] = wait_block["barrier"]
    <3>1. CASE place = "barrier"
      BY <3>1, <1>5, <1>6 DEF Types, Values, OtherCalls, others, conds
    <3>2. CASE place # "barrier"
      BY <3>2, <1>5, <1>6 DEF Types, Values, OtherCalls, others, conds
    <3> QED BY <3>1, <3>2
  <2>3. Place(G, t) BY <1>10 DEF Rounds
  <2>4. t \notin Counted(G)
    BY <1>3, <1>6, <2>3 DEF Counted, Place, Round, Types, Values
  <2>5. Asleep(G) BY <1>10, <2>4, NobodyWakes
  <2>6. /\ arrived'[t] = arrived[t] + IF place = "barrier" THEN 1 ELSE 0
        /\ left'[t] = left[t] + IF place = "barrier" THEN 0 ELSE 1
    <3>1. CASE place = "barrier" BY <3>1, <1>5, <1>6 DEF Types, Values
    <3>2. CASE place # "barrier" BY <3>2, <1>5, <1>6 DEF Types, Values
    <3> QED BY <3>1, <3>2
  <2> HIDE DEF n, H
  <2>7. Place(H, t)'
    BY <1>3, <1>4, <1>6, <2>1, <2>2, <2>3, <2>6 DEF Place, Round, Waking, Types, Values
  <2>8. Counted(H)' = Counted(G) /\ Sleepers(H) = Sleepers(G)
    BY <1>3, <1>4, <2>1, <2>2, <2>4 DEF Counted, Sleepers, Round, OtherCalls
  <2>9. count' = Cardinality(Counted(H)') /\ waiters'["barrier"] = Cardinality(Sleepers(H))
    BY <1>10, <2>2, <2>8 DEF Rounds
  <2>10. n.bar \notin (Waking \ {"last"}) \cup {"awake"} BY <1>4 DEF Waking
  <2> QED BY <1>6, <1>10, <2>2, <2>5, <2>7, <2>9, <2>10, CalmStep DEF H
<1>11. UNCHANGED <<mutexes, read_waiters, executed, ran>> BY <1>5 DEF others
<1> HIDE DEF n, c, calls
<1> QED BY <1>4, <1>8, <1>9, <1>10, <1>11, BarStep DEF Good

\* Who comes last finds that all have come.
LEMMA ArriveStep == ASSUME NEW G, Good(G), NEW t \in Thread, Arrive(t) PROVE Inv'
<1>1. PICK last \in BOOLEAN : last <=> count + 1 >= Limit
  <2>1. CASE count + 1 >= Limit BY <2>1
  <2>2. CASE ~(count + 1 >= Limit) BY <2>2
  <2> QED BY <2>1, <2>2
<1> DEFINE c == Head(stack[t])
           calls == IF last THEN <<Call("broadcast", "barrier"), Do("reset")>>
                    ELSE <<Call("wait", "barrier")>>
           n == Plays(G[t], IF last THEN "last" ELSE "past")
           H == [G EXCEPT ![t] = n]
<1>2. /\ stack[t] # <<>> /\ c.at = "arrive" /\ G[t] \in Mode
      /\ Moves(c, G[t]) # {} /\ Moves(c, G[t]) = WaitMoves("arrive", G[t])
      /\ G[t].ok <=> res[t] = "ok"
  BY AtWait DEF WaitPlace, Arrive
<1>3. /\ G[t].bar = "begun" /\ Owns(G[t], "access")
      /\ <<calls, n>> \in Moves(c, G[t])
  BY <1>2 DEF WaitMoves, Move
<1>4. /\ n.ph = G[t].ph /\ n.rw = G[t].rw /\ n.once = G[t].once /\ n.ok = G[t].ok
      /\ n.bar = IF last THEN "last" ELSE "past"
  BY <1>2 DEF Mode, Plays
<1>5. /\ Then(t, calls) /\ count' = count + 1
      /\ UNCHANGED <<res, snap, mutexes, conds, read_waiters, executed, items, history>>
  BY <1>1 DEF Arrive
<1>6. Types(G) /\ IsFiniteSet(Thread) BY DEF Good
<1>7. Values' BY <1>5, <1>6 DEF Types, Values, mutexes, conds, history
<1>8. Turns(G, t, c, calls, n) BY <1>2, <1>3, <1>4, <1>5 DEF Turns
<1>9. ASSUME Rounds(G), Limit = Cardinality(Thread) PROVE Rounds(H)'
  <2>1. H[t] = n /\ \A u \in Thread : u # t => H[u] = G[u] BY <1>6 DEF Types
  <2>2. /\ UNCHANGED <<arrived, left, serial>> /\ OtherCalls(t)
        /\ waiters'["barrier"] = waiters["barrier"]
        /\ wait_block'["barrier"] = wait_block["barrier"]
    BY <1>5 DEF OtherCalls, conds, history
  <2>3. Place(G, t) BY <1>9 DEF Rounds
  <2>4. t \notin Counted(G) /\ arrived[t] = Round /\ left[t] = serial
    BY <1>3, <2>3 DEF Counted, Place
  <2>5. Asleep(G) BY <1>9, <2>4, NobodyWakes
  <2> HIDE DEF n, H, calls, c
  <2>6. Counted(H)' = Counted(G) \cup {t} /\ Sleepers(H) = Sleepers(G)
    BY <1>3, <1>4, <2>1, <2>2, <2>4 DEF Counted, Sleepers, Round
  <2>7. IsFiniteSet(Counted(G)) BY <1>6, FS_Subset DEF Counted
  <2>8. Cardinality(Counted(G) \cup {t}) = Cardinality(Counted(G)) + 1
    BY <2>4, <2>7, FS_AddElement
  <2>9. count' = Cardinality(Counted(H)') /\ waiters'["barrier"] = Cardinality(Sleepers(H))
    BY <1>5, <1>9, <2>2, <2>6, <2>8 DEF Rounds
  <2>10. last => Counted(H)' = Thread
    <3>1. Counted(G) \cup {t} \subseteq Thread BY DEF Counted
    <3>2. /\ Cardinality(Counted(G) \cup {t}) \in Nat /\ Cardinality(Thread) \in Nat
          /\ Cardinality(Counted(G) \cup {t}) <= Cardinality(Thread)
          /\ Cardinality(Counted(G) \cup {t}) = Cardinality(Thread) =>
                Counted(G) \cup {t} = Thread
      BY <1>6, <3>1, FS_Subset, FS_CardinalityType
    <3>3. last => Cardinality(Counted(G) \cup {t}) >= Cardinality(Thread)
      BY <1>1, <1>9, <2>8 DEF Rounds
    <3> QED BY <2>6, <3>2, <3>3
  <2>11. Place(H, t)'
    <3>1. Owns(n, "access") BY <1>3, <1>4 DEF Owns
    <3> QED BY <1>4, <2>1, <2>2, <2>4, <2>10, <3>1 DEF Place, Round, Waking
  <2>12. n.bar \notin (Waking \ {"last"}) \cup {"awake"} BY <1>4 DEF Waking
  <2> QED BY <1>6, <1>9, <2>2, <2>5, <2>9, <2>11, <2>12, CalmStep DEF H
<1>10. UNCHANGED <<mutexes, read_waiters, executed, ran>> BY <1>5 DEF history
<1> HIDE DEF n, c, calls
<1> QED BY <1>4, <1>7, <1>8, <1>9, <1>10, BarStep DEF Good

\* All others are back from their waits when the round is closed.
LEMMA ResetStep == ASSUME NEW G, Good(G), NEW t \in Thread, Reset(t) PROVE Inv'
<1> DEFINE c == Head(stack[t])
           n == Plays(G[t], "home")
           H == [G EXCEPT ![t] = n]
<1>1. /\ stack[t] # <<>> /\ c.at = "reset" /\ G[t] \in Mode
      /\ Moves(c, G[t]) # {} /\ Moves(c, G[t]) = WaitMoves("reset", G[t])
      /\ G[t].ok <=> res[t] = "ok"
  BY AtWait DEF WaitPlace, Reset
<1>2. G[t].bar = "resets" /\ << <<>>, n>> \in Moves(c, G[t]) BY <1>1 DEF WaitMoves, Move
<1>3. /\ n.ph = G[t].ph /\ n.rw = G[t].rw /\ n.once = G[t].once /\ n.ok = G[t].ok
      /\ n.bar = "home"
  BY <1>1 DEF Mode, Plays
<1>4. /\ Then(t, <<>>) /\ count' = 0 /\ serial' = serial + 1
      /\ UNCHANGED <<res, snap, mutexes, conds, read_waiters, executed, items, arrived, left, ran>>
  BY DEF Reset, Returns
<1>5. Types(G) /\ Mutexes(G) /\ IsFiniteSet(Thread) BY DEF Good
<1>6. Values' BY <1>4, <1>5 DEF Types, Values, mutexes, conds
<1>7. Turns(G, t, c, <<>>, n) BY <1>1, <1>2, <1>3, <1>4 DEF Turns
<1>8. ASSUME Rounds(G) PROVE Rounds(H)'
  <2>1. H[t] = n /\ \A u \in Thread : u # t => H[u] = G[u] BY <1>5 DEF Types
  <2>2. Place(G, t) /\ Handing(G, t) /\ Quiet(G) BY <1>8 DEF Rounds
  <2>3. Counted(G) = Thread /\ waiters["barrier"] = 0 /\ arrived[t] = Round /\ left[t] = serial
    BY <1>2, <2>2 DEF Place, Handing, Waking
  <2>4. Sleepers(G) = {}
    <3>1. IsFiniteSet(Sleepers(G)) BY <1>5, FS_Subset DEF Sleepers
    <3> QED BY <1>8, <2>3, <3>1, FS_EmptySet DEF Rounds
  <2>5. ASSUME NEW u \in Thread, u # t
        PROVE  G[u].bar = "back" /\ arrived[u] = Round /\ left[u] = serial
    <3>1. G[u].bar \notin {"past"} \cup Waking BY <1>2, <1>5, <1>8, <2>5, OneWakes DEF Waking
    <3>2. G[u].bar \notin {"-", "begun"} /\ arrived[u] = Round BY <2>3 DEF Counted
    <3>3. G[u].bar \notin {"counted", "awake"} BY <2>4 DEF Sleepers
    <3>4. Place(G, u) BY <1>8 DEF Rounds
    <3>5. G[u].bar # "home" BY <1>5, <3>2, <3>4 DEF Place, Round, Types, Values
    <3>6. G[u].bar = "back" BY <1>5, <3>1, <3>2, <3>3, <3>5 DEF Types, Mode, Bar
    <3> QED BY <1>5, <3>2, <3>4, <3>6 DEF Place, Round, Types, Values
  <2>6. \A u \in Thread : G[u].bar # "spins" BY <1>2, <2>5
  <2> HIDE DEF n, H
  <2>7. Counted(H)' = {} /\ Sleepers(H) = {}
    <3>1. ASSUME NEW u \in Thread PROVE arrived'[u] # Round'
      <4>1. arrived[u] = serial + 1 BY <2>3, <2>5 DEF Round
      <4>2. arrived'[u] = arrived[u] /\ serial' = serial + 1 /\ serial \in Int
        BY <1>4, <1>5 DEF Types, Values
      <4> QED BY <4>1, <4>2 DEF Round
    <3>2. ASSUME NEW u \in Thread PROVE H[u].bar \in {"home", "back"}
      BY <1>3, <2>1, <2>5
    <3> QED BY <3>1, <3>2 DEF Counted, Sleepers
  <2>8. ASSUME NEW u \in Thread PROVE Place(H, u)' /\ Handing(H, u)'
    <3>1. serial \in Int BY <1>5 DEF Types, Values
    <3>2. CASE u = t
      BY <1>3, <1>4, <2>1, <2>3, <3>1, <3>2 DEF Place, Handing, Waking, Round
    <3>3. CASE u # t
      BY <1>4, <2>1, <2>5, <3>1, <3>3 DEF Place, Handing, Waking, Round
    <3> QED BY <3>2, <3>3
  <2>9. Quiet(H)'
    BY <1>3, <1>4, <2>1, <2>2, <2>6, <2>7 DEF Quiet, NobodyAwake, Sleepers, conds
  <2>10. count' = Cardinality(Counted(H)') /\ waiters'["barrier"] = Cardinality(Sleepers(H)')
    BY <1>4, <2>3, <2>7, FS_EmptySet DEF Sleepers, conds
  <2> QED BY <2>8, <2>9, <2>10 DEF Rounds, H
<1>9. UNCHANGED <<mutexes, read_waiters, executed, ran>> BY <1>4
<1> HIDE DEF n, c
<1> QED BY <1>3, <1>6, <1>7, <1>8, <1>9, BarStep DEF Good

LEMMA AtBarrier ==
    ASSUME NEW G, Good(G), NEW t \in Thread, NEW place \in CondPlace, At(t, place),
           On(t) = "barrier"
    PROVE  /\ stack[t] # <<>> /\ Head(stack[t]).at = place /\ G[t] \in Mode
           /\ Moves(Head(stack[t]), G[t]) # {}
           /\ Moves(Head(stack[t]), G[t]) = BarrierMoves(place, G[t])
           /\ G[t].ok <=> res[t] = "ok"
BY Stands, Rules DEF On

\* The wait of who has come, before the mutex is unlocked.
LEMMA SleepStep ==
    ASSUME NEW G, Good(G), NEW t \in Thread, Wait(t), On(t) = "barrier" PROVE Inv'
<1>0. PICK place \in {"wait", "timedwait"} : At(t, place) BY DEF Wait
<1> DEFINE c == Head(stack[t])
           n == Plays(G[t], "counted")
           H == [G EXCEPT ![t] = n]
<1>1. /\ stack[t] # <<>> /\ c.at = place /\ G[t] \in Mode
      /\ Moves(c, G[t]) # {} /\ Moves(c, G[t]) = BarrierMoves(place, G[t])
      /\ G[t].ok <=> res[t] = "ok"
  BY <1>0, AtBarrier DEF CondPlace
<1>2. /\ place = "wait" /\ G[t].bar = "past" /\ Owns(G[t], "access")
      /\ <<Waits("barrier"), n>> \in Moves(c, G[t])
  BY <1>1 DEF BarrierMoves, Move
<1>3. /\ n.ph = G[t].ph /\ n.rw = G[t].rw /\ n.once = G[t].once /\ n.ok = G[t].ok
      /\ n.bar = "counted"
  BY <1>1 DEF Mode, Plays
<1>4. /\ Then(t, Waits("barrier")) /\ waiters' = [waiters EXCEPT !["barrier"] = @ + 1]
      /\ UNCHANGED <<res, snap, mutexes, clear_block, wait_block, others, items, history>>
  BY <1>1, <1>2 DEF Wait, At, Waits, MutexOf
<1>5. Types(G) /\ Mutexes(G) /\ IsFiniteSet(Thread) BY DEF Good
<1>6. Values' BY <1>4, <1>5 DEF Types, Values, mutexes, others, history, Cond
<1>7. Turns(G, t, c, Waits("barrier"), n) BY <1>1, <1>2, <1>3, <1>4 DEF Turns
<1>8. ASSUME Rounds(G) PROVE Rounds(H)'
  <2>1. H[t] = n /\ \A u \in Thread : u # t => H[u] = G[u] BY <1>5 DEF Types
  <2>2. /\ UNCHANGED <<arrived, left, serial, count, wait_block>> /\ OtherCalls(t)
        /\ waiters'["barrier"] = waiters["barrier"] + 1
    BY <1>4, <1>5 DEF OtherCalls, history, others, Types, Values, Cond
  <2>3. Place(G, t) BY <1>8 DEF Rounds
  <2>4. arrived[t] = Round /\ left[t] = serial BY <1>2, <2>3 DEF Place
  <2>5. Asleep(G)
    <3>1. ASSUME NEW u \in Thread, G[u].bar \in Waking PROVE FALSE
      <4>1. u = t BY <1>2, <1>5, <1>8, <3>1, OneWakes
      <4> QED BY <1>2, <3>1, <4>1 DEF Waking
    <3> QED BY <3>1 DEF Asleep
  <2> HIDE DEF n, H, c
  <2>6. /\ Counted(H)' = Counted(G) /\ Sleepers(H) = Sleepers(G) \cup {t}
        /\ t \notin Sleepers(G)
    BY <1>2, <1>3, <2>1, <2>2, <2>4 DEF Counted, Sleepers, Round
  <2>7. IsFiniteSet(Sleepers(G)) BY <1>5, FS_Subset DEF Sleepers
  <2>8. Cardinality(Sleepers(G) \cup {t}) = Cardinality(Sleepers(G)) + 1
    BY <2>6, <2>7, FS_AddElement
  <2>9. count' = Cardinality(Counted(H)') /\ waiters'["barrier"] = Cardinality(Sleepers(H))
    BY <1>8, <2>2, <2>6, <2>8 DEF Rounds
  <2>10. Place(H, t)' BY <1>3, <2>1, <2>2, <2>4 DEF Place, Round, Waking
  <2>11. n.bar \notin (Waking \ {"last"}) \cup {"awake"} BY <1>3 DEF Waking
  <2> QED BY <1>5, <1>8, <2>2, <2>5, <2>9, <2>10, <2>11, CalmStep DEF H
<1>9. UNCHANGED <<mutexes, read_waiters, executed, ran>> BY <1>4 DEF others, history
<1> HIDE DEF n, c
<1> QED BY <1>3, <1>6, <1>7, <1>8, <1>9, BarStep DEF Good

\* The last thread waits for the taker of its token.
Served(G, H) == \E w \in Thread : G[w].bar = "spins" /\ snap[w] > 0 /\ Passing(H, w)'

\* A thread that is counted stays so while it takes a token and leaves.
LEMMA SleeperStep ==
    ASSUME NEW G, Types(G), Mutexes(G), Rounds(G), NEW t \in Thread, NEW n,
           NEW H, H = [G EXCEPT ![t] = n],
           G[t].bar \in {"counted", "awake"}, n.bar \in {"awake", "back"},
           UNCHANGED <<count, arrived, left, serial, snap>>,
           waiters'["barrier"] = Cardinality(Sleepers(H)), Served(G, H)
    PROVE  Rounds(H)'
<1>1. H[t] = n /\ \A u \in Thread : u # t => H[u] = G[u] BY DEF Types
<1>2. PICK w \in Thread : G[w].bar = "spins" /\ snap[w] > 0 /\ Passing(H, w)' BY DEF Served
<1>3. Counted(H)' = Counted(G) BY <1>1 DEF Counted, Round
<1>4. w # t /\ H[w].bar = "spins" BY <1>1, <1>2
<1>5. ASSUME NEW u \in Thread PROVE Place(H, u)'
  <2>1. Place(G, u) BY DEF Rounds
  <2>2. \E v \in Thread : H[v].bar \in Waking BY <1>4 DEF Waking
  <2>3. CASE u # t BY <2>1, <2>2, <2>3, <1>1, <1>3 DEF Place, Round
  <2>4. CASE u = t
    <3>1. arrived[t] = Round /\ left[t] = serial /\ serial \in Int
      BY <2>1, <2>4 DEF Place, Types, Values
    <3> QED BY <2>2, <2>4, <3>1, <1>1, <1>3 DEF Place, Round, Waking
  <2> QED BY <2>3, <2>4
<1>6. ASSUME NEW u \in Thread PROVE Handing(H, u)'
  <2>1. CASE u = w BY <2>1, <1>2, <1>4 DEF Handing
  <2>2. CASE u # w
    <3>1. G[u].bar \notin Waking BY <2>2, <1>2, OneWakes DEF Waking
    <3> QED BY <3>1, <1>1 DEF Handing, Waking
  <2> QED BY <2>1, <2>2
<1>7. Quiet(H)' BY <1>4 DEF Quiet
<1>8. count' = Cardinality(Counted(H)') /\ waiters'["barrier"] = Cardinality(Sleepers(H)')
  BY <1>3 DEF Rounds, Sleepers
<1> QED BY <1>5, <1>6, <1>7, <1>8 DEF Rounds

LEMMA BlockStep ==
    ASSUME NEW G, Good(G), NEW t \in Thread, Block(t), On(t) = "barrier" PROVE Inv'
<1>0. At(t, "block")
  <2>1. CASE At(t, "timedblock")
    <3>1. BarrierMoves("timedblock", G[t]) = {} BY DEF BarrierMoves
    <3> QED BY <2>1, <3>1, AtBarrier DEF CondPlace
  <2> QED BY <2>1 DEF Block
<1> DEFINE c == Head(stack[t])
           n == Plays(G[t], "awake")
           H == [G EXCEPT ![t] = n]
<1>1. /\ stack[t] # <<>> /\ c.at = "block" /\ G[t] \in Mode
      /\ Moves(c, G[t]) # {} /\ Moves(c, G[t]) = BarrierMoves("block", G[t])
      /\ G[t].ok <=> res[t] = "ok"
  BY <1>0, AtBarrier DEF CondPlace
<1>2. G[t].bar = "counted" /\ << <<>>, n>> \in Moves(c, G[t]) BY <1>1 DEF BarrierMoves, Move
<1>3. /\ n.ph = G[t].ph /\ n.rw = G[t].rw /\ n.once = G[t].once /\ n.ok = G[t].ok
      /\ n.bar = "awake"
  BY <1>1 DEF Mode, Plays
<1>4. /\ Then(t, <<>>) /\ wait_block["barrier"] > 0
      /\ wait_block' = [wait_block EXCEPT !["barrier"] = @ - 1]
      /\ UNCHANGED <<res, snap, mutexes, clear_block, waiters, others, items, history>>
  BY DEF Block, Returns
<1>5. Types(G) /\ Mutexes(G) BY DEF Good
<1>6. Values' BY <1>4, <1>5 DEF Types, Values, mutexes, others, history, Cond
<1>7. Turns(G, t, c, <<>>, n) BY <1>1, <1>2, <1>3, <1>4 DEF Turns
<1>8. ASSUME Rounds(G) PROVE Rounds(H)'
  <2>1. H[t] = n /\ \A u \in Thread : u # t => H[u] = G[u] BY <1>5 DEF Types
  <2>2. PICK w \in Thread : G[w].bar = "spins" BY <1>4, <1>5, <1>8 DEF Rounds, Quiet
  <2>3. snap[w] > 0 /\ Passing(G, w) BY <1>8, <2>2 DEF Rounds, Handing
  <2>4. /\ waiters["barrier"] = snap[w] /\ wait_block["barrier"] = 1 /\ NobodyAwake(G)
    BY <1>4, <2>3 DEF Passing
  <2>5. /\ UNCHANGED <<count, arrived, left, serial, snap, waiters>>
        /\ wait_block'["barrier"] = 0
    BY <1>4, <1>5, <2>4 DEF others, history, Types, Values, Cond
  <2> HIDE DEF n, H, c
  <2>6. OneAwake(H) BY <1>3, <2>1, <2>4 DEF OneAwake, NobodyAwake
  <2>7. Passing(H, w)' BY <2>4, <2>5, <2>6 DEF Passing, OneAwake
  <2>8. Sleepers(H) = Sleepers(G) BY <1>2, <1>3, <2>1 DEF Sleepers
  <2>9. waiters'["barrier"] = Cardinality(Sleepers(H)) BY <1>8, <2>5, <2>8 DEF Rounds
  <2>10. G[t].bar \in {"counted", "awake"} /\ n.bar \in {"awake", "back"} BY <1>2, <1>3
  <2>11. UNCHANGED <<count, arrived, left, serial, snap>> BY <2>5
  <2>12. Served(G, H) BY <2>2, <2>3, <2>7 DEF Served
  <2>13. H = [G EXCEPT ![t] = n] BY DEF H
  <2> QED BY <1>5, <1>8, <2>9, <2>10, <2>11, <2>12, <2>13, SleeperStep
<1>9. UNCHANGED <<mutexes, read_waiters, executed, ran>> BY <1>4 DEF others, history
<1> HIDE DEF n, c
<1> QED BY <1>3, <1>6, <1>7, <1>8, <1>9, BarStep DEF Good

\* Who took the token leaves before the next is posted.
LEMMA LeaveStep ==
    ASSUME NEW G, Good(G), NEW t \in Thread, Leave(t), On(t) = "barrier" PROVE Inv'
<1> DEFINE c == Head(stack[t])
           n == Plays(G[t], "back")
           H == [G EXCEPT ![t] = n]
<1>1. /\ stack[t] # <<>> /\ c.at = "leave" /\ G[t] \in Mode
      /\ Moves(c, G[t]) # {} /\ Moves(c, G[t]) = BarrierMoves("leave", G[t])
      /\ G[t].ok <=> res[t] = "ok"
  BY AtBarrier DEF CondPlace, Leave
<1>2. G[t].bar = "awake" /\ << <<>>, n>> \in Moves(c, G[t]) BY <1>1 DEF BarrierMoves, Move
<1>3. /\ n.ph = G[t].ph /\ n.rw = G[t].rw /\ n.once = G[t].once /\ n.ok = G[t].ok
      /\ n.bar = "back"
  BY <1>1 DEF Mode, Plays
<1>4. /\ Then(t, <<>>) /\ waiters' = [waiters EXCEPT !["barrier"] = @ - 1]
      /\ UNCHANGED <<res, snap, mutexes, clear_block, wait_block, others, items, history>>
  BY DEF Leave, Returns
<1>5. Types(G) /\ Mutexes(G) /\ IsFiniteSet(Thread) BY DEF Good
<1>6. Values' BY <1>4, <1>5 DEF Types, Values, mutexes, others, history, Cond
<1>7. Turns(G, t, c, <<>>, n) BY <1>1, <1>2, <1>3, <1>4 DEF Turns
<1>8. ASSUME Rounds(G) PROVE Rounds(H)'
  <2>1. H[t] = n /\ \A u \in Thread : u # t => H[u] = G[u] BY <1>5 DEF Types
  <2>2. PICK w \in Thread : G[w].bar = "spins" BY <1>2, <1>8 DEF Rounds, Quiet, NobodyAwake
  <2>3. snap[w] > 0 /\ Passing(G, w) BY <1>8, <2>2 DEF Rounds, Handing
  <2>4. waiters["barrier"] = snap[w] /\ wait_block["barrier"] = 0 /\ OneAwake(G)
    BY <1>2, <2>3 DEF Passing, NobodyAwake
  <2>5. /\ UNCHANGED <<count, arrived, left, serial, snap, wait_block>>
        /\ waiters'["barrier"] = waiters["barrier"] - 1
    BY <1>4, <1>5, <2>4 DEF others, history, Types, Values, Cond
  <2> HIDE DEF n, H, c
  <2>6. NobodyAwake(H) BY <1>2, <1>3, <2>1, <2>4 DEF OneAwake, NobodyAwake
  <2>7. Passing(H, w)' BY <2>4, <2>5, <2>6 DEF Passing, NobodyAwake
  <2>8. Sleepers(H) = Sleepers(G) \ {t} /\ t \in Sleepers(G)
    BY <1>2, <1>3, <2>1 DEF Sleepers
  <2>9. IsFiniteSet(Sleepers(G)) BY <1>5, FS_Subset DEF Sleepers
  <2>10. Cardinality(Sleepers(G) \ {t}) = Cardinality(Sleepers(G)) - 1
    BY <2>8, <2>9, FS_RemoveElement
  <2>11. waiters'["barrier"] = Cardinality(Sleepers(H)) BY <1>8, <2>5, <2>8, <2>10 DEF Rounds
  <2>12. G[t].bar \in {"counted", "awake"} /\ n.bar \in {"awake", "back"} BY <1>2, <1>3
  <2>13. Served(G, H) BY <2>2, <2>3, <2>7 DEF Served
  <2>14. H = [G EXCEPT ![t] = n] BY DEF H
  <2> QED BY <1>5, <1>8, <2>5, <2>11, <2>12, <2>13, <2>14, SleeperStep
<1>9. UNCHANGED <<mutexes, read_waiters, executed, ran>> BY <1>4 DEF others, history
<1> HIDE DEF n, c
<1> QED BY <1>3, <1>6, <1>7, <1>8, <1>9, BarStep DEF Good

\* The last thread to come goes from one of its places to the next.
LEMMA WakingStep ==
    ASSUME NEW G, Good(G), NEW t \in Thread, NEW place \in CondPlace, At(t, place),
           On(t) = "barrier", NEW calls, NEW bar \in Waking, G[t].bar \in Waking,
           <<calls, Plays(G[t], bar)>> \in BarrierMoves(place, G[t]), Then(t, calls), Values',
           UNCHANGED <<res, mutexes, others, history>>,
           waiters'["barrier"] = waiters["barrier"],
           NEW H, H = [G EXCEPT ![t] = Plays(G[t], bar)],
           Rounds(G) => /\ Handing(H, t)'
                        /\ bar # "spins" => wait_block'["barrier"] = 0 /\ NobodyAwake(G)
    PROVE  Inv'
<1> DEFINE c == Head(stack[t])
           n == Plays(G[t], bar)
<1>1. /\ stack[t] # <<>> /\ c.at = place /\ G[t] \in Mode
      /\ Moves(c, G[t]) = BarrierMoves(place, G[t])
      /\ G[t].ok <=> res[t] = "ok"
  BY AtBarrier
<1>2. /\ n.ph = G[t].ph /\ n.rw = G[t].rw /\ n.once = G[t].once /\ n.ok = G[t].ok /\ n.bar = bar
  BY <1>1 DEF Mode, Plays
<1>3. Types(G) /\ Mutexes(G) BY DEF Good
<1>4. Turns(G, t, c, calls, n) BY <1>1, <1>2 DEF Turns, CondPlace
<1>5. H = [G EXCEPT ![t] = n] OBVIOUS
<1> HIDE DEF n, c
<1>6. ASSUME Rounds(G) PROVE Rounds(H)'
  <2>1. H[t] = n /\ \A u \in Thread : u # t => H[u] = G[u] BY <1>3, <1>5 DEF Types
  <2>2. Handing(H, t)' BY <1>6
  <2>3. Quiet(H)'
    <3>1. CASE bar = "spins" BY <1>2, <2>1, <3>1 DEF Quiet
    <3>2. CASE bar # "spins"
      <4>1. NobodyAwake(H) BY <1>2, <1>6, <2>1, <3>2 DEF NobodyAwake, Waking
      <4> QED BY <1>6, <3>2, <4>1 DEF Quiet, NobodyAwake
    <3> QED BY <3>1, <3>2
  <2>4. UNCHANGED <<count, arrived, left, serial>> BY DEF others, history
  <2> QED BY <1>2, <1>3, <1>5, <1>6, <2>2, <2>3, <2>4, WakerStep
<1>7. UNCHANGED <<mutexes, read_waiters, executed, ran>> BY DEF others, history
<1>8. Rounds(G) => Rounds([G EXCEPT ![t] = n])' BY <1>5, <1>6
<1> QED BY <1>2, <1>4, <1>7, <1>8, BarStep DEF Good

\* No token is left while the last thread does not wait for the taker of one.
LEMMA NoneLeft ==
    ASSUME NEW G, Good(G), Rounds(G), NEW t \in Thread, G[t].bar \in Waking \ {"spins"}
    PROVE  wait_block["barrier"] = 0 /\ NobodyAwake(G)
<1>1. \A u \in Thread : G[u].bar # "spins" BY OneWakes DEF Good, Waking
<1> QED BY <1>1 DEF Rounds, Quiet

LEMMA NotifyStep ==
    ASSUME NEW G, Good(G), NEW t \in Thread, Notify(t), On(t) = "barrier" PROVE Inv'
<1> DEFINE calls == <<Call("while", "barrier"), Call("let", "barrier")>>
           H == [G EXCEPT ![t] = Plays(G[t], "clears")]
<1>1. At(t, "broadcast") /\ BarrierMoves("broadcast", G[t]) # {}
  <2>1. BarrierMoves("signal", G[t]) = {} BY DEF BarrierMoves
  <2> QED BY <2>1, AtBarrier DEF Notify, CondPlace
<1>2. G[t].bar = "last" /\ <<calls, Plays(G[t], "clears")>> \in BarrierMoves("broadcast", G[t])
  BY <1>1 DEF BarrierMoves, Move
<1>3. /\ Then(t, calls)
      /\ UNCHANGED <<res, snap, mutexes, wait_block, waiters, others, items, history>>
  BY <1>1 DEF Notify, At
<1>4. Values' BY <1>3 DEF Good, Types, Values, mutexes, others, history
<1>5. H[t].bar = "clears" BY Stands, <1>1 DEF Good, Types, Mode, Plays
<1>6. H = [G EXCEPT ![t] = Plays(G[t], "clears")] OBVIOUS
<1> HIDE DEF H, calls
<1>7. ASSUME Rounds(G)
      PROVE  Handing(H, t)' /\ wait_block'["barrier"] = 0 /\ NobodyAwake(G)
  <2>1. wait_block["barrier"] = 0 /\ NobodyAwake(G) BY <1>2, <1>7, NoneLeft DEF Waking
  <2> QED BY <1>3, <1>5, <2>1 DEF Handing
<1> QED BY <1>1, <1>2, <1>3, <1>4, <1>6, <1>7, WakingStep DEF CondPlace, Waking

LEMMA LookStep ==
    ASSUME NEW G, Good(G), NEW t \in Thread, LookForWaiters(t), On(t) = "barrier" PROVE Inv'
<1>1. At(t, "while") /\ BarrierMoves("while", G[t]) # {}
  <2>1. BarrierMoves("if", G[t]) = {} BY DEF BarrierMoves
  <2> QED BY <2>1, AtBarrier DEF LookForWaiters, CondPlace
<1> DEFINE all == Tokens("barrier") \o <<Call("while", "barrier")>>
<1>2. /\ G[t].bar = "clears"
      /\ << <<>>, Plays(G[t], "lets")>> \in BarrierMoves("while", G[t])
      /\ <<all, Plays(G[t], "snaps")>> \in BarrierMoves("while", G[t])
  BY <1>1 DEF BarrierMoves, Move
<1>3. /\ Then(t, IF waiters["barrier"] = 0 THEN <<>> ELSE all)
      /\ UNCHANGED <<res, snap, mutexes, conds, others, items, history>>
  BY <1>1 DEF LookForWaiters, At, Returns, Tokens
<1>4. Values' BY <1>3 DEF Good, Types, Values, mutexes, conds, others, history
<1>5. G[t] \in Mode /\ G \in [Thread -> Mode] BY DEF Good, Types
<1> HIDE DEF all
<1>6. ASSUME Rounds(G)
      PROVE  /\ wait_block'["barrier"] = 0 /\ NobodyAwake(G)
             /\ waiters["barrier"] \in Nat /\ waiters'["barrier"] = waiters["barrier"]
  <2>1. wait_block["barrier"] = 0 /\ NobodyAwake(G) BY <1>2, <1>6, NoneLeft DEF Waking
  <2>2. IsFiniteSet(Sleepers(G)) BY FS_Subset DEF Good, Sleepers
  <2>3. waiters["barrier"] \in Nat BY <1>6, <2>2, FS_CardinalityType DEF Rounds
  <2> QED BY <1>3, <2>1, <2>3 DEF conds
<1>7. CASE waiters["barrier"] = 0
  <2> DEFINE H == [G EXCEPT ![t] = Plays(G[t], "lets")]
  <2>1. H[t].bar = "lets" BY <1>5 DEF Mode, Plays
  <2>2. H = [G EXCEPT ![t] = Plays(G[t], "lets")] OBVIOUS
  <2> HIDE DEF H
  <2>3. Rounds(G) => Handing(H, t)' /\ wait_block'["barrier"] = 0 /\ NobodyAwake(G)
    BY <1>6, <1>7, <2>1 DEF Handing
  <2>4. Then(t, <<>>) BY <1>3, <1>7
  <2> QED BY <1>1, <1>2, <1>3, <1>4, <2>2, <2>3, <2>4, WakingStep DEF CondPlace, Waking, conds
<1>8. CASE waiters["barrier"] # 0
  <2> DEFINE H == [G EXCEPT ![t] = Plays(G[t], "snaps")]
  <2>1. H[t].bar = "snaps" BY <1>5 DEF Mode, Plays
  <2>2. H = [G EXCEPT ![t] = Plays(G[t], "snaps")] OBVIOUS
  <2> HIDE DEF H
  <2>3. Rounds(G) => Handing(H, t)' /\ wait_block'["barrier"] = 0 /\ NobodyAwake(G)
    BY <1>6, <1>8, <2>1 DEF Handing
  <2>4. Then(t, all) BY <1>3, <1>8
  <2> QED BY <1>1, <1>2, <1>3, <1>4, <2>2, <2>3, <2>4, WakingStep DEF CondPlace, Waking, conds
<1> QED BY <1>7, <1>8

\* Snapshot, Token, Spin and LetIn: one token after the other.
LEMMA TokenStep ==
    ASSUME NEW G, Good(G), NEW t \in Thread, On(t) = "barrier",
           Snapshot(t) \/ Token(t) \/ Spin(t) \/ LetIn(t)
    PROVE  Inv'
<1>1. PICK place \in {"snap", "token", "spin", "let"} :
         /\ At(t, place)
         /\ \/ Snapshot(t) /\ place = "snap"
            \/ Token(t) /\ place = "token"
            \/ Spin(t) /\ place = "spin"
            \/ LetIn(t) /\ place = "let"
  BY DEF Snapshot, Token, Spin, LetIn
<1> DEFINE bar == CASE place = "snap" -> "tokens" [] place = "token" -> "spins"
                    [] place = "spin" -> "clears" [] place = "let" -> "resets"
<1>2. BarrierMoves(place, G[t]) # {} BY <1>1, AtBarrier DEF CondPlace
<1>3. /\ G[t].bar = CASE place = "snap" -> "snaps" [] place = "token" -> "tokens"
                      [] place = "spin" -> "spins" [] place = "let" -> "lets"
      /\ << <<>>, Plays(G[t], bar)>> \in BarrierMoves(place, G[t])
  BY <1>2 DEF BarrierMoves, Move
<1>4. /\ Then(t, <<>>) /\ UNCHANGED <<res, mutexes, waiters, others, history>>
      /\ snap' = IF place = "snap" THEN [snap EXCEPT ![t] = waiters["barrier"]] ELSE snap
      /\ wait_block' = IF place = "token" THEN [wait_block EXCEPT !["barrier"] = @ + 1]
                       ELSE wait_block
      /\ place = "spin" => waiters["barrier"] # snap[t] \/ snap[t] = 0
  BY <1>1 DEF Snapshot, Token, Spin, LetIn, Returns, conds
<1>5. Types(G) /\ Values BY DEF Good, Types
<1>6. Values' BY <1>4, <1>5 DEF Values, mutexes, others, history, Cond
<1> DEFINE H == [G EXCEPT ![t] = Plays(G[t], bar)]
<1>7. H[t].bar = bar BY <1>5 DEF Types, Mode, Plays
<1>8. H = [G EXCEPT ![t] = Plays(G[t], bar)] OBVIOUS
<1>9. \A u \in Thread : u # t => H[u] = G[u] BY <1>5 DEF Types
<1> HIDE DEF H
<1>10. ASSUME Rounds(G)
       PROVE  /\ Handing(H, t)'
              /\ bar # "spins" => wait_block'["barrier"] = 0 /\ NobodyAwake(G)
  <2>1. Handing(G, t) BY <1>10 DEF Rounds
  <2>2. place # "spin" => wait_block["barrier"] = 0 /\ NobodyAwake(G)
    BY <1>1, <1>3, <1>10, NoneLeft DEF Waking
  <2>3. CASE place = "snap"
    <3>1. waiters["barrier"] > 0 BY <1>3, <2>1, <2>3 DEF Handing
    <3>2. snap'[t] = waiters["barrier"] BY <1>4, <1>5, <2>3 DEF Values
    <3> QED BY <1>4, <1>7, <2>2, <2>3, <3>1, <3>2 DEF Handing
  <2>4. CASE place = "token"
    <3>1. snap[t] = waiters["barrier"] /\ snap[t] > 0 BY <1>3, <2>1, <2>4 DEF Handing
    <3>2. wait_block'["barrier"] = 1 BY <1>4, <1>5, <2>2, <2>4 DEF Values, Cond
    <3>3. H[t].bar = "spins" BY <1>7, <2>4
    <3>4. NobodyAwake(H) BY <1>9, <2>2, <2>4, <3>3 DEF NobodyAwake
    <3>5. Passing(H, t)' BY <1>4, <2>4, <3>1, <3>2, <3>4 DEF Passing, NobodyAwake
    <3> QED BY <1>4, <2>4, <3>1, <3>3, <3>5 DEF Handing
  <2>5. CASE place = "spin"
    <3>1. wait_block["barrier"] = 0 /\ NobodyAwake(G)
      BY <1>3, <1>4, <2>1, <2>5 DEF Handing, Passing
    <3> QED BY <1>4, <1>7, <2>5, <3>1 DEF Handing
  <2>6. CASE place = "let"
    <3>1. waiters["barrier"] = 0 BY <1>3, <2>1, <2>6 DEF Handing
    <3> QED BY <1>4, <1>7, <2>2, <2>6, <3>1 DEF Handing
  <2> QED BY <2>3, <2>4, <2>5, <2>6
<1>11. bar \in Waking /\ G[t].bar \in Waking /\ place \in CondPlace
  BY <1>1, <1>3 DEF Waking, CondPlace
<1>12. waiters'["barrier"] = waiters["barrier"] BY <1>4
<1> HIDE DEF bar
<1> QED BY <1>1, <1>3, <1>4, <1>6, <1>8, <1>10, <1>11, <1>12, WakingStep

-----------------------------------------------------------------------------
(* The invariant *)

LEMMA OnCond ==
    ASSUME NEW G, Good(G), NEW t \in Thread, NEW place \in CondPlace, At(t, place)
    PROVE  On(t) \in {"cond", "barrier"}
BY Stands, Rules DEF On

\* A condition variable that is waited for, or told of something.
LEMMA WaitingStep ==
    ASSUME NEW G, Good(G), NEW t \in Thread,
           Wait(t) \/ Block(t) \/ Timeout(t) \/ Leave(t) \/ Pass(t)
    PROVE  Inv'
<1>1. On(t) \in {"cond", "barrier"}
  BY OnCond DEF Wait, Block, Timeout, Leave, Pass, CondPlace
<1>2. CASE On(t) = "cond" BY <1>2, CondStep
<1>3. CASE On(t) = "barrier"
  <2>1. ~Timeout(t)
    <3>1. BarrierMoves("timedblock", G[t]) = {} BY DEF BarrierMoves
    <3> QED BY <1>3, <3>1, AtBarrier DEF CondPlace, Timeout
  <2>2. ~Pass(t)
    <3>1. BarrierMoves("pass", G[t]) = {} BY DEF BarrierMoves
    <3> QED BY <1>3, <3>1, AtBarrier DEF CondPlace, Pass
  <2> QED BY <1>3, <2>1, <2>2, SleepStep, BlockStep, LeaveStep
<1> QED BY <1>1, <1>2, <1>3

LEMMA TellingStep ==
    ASSUME NEW G, Good(G), NEW t \in Thread,
           \/ Notify(t) \/ LookForWaiters(t) \/ Snapshot(t) \/ Token(t) \/ Spin(t) \/ LetIn(t)
    PROVE  Inv'
<1>1. On(t) \in {"cond", "barrier"}
  BY OnCond DEF Notify, LookForWaiters, Snapshot, Token, Spin, LetIn, CondPlace
<1>2. CASE On(t) = "cond" BY <1>2, CondStep
<1>3. CASE On(t) = "barrier" BY <1>3, NotifyStep, LookStep, TokenStep
<1> QED BY <1>1, <1>2, <1>3

LEMMA NextInv == ASSUME Inv, [Next]_vars PROVE Inv'
<1>1. PICK G : Good(G) BY DEF Inv
<1>2. CASE UNCHANGED vars
  <2>1. Types(G)' /\ Legals(G)' /\ Mutexes(G)'
    BY <1>1, <1>2 DEF Good, Types, Values, Legals, Mutexes, vars, mutexes, conds, others, history
  <2>2. RwLocks(G)' /\ Onces(G)'
    BY <1>1, <1>2 DEF Good, RwLocks, Readers, Onces, vars, mutexes, others, history
  <2>3. Rounds(G) => Rounds(G)'
    BY <1>2 DEF Rounds, Counted, Round, Sleepers, Place, Handing, Passing, NobodyAwake, OneAwake,
       Quiet, vars, conds, others, history
  <2> QED BY <1>1, <2>1, <2>2, <2>3 DEF Good, Inv
<1>3. CASE Next
  <2>1. PICK t \in Thread : Step(t) BY <1>3 DEF Next
  <2>2. CASE Lock(t) \/ TryLock(t) \/ Take(t) \/ Own(t) \/ Unlock(t) \/ Post(t)
    BY <1>1, <2>2, LockStep, TryLockStep, TakeStep, OwnStep, UnlockStep, PostStep
  <2>3. CASE Wait(t) \/ Block(t) \/ Timeout(t) \/ Leave(t) \/ Pass(t)
    BY <1>1, <2>3, WaitingStep
  <2>4. CASE \/ Notify(t) \/ LookForWaiters(t) \/ Snapshot(t) \/ Token(t) \/ Spin(t) \/ LetIn(t)
    BY <1>1, <2>4, TellingStep
  <2>5. CASE RwLock(t) \/ CountIn(t) \/ RwUnlock(t) \/ CountOut(t)
    BY <1>1, <2>5, RwLockStep, CountInStep, RwUnlockStep, CountOutStep
  <2>6. CASE RwLocked(t)
    <3>1. At(t, "reader") \/ At(t, "writer") \/ At(t, "trywriter") BY <2>6 DEF RwLocked
    <3> QED BY <1>1, <2>6, <3>1, ReaderStep, WriterStep
  <2>7. CASE BarrierWait(t) \/ Arrive(t) \/ Reset(t) \/ BarrierReturns(t)
    BY <1>1, <2>7, BarrierWaitStep, ArriveStep, ResetStep
  <2>8. CASE Once(t) \/ Routine(t) \/ Executed(t) BY <1>1, <2>8, CheckStep, RoutineStep
  <2>9. CASE Use(t) \/ Inside(t) \/ IfLocked(t) BY <1>1, <2>9, UseStep, IfLockedStep
  <2> QED BY <2>1, <2>2, <2>3, <2>4, <2>5, <2>6, <2>7, <2>8, <2>9 DEF Step
<1> QED BY <1>2, <1>3

\* At first nobody has anything.
LEMMA InitInv == ASSUME Init, Disciplined PROVE Inv
<1> DEFINE G == [t \in Thread |-> Unbound]
<1>1. Unbound \in Mode BY DEF Unbound, Mode, Ph, Rw, Knowing, Bar
<1>2. ASSUME NEW t \in Thread
      PROVE  /\ G[t] = Unbound /\ Legal(stack[t], Unbound)
  BY DEF Init, Disciplined
<1>3. /\ Unbound.rw = "-" /\ Unbound.once = "-" /\ Unbound.bar = "-" /\ Unbound.ok = TRUE
      /\ \A x \in Mutex : Unbound.ph[x] = "out"
  BY DEF Unbound
<1>4. Types(G)
  <2>1. stack \in [Thread -> Seq(Item)] BY DEF Init, Disciplined
  <2>2. /\ res \in [Thread -> {"ok", "busy", "deadlock", "perm"}] /\ snap \in [Thread -> Int]
        /\ arrived \in [Thread -> Int] /\ left \in [Thread -> Int]
    BY DEF Init
  <2>3. /\ sem \in [Mutex -> {0, 1}] /\ owner \in [Mutex -> Thread \cup {Ready}]
        /\ wait_block \in [Cond -> Int] /\ waiters \in [Cond -> Int]
    BY DEF Init
  <2>4. read_waiters \in Int /\ count \in Int /\ serial \in Int /\ ran \in Int BY DEF Init
  <2>5. executed \in BOOLEAN BY DEF Init
  <2>6. Values BY <2>2, <2>3, <2>4, <2>5 DEF Values
  <2> QED BY <1>1, <2>1, <2>6 DEF Types
<1> HIDE DEF G
<1>5. Legals(G) BY <1>2, <1>3 DEF Legals, Init
<1>6. Mutexes(G) BY <1>2, <1>3, SyncAssumption DEF Mutexes, Owns, Init
<1>7. RwLocks(G)
  <2>1. Readers(G) = {} BY <1>2, <1>3 DEF Readers
  <2> QED BY <1>2, <1>3, <2>1, FS_EmptySet DEF RwLocks, Init
<1>8. Onces(G) BY <1>2, <1>3 DEF Onces, Init
<1>9. Rounds(G)
  <2>1. Counted(G) = {} /\ Sleepers(G) = {} BY <1>2, <1>3 DEF Counted, Sleepers
  <2>2. \A t \in Thread : Place(G, t) /\ Handing(G, t)
    BY <1>2, <1>3 DEF Place, Handing, Waking, Init
  <2>3. Quiet(G) BY <1>2, <1>3 DEF Quiet, NobodyAwake, Init, Cond
  <2> QED BY <2>1, <2>2, <2>3, FS_EmptySet DEF Rounds, Init, Cond
<1> QED BY <1>4, <1>5, <1>6, <1>7, <1>8, <1>9 DEF Good, Inv, Disciplined

LEMMA Always == ASSUME Disciplined PROVE Spec => []Inv
BY InitInv, NextInv, PTL DEF Spec

-----------------------------------------------------------------------------
(* What the objects promise *)

LEMMA AtUse ==
    ASSUME NEW G, Good(G), NEW t \in Thread, NEW place \in UsePlace, At(t, place)
    PROVE  /\ UseMoves(place, G[t]) # {} /\ G[t] \in Mode
BY Stands, Rules

\* A set of which any two members are one.
LEMMA AtMostOne ==
    ASSUME NEW S, \A t, u \in S : t = u
    PROVE  Cardinality(S) <= 1 /\ (S # {} => Cardinality(S) = 1)
<1>1. CASE S = {} BY <1>1, FS_EmptySet
<1>2. CASE S # {}
  <2>1. PICK t : t \in S BY <1>2
  <2>2. S = {t} BY <2>1
  <2>3. Cardinality(S) = 1 BY <2>2, FS_Singleton
  <2> QED BY <2>3
<1> QED BY <1>1, <1>2

LEMMA InvExclusion == Inv => Exclusion
<1> SUFFICES ASSUME NEW G, Good(G) PROVE Exclusion BY DEF Inv
<1> DEFINE I == Are("inside") \cup Are("add") \cup Are("get") \cup Are("poll") \cup Are("try")
           W == Are("writing") \cup Are("reading")
<1>1. Mutexes(G) /\ RwLocks(G) /\ Onces(G) /\ IsFiniteSet(Thread) BY DEF Good
<1>2. \A t, u \in I : t = u
  <2>1. ASSUME NEW t \in I PROVE t \in Thread /\ Owns(G[t], "mutex")
    <3>1. t \in Thread /\ \E place \in {"inside", "add", "get", "poll", "try"} : At(t, place)
      BY DEF Are
    <3>2. PICK place \in {"inside", "add", "get", "poll", "try"} : At(t, place) BY <3>1
    <3>3. UseMoves(place, G[t]) # {} BY <3>1, <3>2, AtUse DEF UsePlace
    <3> QED BY <3>1, <3>3 DEF UseMoves, Move
  <2> HIDE DEF I
  <2> QED BY <1>1, <2>1 DEF Mutexes, Owns, Mutex
<1>3. ASSUME Are("writing") # {} PROVE W # {} /\ \A t, u \in W : t = u
  <2>1. ASSUME NEW t \in Are("writing") PROVE t \in Thread /\ G[t].rw = "writer"
    <3>1. t \in Thread /\ UseMoves("writing", G[t]) # {} BY AtUse DEF Are, UsePlace
    <3> QED BY <3>1 DEF UseMoves, Move
  <2>2. ASSUME NEW t \in Are("reading") PROVE FALSE
    <3>1. t \in Thread /\ UseMoves("reading", G[t]) # {} BY AtUse DEF Are, UsePlace
    <3>2. t \in Readers(G) BY <3>1 DEF UseMoves, Move, Readers
    <3>3. read_waiters = 0 BY <1>1, <1>3, <2>1 DEF RwLocks
    <3>4. IsFiniteSet(Readers(G)) BY <1>1, FS_Subset DEF Readers
    <3> QED BY <1>1, <3>2, <3>3, <3>4, FS_EmptySet DEF RwLocks
  <2>3. \A t, u \in Are("writing") : t = u
    BY <1>1, <2>1 DEF RwLocks, Mutexes, Owns, Mutex
  <2> QED BY <1>3, <2>2, <2>3
<1>4. ASSUME Are("initialised") # {} PROVE executed /\ ran = 1
  <2>1. PICK t \in Thread : At(t, "initialised") BY <1>4 DEF Are
  <2>2. UseMoves("initialised", G[t]) # {} BY <2>1, AtUse DEF UsePlace
  <2>3. G[t].once = "knows" BY <2>2 DEF UseMoves, Move
  <2> QED BY <1>1, <2>3 DEF Onces
<1>5. Cardinality(I) <= 1 BY <1>2, AtMostOne
<1>6. Are("writing") # {} => Cardinality(W) = 1 BY <1>3, AtMostOne
<1> QED BY <1>4, <1>5, <1>6 DEF Exclusion

LEMMA InvNoCorrection == Inv => NoCorrection
<1> SUFFICES ASSUME NEW G, Good(G), Are("discount") # {} PROVE read_waiters > 0
  BY DEF Inv, NoCorrection
<1>1. PICK t \in Thread : At(t, "discount") BY DEF Are
<1>2. RwMoves("discount", G[t]) # {} BY <1>1, AtRw DEF RwPlace
<1>3. t \in Readers(G) BY <1>2 DEF RwMoves, Move, Readers
<1>4. IsFiniteSet(Readers(G)) /\ read_waiters = Cardinality(Readers(G))
  BY FS_Subset DEF Good, Readers, RwLocks
<1> QED BY <1>3, <1>4, FS_EmptySet, FS_CardinalityType

LEMMA InvBarrierRounds == ASSUME Limit = Cardinality(Thread) PROVE Inv => BarrierRounds
<1> SUFFICES ASSUME NEW G, Good(G), NEW t \in Thread
             PROVE  left[t] <= serial /\ serial <= arrived[t]
  BY DEF Inv, BarrierRounds
<1>1. Place(G, t) BY DEF Good, Rounds
<1>2. G[t].bar \in Bar /\ serial \in Int BY DEF Good, Types, Values, Mode
<1> QED BY <1>1, <1>2 DEF Place, Round, Bar

\* A thread that waits for the taker of its token is in no other call.
LEMMA Spinner ==
    ASSUME NEW c, NEW m, m.bar = "spins", Moves(c, m) # {}
    PROVE  c.at = "spin" /\ c.on = "barrier"
<1>1. ~Free(m) BY DEF Free
<1>2. c.at \notin MutexPlace
  <2>1. ASSUME NEW x
        PROVE  /\ ~In(m, x, {"begun", "back"}) /\ ~In(m, x, {"begun", "home"})
               /\ ~In(m, x, {"counted", "home"})
    BY <1>1 DEF In
  <2>2. ASSUME NEW x
        PROVE  /\ LockMoves(m, x) = {} /\ TryMoves(m, x) = {} /\ TakeMoves(m, x) = {}
               /\ OwnMoves(m, x) = {} /\ UnlockMoves(m, x) = {} /\ PostMoves(m, x) = {}
    BY <1>1, <2>1
       DEF LockMoves, TryMoves, TakeMoves, OwnMoves, UnlockMoves, PostMoves, MayUnlock, Move
  <2>3. ASSUME NEW place \in MutexPlace, NEW x PROVE MutexMoves(place, x, m) = {}
    BY <2>2 DEF MutexPlace, MutexMoves
  <2> QED BY <2>3, Rules
<1>3. c.at \notin RwPlace BY <1>1, Rules DEF RwMoves, Move
<1>4. c.at \notin WaitPlace BY <1>1, Rules DEF WaitMoves, Move
<1>5. c.at \notin OncePlace
  <2>1. OnceMoves(c.at, m) = {} BY <1>1 DEF OnceMoves, Move
  <2> QED BY <2>1, Rules
<1>6. c.at \notin UsePlace
  <2>1. UseMoves(c.at, m) = {} BY <1>1 DEF UseMoves, Move
  <2> QED BY <2>1, Rules
<1>7. c.at \in CondPlace BY <1>2, <1>3, <1>4, <1>5, <1>6 DEF Moves
<1>8. c.on # "cond" \/ CondMoves(c.at, m) = {} BY <1>1 DEF CondMoves, Move
<1>9. c.on = "barrier" /\ BarrierMoves(c.at, m) # {} BY <1>7, <1>8, Rules
<1>10. c.at = "spin" BY <1>9 DEF BarrierMoves, Move
<1> QED BY <1>9, <1>10

LEMMA InvNoLeftToken == ASSUME Limit = Cardinality(Thread) PROVE Inv => NoLeftToken
<1> SUFFICES ASSUME NEW G, Good(G), wait_block["barrier"] > 0
             PROVE  \E t \in Thread : At(t, "spin") /\ On(t) = "barrier"
  BY DEF Inv, NoLeftToken
<1>1. Rounds(G) BY DEF Good
<1>2. PICK t \in Thread : G[t].bar = "spins"
  <2>1. wait_block["barrier"] # 0 BY DEF Good, Types, Values, Cond
  <2> QED BY <1>1, <2>1 DEF Rounds, Quiet
<1>3. Legal(stack[t], G[t]) BY DEF Good, Legals
<1>4. stack[t] # <<>> BY <1>2, <1>3, Goes DEF Free
<1>5. Moves(Head(stack[t]), G[t]) # {} BY <1>3, <1>4, Goes
<1> QED BY <1>2, <1>4, <1>5, Spinner DEF At, On

-----------------------------------------------------------------------------
(* Theorems *)

\* One thread is inside the mutex, a writer is alone, and pthread_once returns when its
\* routine has been run, once: for any number of threads and any programs that keep to
\* the rules.
THEOREM Excluded == ASSUME Disciplined PROVE Spec => []Exclusion
BY Always, InvExclusion, PTL

\* A pthread_rwlock_unlock of a reader finds it counted: the correction of ptrwlock.c:99
\* is never made.
THEOREM Uncorrected == ASSUME Disciplined PROVE Spec => []NoCorrection
BY Always, InvNoCorrection, PTL

\* Where as many threads as the barrier counts use it, none leaves a round of it before
\* all have come to it, and one in each round is told that it is the serial thread.
THEOREM InRounds ==
    ASSUME Disciplined, Limit = Cardinality(Thread) PROVE Spec => []BarrierRounds
BY Always, InvBarrierRounds, PTL

\* A token of the barrier's condition variable is there only while the thread that posted
\* it waits for one to take it: no later wait ends at once.
THEOREM TokensTaken ==
    ASSUME Disciplined, Limit = Cardinality(Thread) PROVE Spec => []NoLeftToken
BY Always, InvNoLeftToken, PTL
=============================================================================
