---------------------------- MODULE PtDiscipline -----------------------------
(***************************************************************************)
(* How a thread may use the objects of PtSync, one call after the other.   *)
(*                                                                         *)
(* A mode is what a thread has: which mutexes (ph), the read-write lock as *)
(* a reader or as a writer (rw), the certainty that the routine of         *)
(* pthread_once has run (once), its place in pthread_barrier_wait (bar),   *)
(* and whether its last pthread_mutex_lock or _trylock got the mutex (ok). *)
(* Moves says what a call may turn into and what the thread has then,      *)
(* whatever other threads do: nothing, where the call is a misuse.  A      *)
(* program is Legal if it comes, that way, to no misuse.  Nothing here     *)
(* looks at the objects themselves.                                        *)
(***************************************************************************)
EXTENDS PtSync

Ph == {"out", "sem", "own", "left"}     \* the semaphore; it and owner; no longer owner
Rw == {"-", "reader", "writer"}
Knowing == {"-", "first", "ran", "knows"}

\* The thread that came last wakes the others, and a place of its own names each of its steps.
Waking == {"last", "clears", "snaps", "tokens", "spins", "lets", "resets"}

\* The others: begun; past, counted by the barrier; counted by its condition variable;
\* awake, with a token; back from the wait; home, past the reset.
Bar == {"-", "begun", "past", "counted", "awake", "back", "home"} \cup Waking

Mode == [ph : [Mutex -> Ph], rw : Rw, once : Knowing, bar : Bar, ok : BOOLEAN]

Unbound == [ph |-> [x \in Mutex |-> "out"], rw |-> "-", once |-> "-", bar |-> "-", ok |-> TRUE]

Item == [at : STRING, on : Mutex \cup Cond]

Free(m) == m.bar = "-"
Owns(m, x) == m.ph[x] = "own"
Sets(m, x, ph) == [m EXCEPT !.ph[x] = ph]
Plays(m, bar) == [m EXCEPT !.bar = bar]

\* The only move of a call, if it is none that the guard rules out.
Move(guard, calls, m) == IF guard THEN {<<calls, m>>} ELSE {}

-----------------------------------------------------------------------------
(* Mutexes: that of the barrier is for pthread_barrier_wait, at its places *)

In(m, x, bars) == IF x = "access" THEN m.bar \in bars ELSE Free(m)

\* Who has taken the semaphore of a barrier wakes nobody and is woken by nobody.
Taken(m, x) ==
    [Sets(m, x, "sem") EXCEPT !.bar = IF x = "access" /\ @ = "back" THEN "home" ELSE @]

\* A writer and the thread that runs the routine of pthread_once keep their mutexes.
MayUnlock(m, x) ==
    /\ In(m, x, {"counted", "home"})
    /\ x = "block_mutex" => m.rw # "writer"
    /\ x = "once" => m.once \in {"-", "knows"}

LockMoves(m, x) ==
    LET may == In(m, x, {"begun", "back"}) IN
    Move(may /\ m.ph[x] = "out", <<Call("take", x)>>, m)
      \cup Move(may /\ Owns(m, x), <<>>, [m EXCEPT !.ok = FALSE])

TryMoves(m, x) ==
    LET may == Free(m) /\ x # "access" IN
    Move(may /\ m.ph[x] = "out", <<Call("take", x)>>, m)
      \cup Move(may /\ m.ph[x] \in {"out", "own"}, <<>>, [m EXCEPT !.ok = FALSE])

TakeMoves(m, x) ==
    Move(In(m, x, {"begun", "back"}) /\ m.ph[x] = "out", <<Call("own", x)>>, Taken(m, x))

OwnMoves(m, x) ==
    Move(In(m, x, {"begun", "home"}) /\ m.ph[x] = "sem",
         <<>>, [Sets(m, x, "own") EXCEPT !.ok = TRUE])

UnlockMoves(m, x) ==
    Move(MayUnlock(m, x) /\ Owns(m, x), <<Call("post", x)>>, Sets(m, x, "left"))
      \cup Move(MayUnlock(m, x) /\ m.ph[x] = "out" /\ x # "access", <<>>, m)

PostMoves(m, x) ==
    Move(In(m, x, {"counted", "home"}) /\ m.ph[x] = "left", <<>>, Sets(m, x, "out"))

-----------------------------------------------------------------------------
(* The condition variable of the program: all but the wait change no mode *)

Waits(c) ==
    <<Call("unlock", MutexOf(c)), Call("block", c), Call("leave", c), Call("lock", MutexOf(c))>>
TimedWaits(c) ==
    <<Call("unlock", MutexOf(c)), Call("timedblock", c), Call("leave", c), Call("pass", c),
      Call("lock", MutexOf(c))>>
Tokens(c) == <<Call("snap", c), Call("token", c), Call("spin", c)>>

CondMoves(at, m) ==
    LET c == "cond" IN
    CASE at = "wait" -> Move(Free(m) /\ Owns(m, "mutex"), Waits(c), m)
      [] at = "timedwait" -> Move(Free(m) /\ Owns(m, "mutex"), TimedWaits(c), m)
      [] at = "signal" -> Move(Free(m), <<Call("if", c), Call("let", c)>>, m)
      [] at = "broadcast" -> Move(Free(m), <<Call("while", c), Call("let", c)>>, m)
      [] at = "if" -> Move(Free(m), <<>>, m) \cup Move(Free(m), Tokens(c), m)
      [] at = "while" ->
             Move(Free(m), <<>>, m) \cup Move(Free(m), Tokens(c) \o <<Call("while", c)>>, m)
      [] OTHER -> Move(Free(m), <<>>, m)

\* That of the barrier: the last to come wakes all that are counted.
BarrierMoves(at, m) ==
    LET c == "barrier"
        plays(bar, calls, new) == Move(m.bar = bar, calls, Plays(m, new))
    IN
    CASE at = "wait" ->
             Move(m.bar = "past" /\ Owns(m, "access"), Waits(c), Plays(m, "counted"))
      [] at = "block" ->
             Move(m.bar = "counted" /\ m.ph["access"] = "out", <<>>, Plays(m, "awake"))
      [] at = "leave" -> plays("awake", <<>>, "back")
      [] at = "broadcast" -> plays("last", <<Call("while", c), Call("let", c)>>, "clears")
      [] at = "while" -> plays("clears", <<>>, "lets")
                           \cup plays("clears", Tokens(c) \o <<Call("while", c)>>, "snaps")
      [] at = "snap" -> plays("snaps", <<>>, "tokens")
      [] at = "token" -> plays("tokens", <<>>, "spins")
      [] at = "spin" -> plays("spins", <<>>, "clears")
      [] at = "let" -> plays("lets", <<>>, "resets")
      [] OTHER -> {}

-----------------------------------------------------------------------------
(* The other calls, and what a program does between its calls *)

RwMoves(at, m) ==
    LET fresh == Free(m) /\ m.rw = "-" /\ m.ph["block_mutex"] = "out"
        has == Free(m) /\ m.rw = "-" /\ Owns(m, "block_mutex")
        to(rw) == [m EXCEPT !.rw = rw]
    IN
    CASE at = "rdlock" -> Move(fresh, <<Block_mutex("lock"), Do("reader")>>, m)
      [] at = "tryrdlock" -> Move(fresh, <<Block_mutex("trylock"), Do("reader")>>, m)
      [] at = "wrlock" -> Move(fresh, <<Block_mutex("lock"), Do("writer")>>, m)
      [] at = "trywrlock" -> Move(fresh, <<Block_mutex("trylock"), Do("trywriter")>>, m)
      [] at = "reader" -> Move(has /\ m.ok, CountReader, m) \cup Move(fresh /\ ~m.ok, <<>>, m)
      [] at = "writer" ->
             Move(has /\ m.ok, <<>>, to("writer"))
               \cup Move(has /\ m.ok, <<Block_mutex("unlock"), Do("wrlock")>>, m)
      [] at = "trywriter" ->
             Move(has /\ m.ok, <<>>, to("writer"))
               \cup Move(has /\ m.ok, <<Block_mutex("unlock")>>, [m EXCEPT !.ok = FALSE])
               \cup Move(fresh /\ ~m.ok, <<>>, m)
      [] at = "count" -> Move(has, <<>>, to("reader"))
      [] at = "rwunlock" ->
             Move(Free(m) /\ m.rw = "writer" /\ Owns(m, "block_mutex"),
                  <<Block_mutex("unlock")>>, to("-"))
               \cup Move(Free(m) /\ m.rw = "reader" /\ m.ph["block_mutex"] = "out",
                         <<Block_mutex("lock"), Do("discount"), Block_mutex("unlock")>>, m)
      [] at = "discount" ->
             Move(Free(m) /\ m.rw = "reader" /\ Owns(m, "block_mutex"), <<>>, to("-"))
      [] OTHER -> {}

WaitMoves(at, m) ==
    CASE at = "barrier" ->
             Move(Free(m) /\ m.ph["access"] = "out",
                  <<Call("lock", "access"), Do("arrive"), Call("unlock", "access"), Do("left")>>,
                  Plays(m, "begun"))
      [] at = "arrive" ->
             LET may == m.bar = "begun" /\ Owns(m, "access") IN
             Move(may, <<Call("wait", "barrier")>>, Plays(m, "past"))
               \cup Move(may, <<Call("broadcast", "barrier"), Do("reset")>>, Plays(m, "last"))
      [] at = "reset" -> Move(m.bar = "resets", <<>>, Plays(m, "home"))
      [] at = "left" -> Move(m.bar = "home" /\ m.ph["access"] = "out", <<>>, Plays(m, "-"))
      [] OTHER -> {}

OnceMoves(at, m) ==
    LET to(once) == [m EXCEPT !.once = once] IN
    CASE at = "once" ->
             Move(Free(m) /\ m.ph["once"] = "out" /\ m.once \in {"-", "knows"},
                  <<Call("lock", "once"), Do("check"), Call("unlock", "once")>>, m)
      [] at = "check" ->
             LET may == Free(m) /\ Owns(m, "once") /\ m.once \in {"-", "knows"} IN
             Move(may, <<>>, to("knows"))
               \cup Move(may, <<Do("routine"), Do("executed")>>, to("first"))
      [] at = "routine" -> Move(Free(m) /\ m.once = "first", <<>>, to("ran"))
      [] at = "executed" -> Move(Free(m) /\ m.once = "ran", <<>>, to("knows"))
      [] OTHER -> {}

UseMoves(at, m) ==
    LET may == Free(m) /\ Owns(m, "mutex") IN
    CASE at \in {"inside", "add", "try"} -> Move(may, <<>>, m)
      [] at = "get" ->
             Move(may, <<>>, m) \cup Move(may, <<Call("wait", "cond"), Do("get")>>, m)
      [] at = "poll" ->
             Move(may, <<>>, m) \cup Move(may, <<Call("timedwait", "cond"), Do("try")>>, m)
      [] at = "reading" -> Move(Free(m) /\ m.rw = "reader", <<>>, m)
      [] at = "writing" -> Move(Free(m) /\ m.rw = "writer", <<>>, m)
      [] at = "initialised" -> Move(Free(m) /\ m.once = "knows", <<>>, m)
      [] at = "iflocked" -> Move(Free(m), <<>>, m)
      [] OTHER -> {}

-----------------------------------------------------------------------------
MutexPlace == {"lock", "trylock", "take", "own", "unlock", "post"}
MutexMoves(at, x, m) ==
    CASE at = "lock" -> LockMoves(m, x)
      [] at = "trylock" -> TryMoves(m, x)
      [] at = "take" -> TakeMoves(m, x)
      [] at = "own" -> OwnMoves(m, x)
      [] at = "unlock" -> UnlockMoves(m, x)
      [] at = "post" -> PostMoves(m, x)

CondPlace == {"wait", "timedwait", "block", "timedblock", "leave", "pass", "signal", "broadcast",
              "if", "while", "snap", "token", "spin", "let"}
RwPlace == {"rdlock", "tryrdlock", "wrlock", "trywrlock", "reader", "writer", "trywriter",
            "count", "rwunlock", "discount"}
WaitPlace == {"barrier", "arrive", "reset", "left"}
OncePlace == {"once", "check", "routine", "executed"}
UsePlace == {"inside", "add", "try", "get", "poll", "reading", "writing", "initialised", "iflocked"}

\* What the call c becomes and the mode m with it.
Moves(c, m) ==
    CASE c.at \in MutexPlace -> IF c.on \in Mutex THEN MutexMoves(c.at, c.on, m) ELSE {}
      [] c.at \in CondPlace -> IF c.on = "cond" THEN CondMoves(c.at, m)
                               ELSE IF c.on = "barrier" THEN BarrierMoves(c.at, m) ELSE {}
      [] c.at \in RwPlace -> RwMoves(c.at, m)
      [] c.at \in WaitPlace -> WaitMoves(c.at, m)
      [] c.at \in OncePlace -> OnceMoves(c.at, m)
      [] c.at \in UsePlace -> UseMoves(c.at, m)
      [] OTHER -> {}

\* Without the mutex a program goes past the two calls that depend on it.
After(s, m) ==
    IF Head(s).at = "iflocked" /\ ~m.ok
    THEN {<<SubSeq(s, 4, Len(s)), m>>}
    ELSE {<<move[1] \o Tail(s), move[2]>> : move \in Moves(Head(s), m)}

\* A set of programs and modes that goes on by itself, with no misuse: a thread makes
\* no call that has no move, and does not end in the middle of one.
Closed(L) ==
    /\ L \subseteq Seq(Item) \X Mode
    /\ \A x \in L : /\ x[1] = <<>> => Free(x[2])
                    /\ x[1] # <<>> => /\ Moves(Head(x[1]), x[2]) # {}
                                     /\ After(x[1], x[2]) \subseteq L

Legal(s, m) == \E L : Closed(L) /\ <<s, m>> \in L

\* What the proofs ask of a program: that each of its threads keeps to the rules.
Disciplined ==
    /\ IsFiniteSet(Thread)
    /\ \A p \in Programs : p \in [Thread -> Seq(Item)] /\ \A t \in Thread : Legal(p[t], Unbound)
=============================================================================
