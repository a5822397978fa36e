------------------------------ MODULE MCPtSync -------------------------------
(* Programs of three threads for PtSync, one for each kind of object.        *)
EXTENDS PtDiscipline, TLC

CONSTANTS t1, t2, t3

On3(a, b, c) == t1 :> a @@ t2 :> b @@ t3 :> c
All(a) == On3(a, a, a)

M(place) == Call(place, "mutex")
C(place) == Call(place, "cond")

Locker == <<M("lock"), M("inside"), M("unlock")>>
Trier == <<M("trylock"), M("iflocked"), M("inside"), M("unlock")>>
Twice == <<M("lock"), M("lock"), M("inside"), M("unlock")>>

Getter == <<M("lock"), M("get"), M("unlock")>>
Poller == <<M("lock"), M("poll"), M("unlock")>>
Adder == <<M("lock"), M("add"), C("signal"), M("unlock")>>
LateSignal == <<M("lock"), M("add"), M("unlock"), C("signal")>>
Broadcaster == <<M("lock"), M("add"), M("add"), C("broadcast"), M("unlock")>>

Reader == <<M("rdlock"), M("reading"), M("rwunlock")>>
Writer == <<M("wrlock"), M("writing"), M("rwunlock")>>
TryReader == <<M("tryrdlock"), M("iflocked"), M("reading"), M("rwunlock")>>
TryWriter == <<M("trywrlock"), M("iflocked"), M("writing"), M("rwunlock")>>

MCPrograms ==
    {On3(Locker, Trier, Twice),
     On3(Getter, Getter, Adder \o LateSignal),
     On3(Getter, Poller, LateSignal \o Adder),
     On3(Getter, Getter, Broadcaster),
     On3(Poller \o Getter, Poller, Adder \o LateSignal \o Adder),
     On3(Reader \o Writer, Writer, TryReader \o TryWriter),
     On3(Reader \o TryWriter, Writer \o TryReader, Reader \o Writer),
     All(<<M("barrier"), M("barrier")>>),
     All(<<M("once"), M("initialised")>>)}

\* The programs and modes that come from those in L by the rules of PtDiscipline.
RECURSIVE Onward(_)
Onward(L) ==
    LET new == UNION {After(x[1], x[2]) : x \in {y \in L : y[1] # <<>>}} \ L
    IN IF new = {} THEN L ELSE Onward(L \cup new)

\* What the proofs about PtSync assume, Disciplined and the count of the barrier, is so
\* of these programs: what comes from one is the closed set that Legal asks for.
ASSUME Discipline ==
    /\ IsFiniteSet(Thread) /\ Limit = Cardinality(Thread)
    /\ \A p \in Programs :
          /\ p \in [Thread -> Seq(Item)]
          /\ \A t \in Thread : Closed(Onward({<<p[t], Unbound>>}))
==============================================================================
