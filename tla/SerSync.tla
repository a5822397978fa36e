------------------------------- MODULE SerSync -------------------------------
(***************************************************************************)
(* How the two ends of the serial link agree on a speed                    *)
(* (bld/trap/ser/c/serlink.c): SetSyncTime brings both into step at the    *)
(* lowest speed, then Speed tries one speed after the other.  Nothing but  *)
(* the clock tells a side what the other one is trying: each attempt       *)
(* begins at a sync point counted in ticks from MarchToTheSameDrummer, and *)
(* a failed one is given up by both.  At a speed that lets single bytes    *)
(* through a string of 256 bytes goes from the client to the server, then  *)
(* from the server to the client, each with a handshake of its own.        *)
(*                                                                         *)
(* A run begins where both sides call ReSync with the same BaudCounter, or *)
(* RemoteConnect has found the limit of both.  The programs are fast       *)
(* compared to a tick; a byte needs no time, a string StringTicks.         *)
(*                                                                         *)
(* The port of DOS notes framing and overrun errors (serint.asm, ErrorFlag)*)
(* until Baud is called or CheckPendingError asks for them, and so do, in  *)
(* their ways, those of OS/2 and QNX; that of NT never reports one.        *)
(***************************************************************************)
EXTENDS Integers, Sequences

CONSTANTS
    Low,          \* LOW_BAUD, the slowest speed (7); speed 0 is the fastest
    SetTicks,     \* MAX_BAUD_SET_TICKS (6)
    Slop,         \* SYNC_SLOP (2)
    TestSlop,     \* TEST_SLOP (10)
    SyncTimeOut,  \* SYNC_TIME_OUT (10)
    HiWait,       \* MSEC2TICK(100), the server's wait for SDATA_HI (2)
    LokWait,      \* SEC2TICK(2), the client's wait for SDATA_LOK (36)
    ReplyWait,    \* MSEC2TICK(500) (9)
    StringWait,   \* MSEC2TICK(250), for a byte of the string (5)
    StringTicks,  \* ticks a string takes: SYNC_LEN characters
    Skew,         \* ticks by which Wait(1) may be late
    Lines,        \* the lines there may be, see Quality
    MaxLoss,      \* bound: bytes lost or damaged, beside what Lines says
    ClearsInput,  \* does ClearCom of the port clear what has been received?
    FlagsErrors   \* does the port keep an error for CheckPendingError?

Peer == {"client", "server"}
Other(p) == IF p = "client" THEN "server" ELSE "client"

Rate == 0..Low
MIN_BAUD == Low + 1

\* What gets through at a rate: single bytes, and a string to each of the peers.
Quality == SUBSET ({"byte"} \cup Peer)

ASSUME SpeedAssumption ==
    /\ Low \in Nat
    /\ {SetTicks, Slop, TestSlop, SyncTimeOut, HiWait, LokWait, ReplyWait,
        StringWait, StringTicks} \subseteq Nat \ {0}
    /\ Skew \in Nat /\ MaxLoss \in Nat /\ ClearsInput \in BOOLEAN
    /\ FlagsErrors \in BOOLEAN
    /\ Lines \subseteq [Rate -> Quality]

VARIABLES
    pc,           \* where each side is
    pass,         \* first or second drummer, first or second direction
    timer,        \* ticks until its wait is over
    clock,        \* GetTimerTicks
    point,        \* the sync point of the next attempt
    BaudCounter,  \* the speed it tries, or has settled on
    rate,         \* the speed its port is set to
    wire,         \* what it has received and not read
    flag,         \* is an error pending in its port?
    line,         \* what the line lets through
    limit,        \* history: BaudCounter at the beginning
    losses,       \* history: bytes lost or damaged
    turn          \* whose clock ticks next

time == <<timer, clock, point>>
vars == <<pc, pass, time, BaudCounter, rate, wire, flag, line, limit, losses, turn>>

-----------------------------------------------------------------------------
(* The line.  STRING is the sync string; JUNK a long run of other bytes.   *)

Byte == {"HI", "LOK", "ACK", "SYNC", "END", "TAK", "OTHER"}
Item == Byte \cup {"STRING", "JUNK"}

\* A side that waits for one byte, a side that reads until something comes,
\* a side that does not read.
Once == {"lok", "ack", "hi", "check", "ack-string", "tak-again"}
Loop == {"end", "sync", "tak"}
Resting == {"drum", "point", "slop", "string"}
Over == {"up", "down"}
Untimed == {"away", "hello", "lok", "ack", "drum"} \cup Over
Place == {"away", "hello", "sender"} \cup Once \cup Loop \cup Resting \cup Over

\* Both ports are at the same speed and the line carries single bytes.
Connected(p) == /\ rate[p] = rate[Other(p)]
                /\ "byte" \in line[rate[p]]

\* What a port may make of bytes it has not received well.  Baud clears what was
\* pending before the attempt.
Errors(q) == IF FlagsErrors /\ pc[q] \notin {"away", "hello", "lok", "ack", "drum"} \cup Over
             THEN BOOLEAN ELSE {FALSE}

\* What becomes of c, sent by p: [bytes, lost, error].
Carried(p, c) == c # "STRING" \/ Other(p) \in line[rate[p]]
Garbled(c) == IF c = "STRING" THEN {<<>>, <<"JUNK">>} ELSE {<<>>, <<"OTHER">>}
Heard(p, c) ==
    LET Hurt(bytes, n) == [bytes : bytes, lost : {n}, error : Errors(Other(p))]
    IN  IF pc[Other(p)] \in {"away"} \cup Over
        THEN {[bytes |-> <<>>, lost |-> 0, error |-> FALSE]}
        ELSE IF ~Connected(p) THEN Hurt(Garbled(c), 0)
        ELSE Hurt(Garbled(c), 1)
             \cup IF Carried(p, c) THEN {[bytes |-> <<c>>, lost |-> 0, error |-> FALSE]}
                  ELSE Hurt({<<"JUNK">>}, 0)

\* p sends c, with its own input cut down to rest, where "pending" are the errors.
SendWith(p, rest, c, pending) ==
    \E h \in Heard(p, c) :
        /\ losses + h.lost <= MaxLoss
        /\ losses' = losses + h.lost
        /\ wire' = [wire EXCEPT ![p] = rest, ![Other(p)] = @ \o h.bytes]
        /\ flag' = [pending EXCEPT ![Other(p)] = @ \/ h.error]
Send(p, rest, c) == SendWith(p, rest, c, flag)
Cleared(p) == [flag EXCEPT ![p] = FALSE]

\* p reads c; a run of junk outlasts any wait for one byte.
Take(p, c) == wire[p] # <<>> /\ Head(wire[p]) = c
Rest(p) == IF Head(wire[p]) = "JUNK" /\ pc[p] \in Once THEN wire[p] ELSE Tail(wire[p])
Drop(p) == wire' = [wire EXCEPT ![p] = Rest(p)] /\ UNCHANGED losses
Consume(p) == Drop(p) /\ UNCHANGED flag

Go(p, where, t) == /\ pc' = [pc EXCEPT ![p] = where]
                   /\ timer' = [timer EXCEPT ![p] = t]

\* p goes on to another place in the same call, with t ticks to wait there.
Moves(p, where, t) ==
    Go(p, where, t)
    /\ UNCHANGED <<pass, clock, point, BaudCounter, rate, line, limit, turn>>

-----------------------------------------------------------------------------
(* SetSyncTime, MarchToTheSameDrummer.                                     *)

\* p gets to ReSync; what it has received so far it has read.
Begin(p) ==
    /\ pc[p] = "away"
    /\ Go(p, "hello", HiWait)
    /\ rate' = [rate EXCEPT ![p] = Low]
    /\ UNCHANGED <<pass, clock, point, BaudCounter, wire, flag, line, limit, losses, turn>>

ClientHello ==
    /\ pc["client"] = "hello"
    /\ Send("client", wire["client"], "HI")
    /\ Moves("client", "lok", LokWait)

ServerHello ==
    /\ pc["server"] = "hello" /\ Take("server", "HI")
    /\ Send("server", Rest("server"), "LOK")
    /\ Moves("server", "ack", ReplyWait)

\* Anything else: another round of the loop in ReSync.
ServerNoHello ==
    /\ pc["server"] = "hello"
    /\ IF wire["server"] # <<>>
       THEN Head(wire["server"]) # "HI"
            /\ wire' = [wire EXCEPT !["server"] = Tail(@)] /\ UNCHANGED <<flag, losses>>
       ELSE timer["server"] = 0 /\ UNCHANGED <<wire, flag, losses>>
    /\ Moves("server", "hello", HiWait)

\* Wait(1), which may be late.
Drum(p) == \E t \in 1..(1 + Skew) : Moves(p, "drum", t)

ClientLok ==
    /\ pc["client"] = "lok" /\ Take("client", "LOK")
    /\ Send("client", Rest("client"), "ACK")
    /\ Drum("client")

ServerAck ==
    /\ pc["server"] = "ack" /\ Take("server", "ACK")
    /\ Consume("server")
    /\ Drum("server")

\* The wait for one byte c ends with another one or with nothing.
Disappointed(p, c) ==
    IF wire[p] # <<>> THEN Head(wire[p]) # c /\ Drop(p)
    ELSE timer[p] = 0 /\ UNCHANGED <<wire, losses>>

\* MarchToTheSameDrummer returns false: SetSyncTime is tried again, Speed fails.
NoDrummer(p) ==
    /\ pc[p] \in {"lok", "ack"}
    /\ Disappointed(p, IF p = "client" THEN "LOK" ELSE "ACK")
    /\ Go(p, IF pass[p] = 1 THEN "hello" ELSE "down", HiWait)
    /\ pass' = [pass EXCEPT ![p] = 1]
    /\ UNCHANGED <<clock, point, BaudCounter, rate, flag, line, limit, turn>>

\* The first drummer was SetSyncTime's, now Speed asks for its own.
SecondDrummer(p) ==
    /\ pc[p] = "drum" /\ timer[p] = 0 /\ pass[p] = 1
    /\ clock' = [clock EXCEPT ![p] = 0]
    /\ pass' = [pass EXCEPT ![p] = 2]
    /\ IF p = "client" THEN Go(p, "lok", LokWait) /\ UNCHANGED <<wire, flag, losses>>
       ELSE Go(p, "ack", ReplyWait) /\ Send(p, wire[p], "LOK")
    /\ UNCHANGED <<point, BaudCounter, rate, line, limit, turn>>

-----------------------------------------------------------------------------
(* Speed and SetBaud.                                                      *)

AttemptTicks == SetTicks + 3 * Slop
FullTest(b) == IF b = MIN_BAUD THEN 0
               ELSE Slop + TestSlop + 2 * SyncTimeOut + 2 * StringTicks

\* SetBaud begins: Baud gives the port speed b, or leaves it as it is for MIN_BAUD,
\* and clears its error; the side waits for sync point sp.
Attempt(p, b, sp, now) ==
    /\ BaudCounter' = [BaudCounter EXCEPT ![p] = b]
    /\ rate' = [rate EXCEPT ![p] = IF b = MIN_BAUD THEN @ ELSE b]
    /\ point' = [point EXCEPT ![p] = sp + AttemptTicks]
    /\ Go(p, "point", IF sp > now THEN sp - now ELSE 0)

FirstAttempt(p) ==
    /\ pc[p] = "drum" /\ timer[p] = 0 /\ pass[p] = 2
    /\ clock' = [clock EXCEPT ![p] = 0]
    /\ pass' = [pass EXCEPT ![p] = 1]
    /\ Attempt(p, BaudCounter[p], SetTicks, 0)
    /\ flag' = Cleared(p)
    /\ UNCHANGED <<wire, line, limit, losses, turn>>

\* SetBaud has failed: the next slower speed, if there is one.  The error of the port
\* is cleared at the same time; that of a side that is down nobody asks for.
Fails(p) ==
    /\ IF BaudCounter[p] >= Low
       THEN /\ BaudCounter' = [BaudCounter EXCEPT ![p] = MIN_BAUD]
            /\ Go(p, "down", 0)
            /\ UNCHANGED <<point, rate>>
       ELSE Attempt(p, BaudCounter[p] + 1, point[p], clock[p])
    /\ pass' = [pass EXCEPT ![p] = 1]
    /\ UNCHANGED <<clock, line, limit, turn>>

\* mutant: no time for the other side's sync point.
AtPointHasty(p) ==
    /\ pc[p] = "point" /\ timer[p] = 0
    /\ wire' = IF ClearsInput THEN [wire EXCEPT ![p] = <<>>] ELSE wire
    /\ Moves(p, "slop", 0)
    /\ UNCHANGED <<flag, losses>>

\* SyncPoint has been reached: ClearCom.
AtPoint(p) ==
    /\ pc[p] = "point" /\ timer[p] = 0
    /\ wire' = IF ClearsInput THEN [wire EXCEPT ![p] = <<>>] ELSE wire
    /\ Moves(p, "slop", Slop)
    /\ UNCHANGED <<flag, losses>>

SayHi(p) ==
    /\ pc[p] = "slop" /\ timer[p] = 0
    /\ Send(p, wire[p], "HI")
    /\ Moves(p, "hi", 2 * Slop)

\* The sender of the string in this pass, and the receiver, start.
Role(p, n) == IF (p = "client") = (n = 1) THEN "sender" ELSE "end"

HearHi(p) ==
    /\ pc[p] = "hi" /\ Take(p, "HI")
    /\ Consume(p)
    /\ point' = [point EXCEPT ![p] = @ + FullTest(BaudCounter[p])]
    /\ Go(p, Role(p, 1), SyncTimeOut)
    /\ UNCHANGED <<pass, clock, BaudCounter, rate, line, limit, turn>>

\* A direction is done: the other one, or SetBaud returns true.
Done(p) == IF pass[p] = 1
           THEN Go(p, Role(p, 2), SyncTimeOut) /\ pass' = [pass EXCEPT ![p] = 2]
           ELSE Go(p, "up", 0) /\ UNCHANGED pass

-----------------------------------------------------------------------------
(* SetBaudSender.  The handshake gives up after more than SyncTimeOut.     *)

SendSync(p) ==
    /\ pc[p] = "sender"
    /\ Send(p, wire[p], "SYNC")
    /\ Moves(p, "sync", SyncTimeOut + 1)

SyncAcked(p) ==
    /\ pc[p] = "sync" /\ Take(p, "ACK")
    /\ Send(p, Rest(p), "END")
    /\ Moves(p, "string", StringTicks)

StringSent(p) ==
    /\ pc[p] = "string" /\ timer[p] = 0
    /\ Send(p, wire[p], "STRING")
    /\ Moves(p, "tak", SyncTimeOut)

\* mutant: the answer to the ACK is not waited for.
StringTakenOnce(p) ==
    /\ pc[p] = "tak" /\ Take(p, "TAK")
    /\ Send(p, Rest(p), "ACK")
    /\ Done(p)
    /\ UNCHANGED <<clock, point, BaudCounter, rate, line, limit, turn>>

StringTaken(p) ==
    /\ pc[p] = "tak" /\ Take(p, "TAK")
    /\ Send(p, Rest(p), "ACK")
    /\ Moves(p, "tak-again", ReplyWait)

SenderDone(p) ==
    /\ pc[p] = "tak-again" /\ Take(p, "TAK")
    /\ Consume(p)
    /\ Done(p)
    /\ UNCHANGED <<clock, point, BaudCounter, rate, line, limit, turn>>

-----------------------------------------------------------------------------
(* SetBaudReceiver.                                                        *)

\* CheckSyncString begins with CheckPendingError.
SyncEnds(p) ==
    /\ pc[p] = "end" /\ Take(p, "END") /\ ~flag[p]
    /\ Consume(p)
    /\ Moves(p, "check", StringWait)

\* A string that comes before SYNC_END: its byte 24 is a SYNC_BYTE, its byte 140
\* a SYNC_END, and what follows is not a sync string.
StringTooSoon(p) ==
    /\ pc[p] = "end" /\ Take(p, "STRING") /\ ~flag[p]
    /\ Send(p, <<"JUNK">> \o Rest(p), "ACK")
    /\ Moves(p, "check", StringWait)

PendingError(p) ==
    /\ pc[p] = "end" /\ flag[p]
    /\ \/ Take(p, "END") /\ Drop(p) /\ flag' = Cleared(p)
       \/ Take(p, "STRING") /\ SendWith(p, <<"JUNK">> \o Rest(p), "ACK", Cleared(p))
    /\ Fails(p)

\* A byte of the string is wrong, and SetBaud fails while the rest is on its way.
StringSpoilt(p) ==
    /\ pc[p] = "check" /\ pc[Other(p)] = "string" /\ wire[p] = <<>>
    /\ IF Connected(p) /\ Carried(Other(p), "STRING")
       THEN losses < MaxLoss /\ losses' = losses + 1
       ELSE UNCHANGED losses
    /\ UNCHANGED wire /\ flag' = Cleared(p)
    /\ Fails(p)

StringGood(p) ==
    /\ pc[p] = "check" /\ Take(p, "STRING")
    /\ Send(p, Rest(p), "TAK")
    /\ Moves(p, "ack-string", ReplyWait)

ReceiverDone(p) ==
    /\ pc[p] = "ack-string" /\ Take(p, "ACK")
    /\ Send(p, Rest(p), "TAK")
    /\ Done(p)
    /\ UNCHANGED <<clock, point, BaudCounter, rate, line, limit, turn>>

-----------------------------------------------------------------------------
(* Both handshakes.                                                        *)

\* What is answered at once: SYNC_BYTE, and a late SDATA_HI, without a look at
\* the time.
Answers(p) == IF pc[p] = "end" THEN [SYNC |-> "ACK", HI |-> "HI"] ELSE [HI |-> "HI"]
Answer(p) ==
    /\ pc[p] \in {"sync", "end"} /\ wire[p] # <<>>
    /\ Head(wire[p]) \in DOMAIN Answers(p)
    /\ Send(p, Rest(p), Answers(p)[Head(wire[p])])
    /\ UNCHANGED <<pc, pass, time, BaudCounter, rate, line, limit, turn>>

\* What a loop is interested in; it skips the rest.
Awaited(where) == CASE where = "sync" -> {"ACK", "HI"}
                    [] where = "end" -> {"SYNC", "END", "HI", "STRING"}
                    [] where = "tak" -> {"TAK"}

Skip(p) ==
    /\ pc[p] \in Loop /\ wire[p] # <<>>
    /\ Head(wire[p]) \notin Awaited(pc[p])
    /\ timer[p] > 0
    /\ Consume(p)
    /\ UNCHANGED <<pc, pass, time, BaudCounter, rate, line, limit, turn>>

\* mutant: the sender waits for its ACK as long as it takes.
LoopEndsUnlessSync(p) ==
    /\ pc[p] \in Loop \ {"sync"} /\ timer[p] = 0
    /\ ~(wire[p] # <<>> /\ Head(wire[p]) \in Awaited(pc[p]))
    /\ IF wire[p] = <<>> THEN UNCHANGED <<wire, losses>> ELSE Drop(p)
    /\ flag' = Cleared(p)
    /\ Fails(p)

\* The time of a loop is up.
LoopEnds(p) ==
    /\ pc[p] \in Loop /\ timer[p] = 0
    /\ ~(wire[p] # <<>> /\ Head(wire[p]) \in Awaited(pc[p]))
    /\ IF wire[p] = <<>> THEN UNCHANGED <<wire, losses>> ELSE Drop(p)
    /\ flag' = Cleared(p)
    /\ Fails(p)

\* SetBaud waits for one byte and gets nothing or another one.
OnceEnds(p) ==
    /\ \/ pc[p] = "hi" /\ Disappointed(p, "HI")
       \/ pc[p] = "check" /\ Disappointed(p, "STRING")
       \/ pc[p] = "ack-string" /\ Disappointed(p, "ACK")
       \/ pc[p] = "tak-again" /\ Disappointed(p, "TAK")
    /\ flag' = Cleared(p)
    /\ Fails(p)

-----------------------------------------------------------------------------
(* Time.  A clock ticks when neither side has anything to do.              *)

Ready(p) == \/ pc[p] \in Resting \cup Once \cup Loop \cup {"hello"} /\ timer[p] = 0
            \/ pc[p] \in Once \cup Loop \cup {"hello"} /\ wire[p] # <<>>
            \/ pc[p] = "sender"
            \/ pc[p] = "hello" /\ p = "client"

\* The wait for the first byte of a string is no longer than for any other:
\* while the other side sends one, bytes keep coming in.
Timed(p) == /\ timer[p] > 0
            /\ ~(pc[p] = "check" /\ pc[Other(p)] = "string" /\ Connected(p))

Tick(p) ==
    /\ turn = p
    /\ \A q \in Peer : ~Ready(q)
    /\ \E q \in Peer : pc[q] \notin {"away"} \cup Over
    /\ timer' = IF Timed(p) THEN [timer EXCEPT ![p] = @ - 1] ELSE timer
    /\ clock' = IF pc[p] \in Untimed THEN clock ELSE [clock EXCEPT ![p] = @ + 1]
    /\ turn' = Other(p)
    /\ UNCHANGED <<pc, pass, point, BaudCounter, rate, wire, flag, line, limit, losses>>

SetSyncTime(p) == \/ Begin(p) \/ NoDrummer(p) \/ SecondDrummer(p)
                  \/ p = "client" /\ (ClientHello \/ ClientLok)
                  \/ p = "server" /\ (ServerHello \/ ServerNoHello \/ ServerAck)
SetBaudSender(p) == \/ SendSync(p) \/ SyncAcked(p) \/ StringSent(p) \/ StringTaken(p)
                    \/ SenderDone(p)
SetBaudReceiver(p) == \/ SyncEnds(p) \/ StringTooSoon(p) \/ PendingError(p)
                      \/ StringSpoilt(p) \/ StringGood(p) \/ ReceiverDone(p)
SetBaud(p) == \/ FirstAttempt(p) \/ AtPoint(p) \/ SayHi(p) \/ HearHi(p)
              \/ SetBaudSender(p) \/ SetBaudReceiver(p)
              \/ Answer(p) \/ Skip(p) \/ LoopEnds(p) \/ OnceEnds(p)

Init ==
    /\ line \in Lines
    /\ pc = [p \in Peer |-> "away"]
    /\ pass = [p \in Peer |-> 1]
    /\ timer = [p \in Peer |-> 0]
    /\ clock = [p \in Peer |-> 0]
    /\ point = [p \in Peer |-> 0]
    /\ limit \in Rate \cup {MIN_BAUD}
    /\ BaudCounter = [p \in Peer |-> limit]
    /\ rate = [p \in Peer |-> Low]
    /\ wire = [p \in Peer |-> <<>>]
    /\ flag = [p \in Peer |-> FALSE]
    /\ losses = 0
    /\ turn = "client"

Next == \E p \in Peer : SetSyncTime(p) \/ SetBaud(p) \/ Tick(p)
Spec == Init /\ [][Next]_vars
FairSpec == Spec /\ WF_vars(Next)

-----------------------------------------------------------------------------
TypeOK ==
    /\ pc \in [Peer -> Place]
    /\ pass \in [Peer -> {1, 2}]
    /\ timer \in [Peer -> Nat] /\ clock \in [Peer -> Nat] /\ point \in [Peer -> Nat]
    /\ BaudCounter \in [Peer -> Rate \cup {MIN_BAUD}]
    /\ rate \in [Peer -> Rate]
    /\ wire \in [Peer -> Seq(Item)]
    /\ flag \in [Peer -> BOOLEAN]
    /\ line \in [Rate -> Quality]
    /\ limit \in Rate \cup {MIN_BAUD}
    /\ losses \in 0..MaxLoss
    /\ turn \in Peer

\* serlink.c SetBaudReceiver, SetBaudSender: the server, which gets the last byte,
\* never settles on a speed unless the client has settled on the same.
ServerNotAlone ==
    pc["server"] = "up" => /\ pc["client"] = "up"
                           /\ BaudCounter["client"] = BaudCounter["server"]

\* Speeds at which the line carries everything; both have settled on b.
Usable(b) == line[IF b = MIN_BAUD THEN Low ELSE b] = {"byte"} \cup Peer
UsableFrom == {b \in limit..MIN_BAUD : Usable(b) /\ (b = MIN_BAUD => limit = b)}
Settle(b) == \A p \in Peer : pc[p] = "up" /\ BaudCounter[p] = b

\* serlink.c 302-306, Speed "sets up the highest possible baud rate": when no byte
\* is lost but those the line never carries, both sides settle on the fastest
\* speed from limit on at which the line carries everything, or fail if there is
\* none.  Port errors (CheckPendingError, 149-150) break this.
HighestSpeed ==
    losses = 0 /\ (\A p \in Peer : pc[p] \in Over) =>
        \/ UsableFrom = {} /\ \A p \in Peer : pc[p] = "down"
        \/ \E b \in UsableFrom : Settle(b) /\ \A h \in UsableFrom : b <= h

\* A string that is cut off because of its beginning leaves an error in the port that
\* has been set to the next speed, if the port keeps errors, and so on.
Spoilt(b) ==
    FlagsErrors /\ \E h \in limit..(b - 1) : "byte" \in line[h] /\ ~Usable(h)

\* serlink.c Speed, SetBaud, CheckSyncString: when no byte is lost but those the line
\* never carries, the two clocks keep both sides at the same attempt, a side that
\* has given up does not spoil the next one but by an error left in its port, and
\* both settle on one usable speed and pass over no other without such a reason.
BestSpeed ==
    losses = 0 /\ (\A p \in Peer : pc[p] \in Over) =>
        \/ (\A p \in Peer : pc[p] = "down") /\ \A h \in UsableFrom : Spoilt(h)
        \/ \E b \in UsableFrom : /\ Settle(b)
                                 /\ \A h \in UsableFrom : h < b => Spoilt(h)

\* serlink.c Speed and SetBaud: a side that tries speeds gets to an end, whatever
\* the line does and wherever the other side is.
SpeedEnds == \A p \in Peer : pc[p] = "point" ~> pc[p] \in Over
=============================================================================
