------------------------------- MODULE SerLink -------------------------------
(***************************************************************************)
(* The serial transport of the remote debugger (bld/trap/ser/c/serlink.c): *)
(* a stop-and-wait protocol between the debugger (the client, built        *)
(* without SERVER) and the debug server (built with SERVER).  One block is *)
(* outstanding at a time; it carries a number, the receiver answers with a *)
(* single byte ACK or NAK that carries none, and a side that hears nothing *)
(* asks for the last response with RLR.                                    *)
(*                                                                         *)
(* The module starts where RemoteConnect has succeeded, and the two sides  *)
(* call RemotePut and RemoteGet in the order trap/common/remote.c (client) *)
(* and servacc.c (server) call them.                                       *)
(*                                                                         *)
(* The line is a FIFO of messages per direction.  It may lose a message or *)
(* damage a block, never forge a control byte or pass a damaged block      *)
(* through the CRC.                                                        *)
(***************************************************************************)
EXTENDS Integers, Sequences

CONSTANTS
    Wire,        \* block numbers the two bytes of the header can hold (65536)
    UInt,        \* values of the C type unsigned: 65536 or 2^32
    MAX_ERRORS,  \* errors of one BlockSend after which both sides ReSync (2)
    MaxTries,    \* silent WaitBytes that use up RemotePut's time limit (10)
    MaxPut,      \* bound: blocks each side puts
    MaxFault,    \* faults the line has before both sides are at rest again
    MaxJunk,     \* bound: pseudo-blocks a receiver sees in one damaged block
    Noise,       \* control bytes a damaged block may begin with, ACK excepted
    OneWay,      \* may the client send a request that wants no reply?
    Premature    \* may a wait end while an answer is still on its way?

ASSUME NumberAssumption ==
    /\ Wire \in Nat /\ Wire >= 2
    /\ UInt \in Nat /\ UInt >= Wire
ASSUME BoundAssumption ==
    /\ MAX_ERRORS \in Nat /\ MaxTries \in Nat
    /\ MaxPut \in Nat /\ MaxFault \in Nat /\ MaxJunk \in Nat
    /\ Noise \subseteq {"NAK", "RLR"}
    /\ OneWay \in BOOLEAN /\ Premature \in BOOLEAN

Last(s) == IF s = <<>> THEN 0 ELSE s[Len(s)]

Peer == {"client", "server"}
Other(p) == IF p = "client" THEN "server" ELSE "client"

VARIABLES
    mode,          \* what each side is doing in the link code
    wire,          \* wire[p]: what is on its way to p, oldest first
    SendBlkNo,     \* next block number to send
    ReceiveBlkNo,  \* next block number to receive
    LastResponse,  \* last response holder
    Errors,        \* errors so far, counted up to MAX_ERRORS + 1
    PrevErrors,    \* errors of the BlockSend before the current one
    tries,         \* silent WaitBytes since the block was last sent
    after,         \* the mode that follows the call in progress
    want,          \* is a reply to the current request wanted?
    cur,           \* history: the request put last, or last answered
    log,           \* history: requests, or answers, taken; oldest first
    emptied,       \* history: those of them RemoteGet returned as 0 bytes
    acked,         \* history: blocks for which BlockSend returned true
    unheard,       \* history: has a put run out of time while the other side
                   \* was outside of the link?
    faults         \* history: faults of the line since both sides were at rest

link == <<SendBlkNo, ReceiveBlkNo, LastResponse, Errors, PrevErrors, tries>>
vars == <<mode, wire, link, after, want, cur, log, emptied, acked, unheard, faults>>

-----------------------------------------------------------------------------
(* What travels on the line.                                               *)

Ctl == {"ACK", "NAK", "RLR"}
Response == {"ACK", "NAK"}
Block == [id : 1..MaxPut, no : 0..(Wire - 1), err : 0..(MAX_ERRORS + 1),
          reply : BOOLEAN]

\* A message is a control byte, an intact block, or the rest of a damaged one.
Byte(c) == [kind |-> c]
Frame(b) == [kind |-> "BLK", blk |-> b]
Junk == [kind |-> "JUNK"]
Message == {Byte(c) : c \in Ctl} \cup {Frame(b) : b \in Block} \cup {Junk}

\* Modes.  idle: the debugger is not in the link; get: WaitReceive; busy: the
\* server carries out a request; put: BlockSend waits for its answer; drain:
\* BlockSend discards what comes in; resync: ReSync.
Mode == {"idle", "get", "busy", "put", "drain", "resync"}
Listening == {"get", "put", "drain", "resync"}

Init ==
    /\ mode = [p \in Peer |-> IF p = "client" THEN "idle" ELSE "get"]
    /\ wire = [p \in Peer |-> <<>>]
    /\ SendBlkNo = [p \in Peer |-> 1]     \* RemoteConnect used number 0
    /\ ReceiveBlkNo = [p \in Peer |-> 1]
    /\ LastResponse = [p \in Peer |-> "ACK"]
    /\ Errors = [p \in Peer |-> 0]
    /\ PrevErrors = [p \in Peer |-> 0]
    /\ tries = [p \in Peer |-> 0]
    /\ after = [p \in Peer |-> "idle"]
    /\ want = [p \in Peer |-> FALSE]
    /\ cur = [p \in Peer |-> 0]
    /\ log = [p \in Peer |-> <<>>]
    /\ emptied = [p \in Peer |-> {}]
    /\ acked = [p \in Peer |-> {}]
    /\ unheard = FALSE
    /\ faults = 0

-----------------------------------------------------------------------------
(* The port.                                                               *)

\* p consumes its input down to "rest" and the bytes "out" go to the other side.
Exchange(p, rest, out) ==
    wire' = [wire EXCEPT ![p] = rest, ![Other(p)] = @ \o out]

\* ClearCom throws away what has arrived, which is any prefix of what is on
\* its way; a block of which only the beginning has arrived leaves junk.
Remains(s) ==
    {SubSeq(s, k + 1, Len(s)) : k \in 0..Len(s)}
    \cup {<<Junk>> \o SubSeq(s, k + 1, Len(s)) :
            k \in {j \in 1..Len(s) : s[j].kind = "BLK"}}

\* What the first byte of a message may look like to a side that waits.
Reads(m) == IF m.kind = "JUNK" THEN Noise \cup {"STX", "OTHER"}
            ELSE IF m.kind = "BLK" THEN {"STX"} ELSE {m.kind}

\* WaitByte returns SDATA_NO_DATA: nothing is coming, and nothing is about to
\* make the other side answer.
NoData(p) ==
    \/ Premature
    \/ /\ wire[p] = <<>>
       /\ \/ wire[Other(p)] = <<>>
          \/ mode[Other(p)] \notin Listening

\* The wait for an answer is a second, the wait that ends a drain 750 ms: when
\* the line falls silent the drain of the other side is over first.
NoAnswerYet(p) == NoData(p)      \* mutant: the wait is as short as the drain's
NoAnswer(p) == NoData(p) /\ (Premature \/ mode[Other(p)] # "drain")

\* One more error, counted as far as anyone looks.
Unlimited(n) == n + 1            \* mutant: the count is not cut off
OneMore(n) == IF n > MAX_ERRORS THEN n ELSE n + 1

\* ++SendBlkNo and ++ReceiveBlkNo.
Stuck(n) == n                    \* mutant: the number does not move on
NextNo(n) == (n + 1) % UInt

-----------------------------------------------------------------------------
(* BlockSend and RemotePut.                                                *)

\* The block BlockSend builds: the number the header has room for, and the
\* errors of the BlockSend before.
NewBlock(p, id, err, wanted) ==
    Frame([id |-> id, no |-> SendBlkNo[p] % Wire, err |-> err,
           reply |-> p = "client" /\ wanted])
Outgoing(p) == NewBlock(p, cur[p], PrevErrors[p], want[p])

\* The side that stops calling BlockSend goes on with this.
AfterPut(p, ok) == IF p = "client" /\ (~want[p] \/ ~ok) THEN "idle" ELSE "get"

\* The beginning of BlockSend up to the first wait.  Requests are counted; an
\* answer goes by the count of the request it answers.
RemotePut(p, id, wanted) ==
    /\ cur' = [cur EXCEPT ![p] = id]
    /\ want' = [want EXCEPT ![p] = wanted]
    /\ PrevErrors' = [PrevErrors EXCEPT ![p] = Errors[p]]
    /\ Errors' = [Errors EXCEPT ![p] = 0]
    /\ tries' = [tries EXCEPT ![p] = 0]
    /\ mode' = [mode EXCEPT ![p] = "put"]
    /\ \E rest \in Remains(wire[p]) :
          Exchange(p, rest, <<NewBlock(p, id, Errors[p], wanted)>>)
    /\ UNCHANGED <<SendBlkNo, ReceiveBlkNo, LastResponse, after, log, emptied, acked,
                   unheard>>

\* The last exchange is over on both sides, nothing is on its way and no
\* resynchronisation is due.
AtRest == /\ mode["client"] = "idle" /\ mode["server"] = "get"
          /\ \A p \in Peer : wire[p] = <<>> /\ Errors[p] <= MAX_ERRORS

Request == /\ mode["client"] = "idle"
           /\ cur["client"] < MaxPut
           /\ \E wanted \in IF OneWay THEN BOOLEAN ELSE {TRUE} :
                  RemotePut("client", cur["client"] + 1, wanted)
           /\ faults' = IF AtRest THEN 0 ELSE faults

Reply == /\ mode["server"] = "busy"
         /\ want["server"]
         /\ RemotePut("server", Last(log["server"]), TRUE)
         /\ UNCHANGED faults

\* A request that wants no reply: the server goes straight back to GetPacket.
NoReply ==
    /\ mode["server"] = "busy"
    /\ ~want["server"]
    /\ mode' = [mode EXCEPT !["server"] = "get"]
    /\ UNCHANGED <<wire, link, after, want, cur, log, emptied, acked, unheard, faults>>

\* ACK: BlockSend returns true, and RemotePut resynchronises when the
\* BlockSend before this one had too many errors.
PutAck(p) ==
    /\ mode[p] = "put" /\ wire[p] # <<>>
    /\ "ACK" \in Reads(Head(wire[p]))
    /\ Exchange(p, Tail(wire[p]), <<>>)
    /\ SendBlkNo' = [SendBlkNo EXCEPT ![p] = NextNo(@)]
    /\ acked' = [acked EXCEPT ![p] = @ \cup {cur[p]}]
    /\ after' = [after EXCEPT ![p] = AfterPut(p, TRUE)]
    /\ mode' = [mode EXCEPT ![p] =
                    IF PrevErrors[p] > MAX_ERRORS THEN "resync" ELSE AfterPut(p, TRUE)]
    /\ UNCHANGED <<ReceiveBlkNo, LastResponse, Errors, PrevErrors, tries, want,
                   cur, log, emptied, unheard, faults>>

\* NAK: the block goes out again and the time limit starts anew.
PutNak(p) ==
    /\ mode[p] = "put" /\ wire[p] # <<>>
    /\ "NAK" \in Reads(Head(wire[p]))
    /\ Exchange(p, Tail(wire[p]), <<Outgoing(p)>>)
    /\ Errors' = [Errors EXCEPT ![p] = OneMore(@)]
    /\ tries' = [tries EXCEPT ![p] = 0]
    /\ UNCHANGED <<mode, SendBlkNo, ReceiveBlkNo, LastResponse, PrevErrors, after,
                   want, cur, log, emptied, acked, unheard, faults>>

\* RLR: the other side puts as well; it gets the last response, and the block.
PutRlr(p) ==
    /\ mode[p] = "put" /\ wire[p] # <<>>
    /\ "RLR" \in Reads(Head(wire[p]))
    /\ Exchange(p, Tail(wire[p]), <<Byte(LastResponse[p]), Outgoing(p)>>)
    /\ tries' = [tries EXCEPT ![p] = 0]
    /\ UNCHANGED <<mode, SendBlkNo, ReceiveBlkNo, LastResponse, Errors, PrevErrors,
                   after, want, cur, log, emptied, acked, unheard, faults>>

\* Anything else: discard until the line is silent ...
PutOther(p) ==
    /\ mode[p] = "put" /\ wire[p] # <<>>
    /\ Reads(Head(wire[p])) \cap {"STX", "OTHER"} # {}
    /\ mode' = [mode EXCEPT ![p] = "drain"]
    /\ Exchange(p, Tail(wire[p]), <<>>)
    /\ UNCHANGED <<link, after, want, cur, log, emptied, acked, unheard, faults>>

Discard(p) ==
    /\ mode[p] = "drain" /\ wire[p] # <<>>
    /\ Exchange(p, Tail(wire[p]), <<>>)
    /\ UNCHANGED <<mode, link, after, want, cur, log, emptied, acked, unheard, faults>>

\* ... then ask for the last response.
Discarded(p) ==
    /\ mode[p] = "drain" /\ NoData(p)
    /\ Exchange(p, wire[p], <<Byte("RLR")>>)
    /\ Errors' = [Errors EXCEPT ![p] = OneMore(@)]
    /\ tries' \in {tries, [tries EXCEPT ![p] = IF @ < MaxTries THEN @ + 1 ELSE @]}
    /\ mode' = [mode EXCEPT ![p] = "put"]
    /\ UNCHANGED <<SendBlkNo, ReceiveBlkNo, LastResponse, PrevErrors, after,
                   want, cur, log, emptied, acked, unheard, faults>>

\* Silence while there is time left: ask for the last response.
PutSilence(p) ==
    /\ mode[p] = "put" /\ NoAnswer(p)
    /\ tries[p] < MaxTries
    /\ tries' = [tries EXCEPT ![p] = @ + 1]
    /\ Errors' = [Errors EXCEPT ![p] = OneMore(@)]
    /\ Exchange(p, wire[p], <<Byte("RLR")>>)
    /\ UNCHANGED <<mode, SendBlkNo, ReceiveBlkNo, LastResponse, PrevErrors, after,
                   want, cur, log, emptied, acked, unheard, faults>>

\* Silence beyond the limit of ten seconds, wherever the other side is: BlockSend
\* returns false, RemotePut REQUEST_FAILED, and SendBlkNo stays.
PutTimeout(p) ==
    /\ mode[p] = "put" /\ NoAnswer(p)
    /\ tries[p] = MaxTries
    /\ mode' = [mode EXCEPT ![p] = AfterPut(p, FALSE)]
    /\ unheard' = (unheard \/ mode[Other(p)] \notin Listening)
    /\ UNCHANGED <<wire, link, after, want, cur, log, emptied, acked, faults>>

-----------------------------------------------------------------------------
(* WaitReceive, BlockReceive and RemoteGet.                                *)

\* What RemoteGet returns to: the server carries out the request, the
\* debugger goes on.
AfterGet(p) == IF p = "client" THEN "idle" ELSE "busy"

\* The block has the number that comes next.
Anything(p, b) == TRUE           \* mutant: no comparison with ReceiveBlkNo
Expected(p, b) == b.no = ReceiveBlkNo[p]

\* RemoteGet: if the sender's error count is too high it resynchronises, sets
\* BytesReceived to zero and returns that, so the caller has an empty packet.
\* Session carries out a request all the same, whose code and 0x80 flag are in
\* PackBuff, with nothing behind it.
Emptied(b) == IF b.err > MAX_ERRORS THEN {b.id} ELSE {}

\* The block that was expected is acknowledged and handed over.
GetBlock(p) ==
    /\ mode[p] = "get" /\ wire[p] # <<>>
    /\ Head(wire[p]).kind = "BLK"
    /\ LET b == Head(wire[p]).blk IN
       /\ Expected(p, b)
       /\ Exchange(p, Tail(wire[p]), <<Byte("ACK")>>)
       /\ LastResponse' = [LastResponse EXCEPT ![p] = "ACK"]
       /\ ReceiveBlkNo' = [ReceiveBlkNo EXCEPT ![p] = NextNo(@)]
       /\ log' = [log EXCEPT ![p] = Append(@, b.id)]
       /\ emptied' = [emptied EXCEPT ![p] = @ \cup Emptied(b)]
       /\ want' = IF p = "server" THEN [want EXCEPT ![p] = b.reply] ELSE want
       /\ after' = [after EXCEPT ![p] = AfterGet(p)]
       /\ mode' = [mode EXCEPT ![p] =
                       IF b.err > MAX_ERRORS THEN "resync" ELSE AfterGet(p)]
    /\ UNCHANGED <<SendBlkNo, Errors, PrevErrors, tries, cur, acked, unheard, faults>>

\* An intact block with another number: acknowledged but not taken.
GetWrongNumber(p) ==
    /\ mode[p] = "get" /\ wire[p] # <<>>
    /\ Head(wire[p]).kind = "BLK"
    /\ ~Expected(p, Head(wire[p]).blk)
    /\ \E rest \in Remains(Tail(wire[p])) : Exchange(p, rest, <<Byte("ACK")>>)
    /\ LastResponse' = [LastResponse EXCEPT ![p] = "ACK"]
    /\ UNCHANGED <<mode, SendBlkNo, ReceiveBlkNo, Errors, PrevErrors, tries, after,
                   want, cur, log, emptied, acked, unheard, faults>>

\* Junk taken for a block: it is cut short or fails the CRC ...
GetDamaged(p) ==
    /\ mode[p] = "get" /\ wire[p] # <<>>
    /\ Head(wire[p]) = Junk
    /\ Exchange(p, Tail(wire[p]), <<Byte("NAK")>>)
    /\ LastResponse' = [LastResponse EXCEPT ![p] = "NAK"]
    /\ UNCHANGED <<mode, SendBlkNo, ReceiveBlkNo, Errors, PrevErrors, tries, after,
                   want, cur, log, emptied, acked, unheard, faults>>

\* ... or seems too long for the buffer, which gets no answer.
GetTooLong(p) ==
    /\ mode[p] = "get" /\ wire[p] # <<>>
    /\ Head(wire[p]) = Junk
    /\ \E rest \in Remains(Tail(wire[p])) : Exchange(p, rest, <<>>)
    /\ UNCHANGED <<mode, link, after, want, cur, log, emptied, acked, unheard, faults>>

\* mutant: WaitReceive has no answer to RLR.
GetRlrIgnored(p) ==
    /\ mode[p] = "get" /\ wire[p] # <<>>
    /\ "RLR" \in Reads(Head(wire[p]))
    /\ Exchange(p, Tail(wire[p]), <<>>)
    /\ UNCHANGED <<mode, link, after, want, cur, log, emptied, acked, unheard, faults>>

\* RLR: WaitReceive asks for the block again; LastResponse stays.
GetRlr(p) ==
    /\ mode[p] = "get" /\ wire[p] # <<>>
    /\ "RLR" \in Reads(Head(wire[p]))
    /\ Exchange(p, Tail(wire[p]), <<Byte("NAK")>>)
    /\ UNCHANGED <<mode, link, after, want, cur, log, emptied, acked, unheard, faults>>

\* mutant: RemoteGet has a time limit instead of FOREVER.
GetGivesUp(p) ==
    /\ mode[p] = "get" /\ p = "client"
    /\ mode' = [mode EXCEPT ![p] = "idle"]
    /\ UNCHANGED <<wire, link, after, want, cur, log, emptied, acked, unheard, faults>>

\* Any other byte is skipped.
GetOther(p) ==
    /\ mode[p] = "get" /\ wire[p] # <<>>
    /\ Reads(Head(wire[p])) \cap {"ACK", "NAK", "OTHER"} # {}
    /\ Exchange(p, Tail(wire[p]), <<>>)
    /\ UNCHANGED <<mode, link, after, want, cur, log, emptied, acked, unheard, faults>>

-----------------------------------------------------------------------------
(* ReSync, the line's faults, and the whole system.                        *)

\* A side alone in ReSync reads and ignores what it hears ...
ReSyncRead(p) ==
    /\ mode[p] = "resync" /\ wire[p] # <<>>
    /\ Exchange(p, Tail(wire[p]), <<>>)
    /\ UNCHANGED <<mode, link, after, want, cur, log, emptied, acked, unheard, faults>>

\* ... and the client sends SDATA_HI at another speed, which is noise.
ReSyncHi ==
    /\ mode["client"] = "resync"
    /\ mode["server"] # "resync" /\ \A p \in Peer : wire[p] = <<>>
    /\ Exchange("client", wire["client"], <<Junk>>)
    /\ UNCHANGED <<mode, link, after, want, cur, log, emptied, acked, unheard, faults>>

\* Both sides are there: they agree on a speed and go on; ClearCom cleans up.
ReSync ==
    /\ \A p \in Peer : mode[p] = "resync"
    /\ mode' = after
    /\ wire' = [p \in Peer |-> <<>>]
    /\ UNCHANGED <<link, after, want, cur, log, emptied, acked, unheard, faults>>

Lose(p, i) ==
    /\ wire' = [wire EXCEPT ![p] = SubSeq(@, 1, i - 1) \o SubSeq(@, i + 1, Len(@))]

Damage(p, i) ==
    /\ wire[p][i].kind = "BLK"
    /\ \E n \in 1..MaxJunk :
          wire' = [wire EXCEPT ![p] = SubSeq(@, 1, i - 1) \o [k \in 1..n |-> Junk]
                                      \o SubSeq(@, i + 1, Len(@))]

Fault ==
    /\ faults < MaxFault
    /\ faults' = faults + 1
    /\ \E p \in Peer : \E i \in DOMAIN wire[p] : Lose(p, i) \/ Damage(p, i)
    /\ UNCHANGED <<mode, link, after, want, cur, log, emptied, acked, unheard>>

BlockSend(p) == PutAck(p) \/ PutNak(p) \/ PutRlr(p) \/ PutOther(p) \/ Discard(p)
                \/ Discarded(p) \/ PutSilence(p) \/ PutTimeout(p)
WaitReceive(p) == GetBlock(p) \/ GetWrongNumber(p) \/ GetDamaged(p) \/ GetTooLong(p)
                  \/ GetRlr(p) \/ GetOther(p)
Carry == Reply \/ NoReply

Next ==
    \/ Request \/ Carry \/ ReSyncHi \/ ReSync \/ Fault
    \/ \E p \in Peer : BlockSend(p) \/ WaitReceive(p) \/ ReSyncRead(p)

Spec == Init /\ [][Next]_vars

\* Each side is a loop that keeps running while it is in the link code; the
\* server carries out what it was asked.  The debugger need not ask, the line
\* need not fail.
Fairness ==
    /\ \A p \in Peer : WF_vars(BlockSend(p)) /\ WF_vars(WaitReceive(p))
    /\ WF_vars(Carry) /\ WF_vars(ReSync)
FairSpec == Spec /\ Fairness

-----------------------------------------------------------------------------
TypeOK ==
    /\ mode \in [Peer -> Mode]
    /\ wire \in [Peer -> Seq(Message)]
    /\ SendBlkNo \in [Peer -> 0..(UInt - 1)]
    /\ ReceiveBlkNo \in [Peer -> 0..(UInt - 1)]
    /\ LastResponse \in [Peer -> Response]
    /\ Errors \in [Peer -> 0..(MAX_ERRORS + 1)]
    /\ PrevErrors \in [Peer -> 0..(MAX_ERRORS + 1)]
    /\ tries \in [Peer -> 0..MaxTries]
    /\ after \in [Peer -> Mode]
    /\ want \in [Peer -> BOOLEAN]
    /\ cur \in [Peer -> 0..MaxPut]
    /\ log \in [Peer -> Seq(1..MaxPut)]
    /\ emptied \in [Peer -> SUBSET (1..MaxPut)]
    /\ acked \in [Peer -> SUBSET (1..MaxPut)]
    /\ unheard \in BOOLEAN
    /\ faults \in 0..MaxFault

\* serlink.c BlockReceive: every request is carried out at most once and in the
\* order it was made, and every answer is read at most once, whatever the line
\* loses, however often a block is sent again, and even when the number of a
\* block that timed out is used for the next one.
InOrderOnce ==
    \A p \in Peer : \A i, j \in DOMAIN log[p] : i < j => log[p][i] < log[p][j]

\* serlink.c BlockSend: a block reported as acknowledged has been taken by the
\* other side.  Counters wider than the number in the header break it (397).
AckedTaken == \A p \in Peer : \A n \in acked[p] :
                  \E i \in DOMAIN log[Other(p)] : log[Other(p)][i] = n

\* serlink.c RemoteGet "Return: Number of bytes received" (961): no block that was
\* received and acknowledged is returned as nothing.  Lines 975-979 break it.
NothingEmptied == \A p \in Peer : acked[p] \cap emptied[Other(p)] = {}

\* remote.c DoRequest: the answer the debugger reads belongs to the request it
\* has just put, never to an earlier one, as long as no side has given up a put
\* while the other one was outside of the link.
AnswersCurrent ==
    [][log'["client"] # log["client"] /\ ~unheard =>
          Last(log'["client"]) = cur["client"]]_vars

\* remote.c DoRequest: the debugger gets out of every request, as RemotePut and, says
\* serlink.c 965, RemoteGet have a "time limit for getting the data" ...
RequestReturns == mode["client"] = "put" ~> mode["client"] = "idle"

\* ... as long as no side has given up a put while the other one was outside of
\* the link.
RequestEnds == mode["client"] = "put" ~> (mode["client"] = "idle" \/ unheard)

\* What the two sides promise each other, as an abstract channel.
Channel == INSTANCE SerChannel
           WITH Id <- 1..MaxPut, put <- cur, taken <- log, confirmed <- acked,
                due <- [p \in Peer |-> PrevErrors[p] > MAX_ERRORS]
LossyChannel == Channel!LossySpec
ReliableChannel == Channel!ReliableSpec
=============================================================================
