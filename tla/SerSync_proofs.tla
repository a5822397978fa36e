--------------------------- MODULE SerSync_proofs ---------------------------
(***************************************************************************)
(* Proofs about SerSync, for every number of speeds, every line, every     *)
(* number of lost bytes and every length of the waits: first that nobody   *)
(* settles on a speed alone, whatever gets lost; then that two who lose    *)
(* nothing find the best speed, but for the errors that strings which were *)
(* cut off leave behind in the ports.                                      *)
(***************************************************************************)
EXTENDS SerSync, SequenceTheorems, TLAPS

-----------------------------------------------------------------------------
(* What a side has been sent: with no SDATA_TAK, with one at most.         *)

TakFree(w) == \A i \in DOMAIN w : w[i] # "TAK"
OneTak(w) == \A i, j \in DOMAIN w : w[i] = "TAK" /\ w[j] = "TAK" => i = j

\* v has no more of them than w.
NoMore(v, w) == /\ TakFree(w) => TakFree(v)
                /\ OneTak(w) => OneTak(v)

LEMMA Tails ==
    ASSUME NEW w \in Seq(Item), w # <<>>
    PROVE  /\ Tail(w) \in Seq(Item)
           /\ NoMore(Tail(w), w)
           /\ TakFree(w) => Head(w) # "TAK"
           /\ Head(w) = "TAK" /\ OneTak(w) => TakFree(Tail(w))
<1>1. /\ Tail(w) \in Seq(Item) /\ Head(w) = w[1] /\ 1 \in DOMAIN w
      /\ \A i \in DOMAIN Tail(w) : i + 1 \in DOMAIN w /\ Tail(w)[i] = w[i + 1] /\ i \in 1..Len(w)
  OBVIOUS
<1>2. TakFree(w) => TakFree(Tail(w)) BY <1>1 DEF TakFree
<1>3. OneTak(w) => OneTak(Tail(w)) BY <1>1 DEF OneTak
<1>4. TakFree(w) => Head(w) # "TAK" BY <1>1 DEF TakFree
<1>5. Head(w) = "TAK" /\ OneTak(w) => TakFree(Tail(w)) BY <1>1 DEF OneTak, TakFree
<1> QED BY <1>1, <1>2, <1>3, <1>4, <1>5 DEF NoMore

LEMMA Appended ==
    ASSUME NEW w \in Seq(Item), NEW x \in Seq(Item)
    PROVE  /\ w \o x \in Seq(Item)
           /\ TakFree(x) => NoMore(w \o x, w)
           /\ TakFree(w) /\ x = <<"TAK">> => OneTak(w \o x)
<1>1. /\ w \o x \in Seq(Item)
      /\ \A i \in DOMAIN (w \o x) :
            \/ i \in DOMAIN w /\ (w \o x)[i] = w[i]
            \/ i - Len(w) \in DOMAIN x /\ (w \o x)[i] = x[i - Len(w)] /\ i \in Nat
  OBVIOUS
<1>2. TakFree(x) /\ TakFree(w) => TakFree(w \o x) BY <1>1 DEF TakFree
<1>3. TakFree(x) /\ OneTak(w) => OneTak(w \o x) BY <1>1 DEF TakFree, OneTak
<1>4. TakFree(w) /\ x = <<"TAK">> => OneTak(w \o x) BY <1>1 DEF TakFree, OneTak
<1> QED BY <1>1, <1>2, <1>3, <1>4 DEF NoMore

LEMMA Junked ==
    ASSUME NEW w \in Seq(Item)
    PROVE  <<"JUNK">> \o w \in Seq(Item) /\ NoMore(<<"JUNK">> \o w, w)
<1> DEFINE v == <<"JUNK">> \o w
<1>1. "JUNK" \in Item BY DEF Item
<1>2. /\ v \in Seq(Item)
      /\ \A i \in DOMAIN v : \/ i = 1 /\ v[i] = "JUNK"
                             \/ i - 1 \in DOMAIN w /\ v[i] = w[i - 1] /\ i \in Nat
  BY <1>1
<1> HIDE DEF v
<1>3. TakFree(w) => TakFree(v) BY <1>2 DEF TakFree
<1>4. OneTak(w) => OneTak(v) BY <1>2 DEF OneTak
<1> QED BY <1>2, <1>3, <1>4 DEF NoMore, v

LEMMA Empty == <<>> \in Seq(Item) /\ TakFree(<<>>) /\ OneTak(<<>>)
  BY DEF TakFree, OneTak

-----------------------------------------------------------------------------
(* What one step does to the wires.                                        *)

LEMMA Others == \A p \in Peer : Other(p) \in Peer /\ Other(p) # p
  BY DEF Peer, Other

\* What is left of c when nothing is lost but what the line never carries.
Intact(p, c) == IF Carried(p, c) THEN c ELSE "JUNK"

\* What may come of c, sent by p.
LEMMA Hears ==
    ASSUME NEW p \in Peer, NEW c, NEW h \in Heard(p, c)
    PROVE  /\ h.error \in BOOLEAN
           /\ h.error => /\ FlagsErrors
                         /\ pc[Other(p)] \notin {"away", "hello", "lok", "ack", "drum"}
           /\ \/ pc[Other(p)] \in {"away"} \cup Over /\ h.bytes = <<>> /\ h.lost = 0
              \/ /\ pc[Other(p)] \notin {"away"} \cup Over /\ ~Connected(p)
                 /\ h.bytes \in Garbled(c) /\ h.lost = 0
              \/ /\ pc[Other(p)] \notin {"away"} \cup Over /\ Connected(p)
                 /\ h.bytes \in Garbled(c) /\ h.lost = 1
              \/ /\ pc[Other(p)] \notin {"away"} \cup Over /\ Connected(p)
                 /\ h.bytes = <<Intact(p, c)>> /\ h.lost = 0
                 /\ h.error => ~Carried(p, c)
<1>1. \A e \in Errors(Other(p)) :
         /\ e \in BOOLEAN
         /\ e => /\ FlagsErrors
                 /\ pc[Other(p)] \notin {"away", "hello", "lok", "ack", "drum"}
  BY DEF Errors
<1>2. CASE pc[Other(p)] \in {"away"} \cup Over
  <2>1. h \in {[bytes |-> <<>>, lost |-> 0, error |-> FALSE]} BY <1>2, Zenon DEF Heard
  <2>2. h.bytes = <<>> /\ h.lost = 0 /\ h.error = FALSE BY <2>1
  <2> QED BY <1>2, <2>2
<1>3. CASE pc[Other(p)] \notin {"away"} \cup Over /\ ~Connected(p)
  <2>1. h \in [bytes : Garbled(c), lost : {0}, error : Errors(Other(p))]
    BY <1>3, Zenon DEF Heard
  <2>2. h.bytes \in Garbled(c) /\ h.lost = 0 /\ h.error \in Errors(Other(p)) BY <2>1
  <2> QED BY <1>1, <1>3, <2>2
<1>4. CASE pc[Other(p)] \notin {"away"} \cup Over /\ Connected(p)
  <2>1. \/ h \in [bytes : Garbled(c), lost : {1}, error : Errors(Other(p))]
        \/ Carried(p, c) /\ h \in {[bytes |-> <<c>>, lost |-> 0, error |-> FALSE]}
        \/ ~Carried(p, c) /\ h \in [bytes : {<<"JUNK">>}, lost : {0}, error : Errors(Other(p))]
    BY <1>4, Zenon DEF Heard
  <2>2. CASE h \in [bytes : Garbled(c), lost : {1}, error : Errors(Other(p))]
    <3>1. h.bytes \in Garbled(c) /\ h.lost = 1 /\ h.error \in Errors(Other(p)) BY <2>2
    <3> QED BY <1>1, <1>4, <3>1
  <2>3. CASE Carried(p, c) /\ h \in {[bytes |-> <<c>>, lost |-> 0, error |-> FALSE]}
    <3>1. h.bytes = <<c>> /\ h.lost = 0 /\ h.error = FALSE /\ Intact(p, c) = c
      BY <2>3 DEF Intact
    <3> QED BY <1>4, <3>1
  <2>4. CASE /\ ~Carried(p, c)
             /\ h \in [bytes : {<<"JUNK">>}, lost : {0}, error : Errors(Other(p))]
    <3>1. /\ h.bytes = <<"JUNK">> /\ h.lost = 0 /\ h.error \in Errors(Other(p))
          /\ Intact(p, c) = "JUNK"
      BY <2>4 DEF Intact
    <3> QED BY <1>1, <1>4, <2>4, <3>1
  <2> QED BY <2>1, <2>2, <2>3, <2>4
<1> QED BY <1>2, <1>3, <1>4

\* What p sends is added to what the other side has; a SDATA_TAK only if its port
\* has the same speed.
LEMMA SentWith ==
    ASSUME TypeOK, NEW p \in Peer, NEW rest \in Seq(Item), NEW c \in Byte \cup {"STRING"},
           NEW e \in [Peer -> BOOLEAN], SendWith(p, rest, c, e)
    PROVE  /\ losses' \in 0..MaxLoss /\ flag' \in [Peer -> BOOLEAN]
           /\ wire' \in [Peer -> Seq(Item)] /\ wire'[p] = rest
           /\ \/ NoMore(wire'[Other(p)], wire[Other(p)])
              \/ /\ c = "TAK" /\ rate[p] = rate[Other(p)]
                 /\ TakFree(wire[Other(p)]) => OneTak(wire'[Other(p)])
<1> DEFINE q == Other(p)
<1>1. q \in Peer /\ q # p BY Others
<1>2. PICK h \in Heard(p, c) :
        /\ losses + h.lost <= MaxLoss /\ losses' = losses + h.lost
        /\ wire' = [wire EXCEPT ![p] = rest, ![q] = @ \o h.bytes]
        /\ flag' = [e EXCEPT ![q] = @ \/ h.error]
  BY DEF SendWith
<1>3. /\ h.lost \in {0, 1} /\ h.bytes \in Seq(Item)
      /\ \/ h.bytes \in {<<>>, <<"JUNK">>, <<"OTHER">>, <<c>>} /\ c # "TAK"
         \/ h.bytes \in {<<>>, <<"JUNK">>, <<"OTHER">>}
         \/ h.bytes = <<"TAK">> /\ c = "TAK" /\ rate[p] = rate[q]
  <2>1. \A x \in {"JUNK", "OTHER", c} : x \in Item BY DEF Item, Byte
  <2>2. \A x \in Item : <<x>> \in Seq(Item) OBVIOUS
  <2>3. \A g \in Garbled(c) : g \in {<<>>, <<"JUNK">>, <<"OTHER">>} BY DEF Garbled
  <2>4. Intact(p, c) \in {c, "JUNK"} BY DEF Intact
  <2>5. \/ h.lost = 0 /\ h.bytes = <<>>
        \/ h.lost \in {0, 1} /\ h.bytes \in Garbled(c)
        \/ h.lost = 0 /\ h.bytes = <<Intact(p, c)>> /\ Connected(p)
    BY <1>2, Hears
  <2>6. h.lost \in {0, 1} BY <2>5
  <2>7. \/ h.bytes \in {<<>>, <<"JUNK">>, <<"OTHER">>}
        \/ h.bytes = <<c>> /\ Connected(p)
    <3>0. CASE h.bytes = <<>> BY <3>0
    <3>1. CASE h.bytes \in Garbled(c) BY <2>3, <3>1
    <3>2. CASE h.bytes = <<Intact(p, c)>> /\ Connected(p)
      <4>1. Intact(p, c) = "JUNK" => h.bytes = <<"JUNK">> BY <3>2
      <4>2. Intact(p, c) = c => h.bytes = <<c>> BY <3>2
      <4> QED BY <2>4, <3>2, <4>1, <4>2
    <3> QED BY <2>5, <3>0, <3>1, <3>2
  <2>8. h.bytes \in Seq(Item) BY <2>1, <2>2, <2>7, Empty
  <2> QED BY <2>6, <2>7, <2>8 DEF Connected
<1>4. wire[p] \in Seq(Item) /\ wire[q] \in Seq(Item) /\ wire \in [Peer -> Seq(Item)]
  BY <1>1 DEF TypeOK
<1>5. wire'[p] = rest /\ wire'[q] = wire[q] \o h.bytes BY <1>1, <1>2, <1>4
<1>6. h.bytes # <<"TAK">> => TakFree(h.bytes) BY <1>3 DEF TakFree
<1>7. wire' \in [Peer -> Seq(Item)] BY <1>1, <1>2, <1>3, <1>4, Appended
<1>8. losses' \in 0..MaxLoss /\ flag' \in [Peer -> BOOLEAN]
  <2>1. losses \in Nat /\ MaxLoss \in Nat BY SpeedAssumption DEF TypeOK
  <2>2. h.lost = 0 => losses' \in 0..MaxLoss BY <1>2, <2>1
  <2>3. h.lost = 1 => losses' \in 0..MaxLoss BY <1>2, <2>1
  <2>4. flag' \in [Peer -> BOOLEAN]
    <3>1. (e[q] \/ h.error) \in BOOLEAN OBVIOUS
    <3> QED BY <1>1, <1>2, <3>1
  <2> QED BY <1>3, <2>2, <2>3, <2>4
<1>9. CASE h.bytes = <<"TAK">>
  <2>1. c = "TAK" /\ rate[p] = rate[q]
    <3>1. h.bytes # <<>> /\ h.bytes # <<"JUNK">> /\ h.bytes # <<"OTHER">>
      <4>1. Len(h.bytes) = 1 /\ h.bytes[1] = "TAK" BY <1>9
      <4> QED BY <4>1
    <3>2. h.bytes = <<c>> => c = "TAK"
      <4>1. h.bytes[1] = "TAK" BY <1>9
      <4> QED BY <4>1
    <3> QED BY <1>3, <3>1, <3>2
  <2>2. TakFree(wire[q]) => OneTak(wire'[q]) BY <1>3, <1>4, <1>5, <1>9, Appended
  <2> QED BY <1>5, <1>7, <1>8, <2>1, <2>2
<1>10. CASE h.bytes # <<"TAK">>
  BY <1>3, <1>4, <1>5, <1>6, <1>7, <1>8, <1>10, Appended
<1> QED BY <1>9, <1>10

LEMMA Sent ==
    ASSUME TypeOK, NEW p \in Peer, NEW rest \in Seq(Item), NEW c \in Byte \cup {"STRING"},
           Send(p, rest, c)
    PROVE  /\ losses' \in 0..MaxLoss /\ flag' \in [Peer -> BOOLEAN]
           /\ wire' \in [Peer -> Seq(Item)] /\ wire'[p] = rest
           /\ \/ NoMore(wire'[Other(p)], wire[Other(p)])
              \/ /\ c = "TAK" /\ rate[p] = rate[Other(p)]
                 /\ TakFree(wire[Other(p)]) => OneTak(wire'[Other(p)])
<1>1. PICK e \in [Peer -> BOOLEAN] : e = flag BY DEF TypeOK
<1>2. SendWith(p, rest, c, e) BY <1>1 DEF Send
<1> QED BY <1>2, SentWith

LEMMA Read ==
    ASSUME TypeOK, NEW p \in Peer, wire[p] # <<>>
    PROVE  /\ Rest(p) \in Seq(Item) /\ NoMore(Rest(p), wire[p])
           /\ TakFree(wire[p]) => Head(wire[p]) # "TAK"
           /\ Take(p, "TAK") /\ OneTak(wire[p]) => TakFree(Rest(p))
<1>1. PICK w \in Seq(Item) : w = wire[p] BY DEF TypeOK
<1>2. NoMore(w, w) BY DEF NoMore
<1>3. /\ Tail(w) \in Seq(Item) /\ NoMore(Tail(w), w)
      /\ TakFree(w) => Head(w) # "TAK"
      /\ Head(w) = "TAK" /\ OneTak(w) => TakFree(Tail(w))
  BY <1>1, Tails
<1>4. Rest(p) = w \/ Rest(p) = Tail(w) BY <1>1 DEF Rest
<1>5. Take(p, "TAK") => Head(w) = "TAK" /\ Rest(p) = Tail(w) BY <1>1 DEF Rest, Take
<1> QED BY <1>1, <1>2, <1>3, <1>4, <1>5

Flow == /\ wire' \in [Peer -> Seq(Item)] /\ losses' \in 0..MaxLoss
        /\ flag' \in [Peer -> BOOLEAN]
        /\ NoMore(wire'["server"], wire["server"])

LEMMA Flows ==
    ASSUME TypeOK, NEW p \in Peer, NEW rest \in Seq(Item), NEW c \in Byte \cup {"STRING"},
           c # "TAK" \/ p = "server", Send(p, rest, c), NoMore(rest, wire[p])
    PROVE  Flow
<1>1. CASE p = "server" BY <1>1, Sent DEF Flow
<1>2. CASE p = "client" BY <1>2, Sent DEF Flow, Other
<1> QED BY <1>1, <1>2 DEF Peer

LEMMA Unread ==
    ASSUME TypeOK, NEW p \in Peer, NEW c \in Byte \cup {"STRING"},
           c # "TAK" \/ p = "server", Send(p, wire[p], c)
    PROVE  Flow
<1>1. PICK r \in Seq(Item) : r = wire[p] BY DEF TypeOK
<1>2. Send(p, r, c) /\ NoMore(r, wire[p]) BY <1>1 DEF Send, NoMore
<1> QED BY <1>2, Flows

LEMMA Reply ==
    ASSUME TypeOK, NEW p \in Peer, NEW c \in Byte \cup {"STRING"}, wire[p] # <<>>,
           c # "TAK" \/ p = "server", Send(p, Rest(p), c)
    PROVE  Flow
<1>1. PICK r \in Seq(Item) : r = Rest(p) BY Read
<1>2. Send(p, r, c) /\ NoMore(r, wire[p]) BY <1>1, Read DEF Send
<1> QED BY <1>2, Flows

LEMMA Dropped ==
    ASSUME TypeOK, NEW p \in Peer, wire[p] # <<>>, Drop(p), flag' \in [Peer -> BOOLEAN]
    PROVE  Flow
<1>1. Rest(p) \in Seq(Item) /\ NoMore(Rest(p), wire[p]) BY Read
<1>2. /\ wire \in [Peer -> Seq(Item)] /\ losses \in 0..MaxLoss
      /\ wire' = [wire EXCEPT ![p] = Rest(p)] /\ losses' = losses
  BY DEF TypeOK, Drop
<1>3. wire' \in [Peer -> Seq(Item)] BY <1>1, <1>2
<1>4. wire'["server"] = IF p = "server" THEN Rest(p) ELSE wire["server"] BY <1>2 DEF Peer
<1>5. NoMore(wire'["server"], wire["server"]) BY <1>1, <1>4 DEF NoMore
<1> QED BY <1>2, <1>3, <1>5 DEF Flow

LEMMA Consumed ==
    ASSUME TypeOK, NEW p \in Peer, wire[p] # <<>>, Consume(p)
    PROVE  Flow
<1>1. Drop(p) /\ flag' \in [Peer -> BOOLEAN] BY DEF Consume, TypeOK
<1> QED BY <1>1, Dropped

LEMMA Silent ==
    ASSUME TypeOK, UNCHANGED <<wire, losses>>, flag' \in [Peer -> BOOLEAN]
    PROVE  Flow
  BY DEF TypeOK, Flow, NoMore

LEMMA Ended ==
    ASSUME TypeOK, NEW p \in Peer, NEW c, Disappointed(p, c), flag' \in [Peer -> BOOLEAN]
    PROVE  Flow
<1>1. CASE wire[p] # <<>> BY <1>1, Dropped DEF Disappointed
<1>2. CASE wire[p] = <<>> BY <1>2, Silent DEF Disappointed
<1> QED BY <1>1, <1>2

\* The string that comes too soon: the answer goes, the rest of the string stays.
LEMMA Premature ==
    ASSUME TypeOK, NEW p \in Peer, NEW e \in [Peer -> BOOLEAN], wire[p] # <<>>,
           SendWith(p, <<"JUNK">> \o Rest(p), "ACK", e)
    PROVE  Flow
<1>1. PICK r \in Seq(Item) : r = Rest(p) BY Read
<1>2. PICK s \in Seq(Item) : s = <<"JUNK">> \o r BY Junked
<1>3. SendWith(p, s, "ACK", e) BY <1>1, <1>2 DEF SendWith
<1>4. NoMore(s, wire[p]) BY <1>1, <1>2, Read, Junked DEF NoMore
<1>5. /\ losses' \in 0..MaxLoss /\ flag' \in [Peer -> BOOLEAN]
      /\ wire' \in [Peer -> Seq(Item)] /\ wire'[p] = s
      /\ NoMore(wire'[Other(p)], wire[Other(p)])
  BY <1>3, SentWith DEF Byte
<1> QED BY <1>4, <1>5 DEF Flow, Peer, Other

\* Only the two steps of the client that send a SDATA_TAK can add one to what the
\* server has.
LEMMA WiresFlow ==
    ASSUME TypeOK, NEW p \in Peer, SetSyncTime(p) \/ SetBaud(p) \/ Tick(p),
           ~(p = "client" /\ (StringGood(p) \/ ReceiverDone(p)))
    PROVE  Flow
<1> USE DEF Byte
<1>0. flag \in [Peer -> BOOLEAN] /\ Cleared(p) \in [Peer -> BOOLEAN]
  BY DEF TypeOK, Cleared
<1>1. CASE Begin(p) \/ FirstAttempt(p) \/ Tick(p)
  BY <1>0, <1>1, Silent DEF Begin, FirstAttempt, Tick
<1>2. CASE p = "client" /\ (ClientHello \/ ClientLok)
  BY <1>2, Unread, Reply DEF ClientHello, ClientLok, Take
<1>3. CASE p = "server" /\ (ServerHello \/ ServerAck)
  BY <1>3, Reply, Consumed DEF ServerHello, ServerAck, Take
<1>4. CASE p = "server" /\ ServerNoHello
  <2>1. CASE wire["server"] = <<>> BY <1>0, <1>4, <2>1, Silent DEF ServerNoHello
  <2>2. CASE wire["server"] # <<>>
    <3>1. wire' = [wire EXCEPT !["server"] = Tail(@)] /\ UNCHANGED <<flag, losses>>
      BY <1>4, <2>2 DEF ServerNoHello
    <3>2. PICK w \in Seq(Item) : w = wire["server"] BY DEF TypeOK, Peer
    <3>3. Tail(w) \in Seq(Item) /\ NoMore(Tail(w), w) BY <2>2, <3>2, Tails
    <3>4. wire'["server"] = Tail(w) /\ wire' \in [Peer -> Seq(Item)]
      BY <3>1, <3>2, <3>3 DEF TypeOK, Peer
    <3> QED BY <3>1, <3>2, <3>3, <3>4 DEF Flow, TypeOK
  <2> QED BY <2>1, <2>2
<1>5. CASE NoDrummer(p) BY <1>0, <1>5, Ended DEF NoDrummer
<1>6. CASE SecondDrummer(p) BY <1>0, <1>6, Silent, Unread DEF SecondDrummer
<1>7. CASE AtPoint(p)
  <2>1. CASE ClearsInput
    <3>1. wire' = [wire EXCEPT ![p] = <<>>] /\ UNCHANGED <<flag, losses>> BY <1>7, <2>1 DEF AtPoint
    <3>2. wire \in [Peer -> Seq(Item)] BY DEF TypeOK
    <3>3. wire' \in [Peer -> Seq(Item)] BY <3>1, <3>2, Empty
    <3>4. wire'["server"] = IF p = "server" THEN <<>> ELSE wire["server"]
      BY <3>1, <3>2 DEF Peer
    <3> QED BY <3>1, <3>3, <3>4, Empty DEF Flow, TypeOK, NoMore
  <2> QED BY <1>0, <1>7, <2>1, Silent DEF AtPoint
<1>8. CASE SayHi(p) \/ SendSync(p) \/ StringSent(p)
  BY <1>8, Unread DEF SayHi, SendSync, StringSent
<1>9. CASE HearHi(p) \/ SenderDone(p) \/ SyncEnds(p)
  BY <1>9, Consumed DEF HearHi, SenderDone, SyncEnds, Take
<1>10. CASE SyncAcked(p) \/ StringTaken(p)
  BY <1>10, Reply DEF SyncAcked, StringTaken, Take
<1>11. CASE StringTooSoon(p)
  BY <1>0, <1>11, Premature DEF StringTooSoon, Take, Send
<1>12. CASE p = "server" /\ (StringGood(p) \/ ReceiverDone(p))
  BY <1>12, Reply DEF StringGood, ReceiverDone, Take
<1>13. CASE Answer(p)
  <2>1. PICK a : a = Answers(p)[Head(wire[p])] OBVIOUS
  <2>2. a \in {"ACK", "HI"} BY <1>13, <2>1 DEF Answer, Answers
  <2>3. Send(p, Rest(p), a) /\ wire[p] # <<>> BY <1>13, <2>1 DEF Answer, Send
  <2> QED BY <2>2, <2>3, Reply
<1>14. CASE Skip(p) BY <1>14, Consumed DEF Skip
<1>15. CASE LoopEnds(p) BY <1>0, <1>15, Dropped, Silent DEF LoopEnds
<1>16. CASE OnceEnds(p) BY <1>0, <1>16, Ended DEF OnceEnds
<1>17. CASE PendingError(p)
  <2>1. CASE Drop(p) /\ flag' = Cleared(p) BY <1>0, <1>17, <2>1, Dropped DEF PendingError, Take
  <2>2. CASE SendWith(p, <<"JUNK">> \o Rest(p), "ACK", Cleared(p))
    BY <1>0, <1>17, <2>2, Premature DEF PendingError, Take
  <2> QED BY <1>17, <2>1, <2>2 DEF PendingError
<1>18. CASE StringSpoilt(p)
  <2>1. UNCHANGED wire /\ flag' \in [Peer -> BOOLEAN] BY <1>0, <1>18 DEF StringSpoilt
  <2>2. losses \in Nat /\ MaxLoss \in Nat BY SpeedAssumption DEF TypeOK
  <2>3. losses' \in 0..MaxLoss BY <1>18, <2>2 DEF StringSpoilt, TypeOK
  <2> QED BY <2>1, <2>3 DEF Flow, TypeOK, NoMore
<1> QED
  BY <1>1, <1>2, <1>3, <1>4, <1>5, <1>6, <1>7, <1>8, <1>9, <1>10, <1>11, <1>12, <1>13,
     <1>14, <1>15, <1>16, <1>17, <1>18 DEF SetSyncTime, SetBaud, SetBaudSender, SetBaudReceiver, Peer

-----------------------------------------------------------------------------
(* Where a side is, and at which speed.                                    *)

LEMMA Times ==
    /\ \A t \in {Low, SetTicks, Slop, TestSlop, SyncTimeOut, HiWait, LokWait, ReplyWait,
                 StringWait, StringTicks, Skew, AttemptTicks} : t \in Nat
    /\ \A b \in Rate \cup {MIN_BAUD} : FullTest(b) \in Nat
  BY SpeedAssumption DEF AttemptTicks, FullTest

\* The types of all but the wires.
Local == /\ pc \in [Peer -> Place] /\ pass \in [Peer -> {1, 2}]
         /\ timer \in [Peer -> Nat] /\ clock \in [Peer -> Nat] /\ point \in [Peer -> Nat]
         /\ BaudCounter \in [Peer -> Rate \cup {MIN_BAUD}] /\ rate \in [Peer -> Rate]
         /\ line \in [Rate -> Quality] /\ limit \in Rate \cup {MIN_BAUD} /\ turn \in Peer

LEMMA Moved ==
    ASSUME Local, NEW p \in Peer, NEW w \in Place, NEW t \in Nat, Moves(p, w, t)
    PROVE  Local'
  BY DEF Local, Moves, Go

LEMMA Attempted ==
    ASSUME Local, NEW p \in Peer, NEW b \in Rate \cup {MIN_BAUD}, NEW s \in Nat, NEW n \in Nat,
           Attempt(p, b, s, n), UNCHANGED <<line, limit, turn>>,
           pass' \in [Peer -> {1, 2}], clock' \in [Peer -> Nat]
    PROVE  Local'
<1>1. (IF s > n THEN s - n ELSE 0) \in Nat OBVIOUS
<1>2. "point" \in Place BY DEF Place, Resting
<1>3. pc' \in [Peer -> Place] /\ timer' \in [Peer -> Nat] BY <1>1, <1>2 DEF Attempt, Go, Local
<1>4. point' \in [Peer -> Nat] BY Times DEF Attempt, Local
<1>5. BaudCounter' \in [Peer -> Rate \cup {MIN_BAUD}] /\ rate' \in [Peer -> Rate]
  <2>1. b # MIN_BAUD => b \in Rate OBVIOUS
  <2>2. rate[p] \in Rate /\ rate \in [Peer -> Rate] BY DEF Local
  <2>3. (IF b = MIN_BAUD THEN rate[p] ELSE b) \in Rate BY <2>1, <2>2
  <2> QED BY <2>2, <2>3 DEF Attempt, Local
<1> QED BY <1>3, <1>4, <1>5 DEF Local

LEMMA Failed ==
    ASSUME Local, NEW p \in Peer, Fails(p)
    PROVE  Local'
<1>1. BaudCounter[p] \in Rate \cup {MIN_BAUD} /\ point[p] \in Nat /\ clock[p] \in Nat
  BY DEF Local
<1>2. pass' \in [Peer -> {1, 2}] /\ clock' \in [Peer -> Nat] BY DEF Local, Fails
<1>3. CASE BaudCounter[p] >= Low
  <2>1. "down" \in Place BY DEF Place, Over
  <2> QED BY <1>3, <2>1 DEF Local, Fails, Go
<1>4. CASE ~(BaudCounter[p] >= Low)
  <2>1. BaudCounter[p] + 1 \in Rate BY <1>1, <1>4, Times DEF Rate, MIN_BAUD
  <2>2. Attempt(p, BaudCounter[p] + 1, point[p], clock[p]) /\ UNCHANGED <<line, limit, turn>>
    BY <1>4 DEF Fails
  <2>3. PICK b \in Rate, s \in Nat, n \in Nat :
          b = BaudCounter[p] + 1 /\ s = point[p] /\ n = clock[p]
    BY <1>1, <2>1
  <2>4. Attempt(p, b, s, n) BY <2>2, <2>3 DEF Attempt
  <2> QED BY <1>2, <2>2, <2>4, Attempted
<1> QED BY <1>3, <1>4

LEMMA LocalTypes ==
    ASSUME Local, NEW p \in Peer, SetSyncTime(p) \/ SetBaud(p) \/ Tick(p)
    PROVE  Local'
<1> USE DEF Place, Once, Loop, Resting, Over
<1>1. CASE Begin(p)
  <2>1. Low \in Rate BY Times DEF Rate
  <2> QED BY <1>1, <2>1, Times DEF Local, Begin, Go
<1>2. CASE ClientHello BY <1>2, Moved, Times DEF ClientHello, Peer
<1>3. CASE ServerHello \/ ServerNoHello
  BY <1>3, Moved, Times DEF ServerHello, ServerNoHello, Peer
<1>4. ASSUME NEW q \in Peer, Drum(q) PROVE Local'
  <2>1. PICK t \in 1..(1 + Skew) : Moves(q, "drum", t) BY <1>4 DEF Drum
  <2>2. t \in Nat BY Times
  <2> QED BY <2>1, <2>2, Moved
<1>5. CASE ClientLok \/ ServerAck BY <1>4, <1>5 DEF ClientLok, ServerAck, Peer
<1>6. CASE NoDrummer(p) BY <1>6, Times DEF Local, NoDrummer, Go
<1>7. CASE SecondDrummer(p) BY <1>7, Times DEF Local, SecondDrummer, Go
<1>8. CASE FirstAttempt(p)
  <2>1. PICK b \in Rate \cup {MIN_BAUD} : b = BaudCounter[p] BY DEF Local
  <2>2. Attempt(p, b, SetTicks, 0) BY <1>8, <2>1 DEF FirstAttempt, Attempt
  <2>3. pass' \in [Peer -> {1, 2}] /\ clock' \in [Peer -> Nat] BY <1>8 DEF Local, FirstAttempt
  <2> QED BY <1>8, <2>2, <2>3, Attempted, Times DEF FirstAttempt
<1>9. CASE AtPoint(p) BY <1>9, Moved, Times DEF AtPoint
<1>10. CASE SayHi(p)
  <2>1. 2 * Slop \in Nat BY Times
  <2> QED BY <1>10, <2>1, Moved DEF SayHi
<1>11. CASE HearHi(p)
  <2>1. point[p] + FullTest(BaudCounter[p]) \in Nat BY Times DEF Local
  <2> QED BY <1>11, <2>1, Times DEF Local, HearHi, Go, Role
<1>12. CASE SendSync(p)
  <2>1. SyncTimeOut + 1 \in Nat BY Times
  <2> QED BY <1>12, <2>1, Moved DEF SendSync
<1>13. CASE SyncAcked(p) \/ StringSent(p) \/ StringTaken(p)
  BY <1>13, Moved, Times DEF SyncAcked, StringSent, StringTaken
<1>14. CASE SenderDone(p) \/ ReceiverDone(p)
  BY <1>14, Times DEF Local, SenderDone, ReceiverDone, Done, Go, Role
<1>15. CASE SyncEnds(p) \/ StringTooSoon(p) \/ StringGood(p)
  BY <1>15, Moved, Times DEF SyncEnds, StringTooSoon, StringGood
<1>16. CASE Answer(p) \/ Skip(p) BY <1>16 DEF Local, Answer, Skip, time
<1>17. CASE LoopEnds(p) \/ OnceEnds(p) \/ PendingError(p) \/ StringSpoilt(p)
  BY <1>17, Failed DEF LoopEnds, OnceEnds, PendingError, StringSpoilt
<1>18. CASE Tick(p)
  <2>1. timer' \in [Peer -> Nat]
    <3>1. timer \in [Peer -> Nat] BY DEF Local
    <3>2. Timed(p) => timer[p] - 1 \in Nat BY <3>1 DEF Timed
    <3> QED BY <1>18, <3>1, <3>2 DEF Tick
  <2>2. clock' \in [Peer -> Nat] BY <1>18 DEF Local, Tick
  <2>3. turn' \in Peer BY <1>18, Others DEF Tick
  <2> QED BY <1>18, <2>1, <2>2, <2>3 DEF Local, Tick
<1> QED
  BY <1>1, <1>2, <1>3, <1>5, <1>6, <1>7, <1>8, <1>9, <1>10, <1>11, <1>12, <1>13, <1>14,
     <1>15, <1>16, <1>17, <1>18 DEF SetSyncTime, SetBaud, SetBaudSender, SetBaudReceiver

\* The client sends the string in the first direction, the server in the second one.
Roles ==
    \A p \in Peer :
        /\ pc[p] \in {"point", "slop", "hi"} => pass[p] = 1
        /\ pc[p] \in {"sender", "sync", "string", "tak", "tak-again"} =>
              pass[p] = IF p = "client" THEN 1 ELSE 2
        /\ pc[p] \in {"end", "check", "ack-string"} =>
              pass[p] = IF p = "client" THEN 2 ELSE 1

LEMMA RolesKept ==
    ASSUME Local, Roles, NEW p \in Peer, SetSyncTime(p) \/ SetBaud(p) \/ Tick(p)
    PROVE  Roles'
<1> USE DEF Local, Roles, Peer
<1>1. CASE Begin(p) BY <1>1 DEF Begin, Go
<1>2. CASE p = "client" /\ (ClientHello \/ ClientLok)
  BY <1>2 DEF ClientHello, ClientLok, Moves, Go, Drum
<1>3. CASE p = "server" /\ (ServerHello \/ ServerNoHello \/ ServerAck)
  BY <1>3 DEF ServerHello, ServerNoHello, ServerAck, Moves, Go, Drum
<1>4. CASE NoDrummer(p) \/ SecondDrummer(p)
  BY <1>4 DEF NoDrummer, SecondDrummer, Go
<1>5. CASE FirstAttempt(p) BY <1>5 DEF FirstAttempt, Attempt, Go
<1>6. CASE AtPoint(p) \/ SayHi(p) BY <1>6 DEF AtPoint, SayHi, Moves, Go
<1>7. CASE HearHi(p) BY <1>7 DEF HearHi, Go, Role
<1>8. CASE SendSync(p) \/ SyncAcked(p) \/ StringSent(p) \/ StringTaken(p)
  BY <1>8 DEF SendSync, SyncAcked, StringSent, StringTaken, Moves, Go
<1>9. CASE SenderDone(p) BY <1>9 DEF SenderDone, Done, Go, Role
<1>10. CASE SyncEnds(p) \/ StringTooSoon(p) \/ StringGood(p)
  BY <1>10 DEF SyncEnds, StringTooSoon, StringGood, Moves, Go
<1>11. CASE ReceiverDone(p) BY <1>11 DEF ReceiverDone, Done, Go, Role
<1>12. CASE Answer(p) \/ Skip(p) \/ Tick(p) BY <1>12 DEF Answer, Skip, Tick
<1>13. CASE LoopEnds(p) \/ OnceEnds(p) \/ PendingError(p) \/ StringSpoilt(p)
  BY <1>13 DEF LoopEnds, OnceEnds, PendingError, StringSpoilt, Fails, Attempt, Go
<1> QED
  BY <1>1, <1>2, <1>3, <1>4, <1>5, <1>6, <1>7, <1>8, <1>9, <1>10, <1>11, <1>12, <1>13
  DEF SetSyncTime, SetBaud, SetBaudSender, SetBaudReceiver

\* From SyncPoint to the end of SetBaud.
Testing == {"slop", "hi", "sender", "string", "check", "ack-string", "tak-again"} \cup Loop

\* A side that tries speed b has set its port to it; the lowest one is LOW_BAUD
\* once more, and never tried by a side that began higher.
PortOf(b) == IF b = MIN_BAUD THEN Low ELSE b
Tuned(p) ==
    /\ pc[p] \in {"point", "up"} \cup Testing => rate[p] = PortOf(BaudCounter[p])
    /\ pc[p] \notin {"point"} \cup Testing \cup Over =>
          BaudCounter[p] = limit /\ rate[p] = Low
    /\ limit <= BaudCounter[p]
    /\ pc[p] \notin Over /\ BaudCounter[p] = MIN_BAUD => limit = MIN_BAUD

LEMMA TunedKept ==
    ASSUME Local, \A q \in Peer : Tuned(q), NEW p \in Peer,
           SetSyncTime(p) \/ SetBaud(p) \/ Tick(p)
    PROVE  \A q \in Peer : Tuned(q)'
<1> USE DEF Testing, Loop, Over
<1>1. /\ pc \in [Peer -> Place] /\ BaudCounter \in [Peer -> Rate \cup {MIN_BAUD}]
      /\ rate \in [Peer -> Rate] /\ limit \in Rate \cup {MIN_BAUD}
  BY DEF Local
<1>2. CASE UNCHANGED <<BaudCounter, rate, limit>> /\
           \A q \in Peer : pc'[q] = pc[q] \/
              /\ pc'[q] \in Testing => pc[q] \in {"point"} \cup Testing
              /\ pc'[q] = "up" => pc[q] \in Testing
              /\ pc'[q] \notin {"point"} \cup Testing \cup Over =>
                    pc[q] \notin {"point"} \cup Testing \cup Over
              /\ pc[q] \notin Over /\ pc'[q] # "point"
  BY <1>2 DEF Tuned
<1>3. CASE Begin(p) BY <1>1, <1>3 DEF Begin, Go, Tuned
<1>4. CASE p = "client" /\ (ClientHello \/ ClientLok)
  BY <1>1, <1>2, <1>4 DEF ClientHello, ClientLok, Moves, Go, Drum
<1>5. CASE p = "server" /\ (ServerHello \/ ServerNoHello \/ ServerAck)
  BY <1>1, <1>2, <1>5 DEF ServerHello, ServerNoHello, ServerAck, Moves, Go, Drum
<1>6. CASE NoDrummer(p) \/ SecondDrummer(p)
  BY <1>1, <1>2, <1>6 DEF NoDrummer, SecondDrummer, Go
<1>7. CASE FirstAttempt(p)
  BY <1>1, <1>7 DEF FirstAttempt, Attempt, Go, Tuned, PortOf
<1>8. CASE AtPoint(p) \/ SayHi(p) BY <1>1, <1>2, <1>8 DEF AtPoint, SayHi, Moves, Go
<1>9. CASE HearHi(p) BY <1>1, <1>2, <1>9 DEF HearHi, Go, Role
<1>10. CASE SendSync(p) \/ SyncAcked(p) \/ StringSent(p) \/ StringTaken(p)
  BY <1>1, <1>2, <1>10 DEF SendSync, SyncAcked, StringSent, StringTaken, Moves, Go
<1>11. CASE SenderDone(p) BY <1>1, <1>2, <1>11 DEF SenderDone, Done, Go, Role
<1>12. CASE SyncEnds(p) \/ StringTooSoon(p) \/ StringGood(p)
  BY <1>1, <1>2, <1>12 DEF SyncEnds, StringTooSoon, StringGood, Moves, Go
<1>13. CASE ReceiverDone(p) BY <1>1, <1>2, <1>13 DEF ReceiverDone, Done, Go, Role
<1>14. CASE Answer(p) \/ Skip(p) \/ Tick(p) BY <1>2, <1>14 DEF Answer, Skip, Tick
<1>15. CASE LoopEnds(p) \/ OnceEnds(p) \/ PendingError(p) \/ StringSpoilt(p)
  <2>1. pc[p] \in Testing /\ Fails(p)
    BY <1>15 DEF LoopEnds, OnceEnds, PendingError, StringSpoilt
  <2>2. /\ limit \in Nat /\ BaudCounter[p] \in Nat /\ Low \in Nat
        /\ limit <= MIN_BAUD /\ BaudCounter[p] <= MIN_BAUD /\ MIN_BAUD = Low + 1
    BY <1>1, Times DEF Rate, MIN_BAUD
  <2>3. CASE BaudCounter[p] >= Low BY <1>1, <2>1, <2>2, <2>3 DEF Fails, Go, Tuned
  <2>4. CASE ~(BaudCounter[p] >= Low)
    BY <1>1, <2>1, <2>2, <2>4 DEF Fails, Attempt, Go, Tuned, PortOf
  <2> QED BY <2>3, <2>4
<1> QED
  BY <1>3, <1>4, <1>5, <1>6, <1>7, <1>8, <1>9, <1>10, <1>11, <1>12, <1>13, <1>14, <1>15
  DEF SetSyncTime, SetBaud, SetBaudSender, SetBaudReceiver

\* Two sides that test different speeds do not hear each other.
LEMMA SameSpeed ==
    ASSUME Local, \A q \in Peer : Tuned(q), rate["client"] = rate["server"],
           pc["client"] \in Testing, pc["server"] \in Testing
    PROVE  BaudCounter["client"] = BaudCounter["server"]
<1>1. \A q \in Peer : /\ rate[q] = PortOf(BaudCounter[q]) /\ limit <= BaudCounter[q]
                      /\ BaudCounter[q] = MIN_BAUD => limit = MIN_BAUD
  BY DEF Tuned, Peer, Testing, Loop, Over
<1>2. Low \in Nat BY Times
<1>3. limit \in 0..(Low + 1) /\ \A q \in Peer : BaudCounter[q] \in 0..(Low + 1)
  <2>1. \A b \in Rate \cup {MIN_BAUD} : b \in 0..(Low + 1) BY <1>2 DEF Rate, MIN_BAUD
  <2> QED BY <2>1 DEF Local
<1>4. MIN_BAUD = Low + 1 BY DEF MIN_BAUD
<1> QED BY <1>1, <1>2, <1>3, <1>4 DEF PortOf, Peer

-----------------------------------------------------------------------------
(* Which SDATA_TAK may be on their way to the server.                      *)

\* The client may yet answer a string in the attempt the server is at.
MayAnswer ==
    /\ pc["client"] \notin Over
    /\ \/ BaudCounter["client"] < BaudCounter["server"]
       \/ BaudCounter["client"] = BaudCounter["server"] /\ pc["client"] # "ack-string"
BothUp == pc["client"] = "up" /\ BaudCounter["client"] = BaudCounter["server"]

\* The server has been sent no SDATA_TAK before that answer, and no second one
\* before the client has settled on this speed.
Answered ==
    pc["server"] \in Testing =>
        /\ MayAnswer => TakFree(wire["server"]) /\ pc["server"] # "tak-again"
        /\ ~BothUp => /\ OneTak(wire["server"])
                      /\ pc["server"] = "tak-again" => TakFree(wire["server"])

IInv == TypeOK /\ Roles /\ (\A q \in Peer : Tuned(q)) /\ Answered /\ ServerNotAlone

\* A step of the client that sends no SDATA_TAK.
LEMMA ClientSteps ==
    ASSUME Answered, ServerNotAlone, Flow, pc["client"] # "up", MayAnswer' => MayAnswer,
           pc'["server"] = pc["server"], BaudCounter'["server"] = BaudCounter["server"]
    PROVE  Answered' /\ ServerNotAlone'
<1>1. ~BothUp /\ pc["server"] # "up" BY DEF BothUp, ServerNotAlone
<1>2. Answered' BY <1>1 DEF Answered, Flow, NoMore
<1>3. ServerNotAlone' BY <1>1 DEF ServerNotAlone
<1> QED BY <1>2, <1>3

\* A step of the server that is neither the first nor the last of a test, and does
\* not read a SDATA_TAK it waits for.
LEMMA ServerSteps ==
    ASSUME Answered, Flow, pc'["server"] # "up",
           pc'["client"] = pc["client"], BaudCounter'["client"] = BaudCounter["client"],
           pc'["server"] \in Testing =>
               /\ pc["server"] \in Testing
               /\ pc'["server"] = "tak-again" => pc["server"] = "tak-again"
               /\ BaudCounter'["server"] = BaudCounter["server"]
    PROVE  Answered' /\ ServerNotAlone'
<1>1. ServerNotAlone' BY DEF ServerNotAlone
<1>2. CASE pc'["server"] \in Testing
  <2>1. (MayAnswer' <=> MayAnswer) /\ (BothUp' <=> BothUp) BY <1>2 DEF MayAnswer, BothUp
  <2> QED BY <1>1, <1>2, <2>1 DEF Answered, Flow, NoMore
<1>3. CASE pc'["server"] \notin Testing BY <1>1, <1>3 DEF Answered
<1> QED BY <1>2, <1>3

LEMMA ClientKeeps ==
    ASSUME IInv, SetSyncTime("client") \/ SetBaud("client"),
           ~(StringGood("client") \/ ReceiverDone("client"))
    PROVE  Answered' /\ ServerNotAlone'
<1> USE DEF Loop, Over, MayAnswer
<1>1. /\ Flow /\ Answered /\ ServerNotAlone
      /\ pc \in [Peer -> Place] /\ BaudCounter \in [Peer -> Rate \cup {MIN_BAUD}]
      /\ "client" \in Peer /\ "server" \in Peer
  BY WiresFlow DEF IInv, TypeOK, Peer
<1>2. CASE Begin("client") BY <1>1, <1>2, ClientSteps DEF Begin, Go
<1>3. CASE ClientHello \/ ClientLok
  BY <1>1, <1>3, ClientSteps DEF ClientHello, ClientLok, Moves, Go, Drum
<1>4. CASE NoDrummer("client") \/ SecondDrummer("client")
  BY <1>1, <1>4, ClientSteps DEF NoDrummer, SecondDrummer, Go
<1>5. CASE FirstAttempt("client")
  BY <1>1, <1>5, ClientSteps DEF FirstAttempt, Attempt, Go
<1>6. CASE AtPoint("client") \/ SayHi("client")
  BY <1>1, <1>6, ClientSteps DEF AtPoint, SayHi, Moves, Go
<1>7. CASE HearHi("client") BY <1>1, <1>7, ClientSteps DEF HearHi, Go, Role
<1>8. CASE SendSync("client") \/ SyncAcked("client") \/ StringSent("client")
           \/ StringTaken("client")
  BY <1>1, <1>8, ClientSteps DEF SendSync, SyncAcked, StringSent, StringTaken, Moves, Go
<1>9. CASE SenderDone("client")
  <2>1. pc["client"] = "tak-again" BY <1>9 DEF SenderDone
  <2>2. pass["client"] = 1 BY <1>1, <2>1 DEF IInv, Roles
  <2>3. pc' = [pc EXCEPT !["client"] = Role("client", 2)] /\ UNCHANGED BaudCounter
    BY <1>9, <2>2 DEF SenderDone, Done, Go
  <2> QED BY <1>1, <2>1, <2>3, ClientSteps DEF Role
<1>10. CASE SyncEnds("client") \/ StringTooSoon("client")
  BY <1>1, <1>10, ClientSteps DEF SyncEnds, StringTooSoon, Moves, Go
<1>11. CASE Answer("client") \/ Skip("client")
  BY <1>1, <1>11, ClientSteps DEF Answer, Skip
<1>12. CASE LoopEnds("client") \/ OnceEnds("client") \/ PendingError("client")
            \/ StringSpoilt("client")
  <2>1. pc["client"] \in Loop \cup Once /\ Fails("client")
    BY <1>12 DEF LoopEnds, OnceEnds, PendingError, StringSpoilt, Once
  <2>2. /\ pc' = [pc EXCEPT !["client"] = "down"]
           \/ /\ pc' = [pc EXCEPT !["client"] = "point"]
              /\ BaudCounter'["client"] = BaudCounter["client"] + 1
      /\ BaudCounter'["server"] = BaudCounter["server"]
    BY <1>1, <2>1 DEF Fails, Attempt, Go
  <2>3. BaudCounter["client"] \in Nat /\ BaudCounter["server"] \in Nat
    BY <1>1, Times DEF Rate, MIN_BAUD
  <2>4. pc["client"] # "up" /\ pc["client"] # "down" /\ pc'["server"] = pc["server"]
    BY <1>1, <2>1, <2>2 DEF Once
  <2>5. MayAnswer' => MayAnswer BY <1>1, <2>2, <2>3, <2>4
  <2> QED BY <1>1, <2>2, <2>4, <2>5, ClientSteps
<1> QED
  BY <1>2, <1>3, <1>4, <1>5, <1>6, <1>7, <1>8, <1>9, <1>10, <1>11, <1>12
  DEF SetSyncTime, SetBaud, SetBaudSender, SetBaudReceiver

\* The two steps of the client that send one: its first answer to the string, and
\* its answer to the server's answer.
LEMMA ClientAnswers ==
    ASSUME IInv, StringGood("client") \/ ReceiverDone("client")
    PROVE  Answered' /\ ServerNotAlone'
<1> DEFINE q == "server"
<1>1. /\ Answered /\ ServerNotAlone /\ TypeOK /\ Local
      /\ pc \in [Peer -> Place] /\ BaudCounter \in [Peer -> Rate \cup {MIN_BAUD}]
      /\ \A p \in Peer : Tuned(p)
      /\ "client" \in Peer /\ q \in Peer /\ Other("client") = q
  BY DEF IInv, TypeOK, Local, Peer, Other
<1>2. wire["client"] # <<>> /\ Send("client", Rest("client"), "TAK")
  BY DEF StringGood, ReceiverDone, Take
<1>3. PICK r \in Seq(Item) : r = Rest("client") BY <1>1, <1>2, Read
<1>4. Send("client", r, "TAK") BY <1>2, <1>3 DEF Send
<1>5. /\ losses' \in 0..MaxLoss /\ wire' \in [Peer -> Seq(Item)]
      /\ \/ NoMore(wire'[q], wire[q])
         \/ /\ rate["client"] = rate[q]
            /\ TakFree(wire[q]) => OneTak(wire'[q])
  BY <1>1, <1>4, Sent DEF Byte
<1>6. /\ pc["client"] \in {"check", "ack-string"} /\ pc["client"] \in Testing
      /\ pc[q] # "up" /\ ~BothUp
      /\ UNCHANGED BaudCounter
      /\ pc["client"] = "check" => pc' = [pc EXCEPT !["client"] = "ack-string"]
      /\ pc["client"] = "ack-string" => pc' = [pc EXCEPT !["client"] = "up"]
  <2>1. CASE StringGood("client")
    BY <1>1, <2>1 DEF StringGood, Moves, Go, Testing, ServerNotAlone, BothUp
  <2>2. CASE ReceiverDone("client")
    <3>1. pc["client"] = "ack-string" BY <2>2 DEF ReceiverDone
    <3>2. pass["client"] = 2 BY <1>1, <3>1 DEF IInv, Roles
    <3> QED BY <1>1, <2>2, <3>1, <3>2
            DEF ReceiverDone, Done, Go, Testing, ServerNotAlone, BothUp
  <2> QED BY <2>1, <2>2
<1>7. pc'[q] = pc[q] /\ pc[q] # "up" BY <1>1, <1>6
<1>8. ServerNotAlone' BY <1>7 DEF ServerNotAlone
<1>9. Answered'
  <2> SUFFICES ASSUME pc[q] \in Testing PROVE Answered' BY <1>7 DEF Answered
  <2>1. /\ MayAnswer => TakFree(wire[q]) /\ pc[q] # "tak-again"
        /\ OneTak(wire[q]) /\ (pc[q] = "tak-again" => TakFree(wire[q]))
    BY <1>1, <1>6 DEF Answered
  <2>2. CASE BaudCounter["client"] # BaudCounter[q]
    <3>1. NoMore(wire'[q], wire[q]) BY <1>1, <1>5, <1>6, <2>2, SameSpeed
    <3>2. (MayAnswer' => MayAnswer) /\ ~BothUp'
      BY <1>1, <1>6, <1>7, <2>2 DEF MayAnswer, BothUp, Over
    <3> QED BY <1>7, <2>1, <3>1, <3>2 DEF Answered, NoMore
  <2>3. CASE BaudCounter["client"] = BaudCounter[q] /\ pc["client"] = "check"
    <3>1. MayAnswer BY <1>1, <2>3 DEF MayAnswer, Over
    <3>2. ~MayAnswer'
      <4>1. BaudCounter[q] \in Rate \cup {MIN_BAUD} BY <1>1
      <4>2. BaudCounter[q] \in Nat
        <5>1. Low \in Nat BY Times
        <5>2. \A b \in Rate \cup {MIN_BAUD} : b \in Nat BY <5>1 DEF Rate, MIN_BAUD
        <5> QED BY <4>1, <5>2
      <4> QED BY <1>1, <1>6, <2>3, <4>2 DEF MayAnswer
    <3>3. TakFree(wire[q]) => OneTak(wire'[q]) BY <1>5, <2>1, <3>1 DEF NoMore
    <3> QED BY <1>7, <2>1, <3>1, <3>2, <3>3 DEF Answered
  <2>4. CASE BaudCounter["client"] = BaudCounter[q] /\ pc["client"] = "ack-string"
    <3>1. ~MayAnswer' /\ BothUp' BY <1>1, <1>6, <2>4 DEF MayAnswer, BothUp, Over
    <3> QED BY <3>1 DEF Answered
  <2> QED BY <1>6, <2>2, <2>3, <2>4
<1> QED BY <1>5, <1>8, <1>9

\* The server begins to listen anew at its sync point.
LEMMA ServerKeeps ==
    ASSUME IInv, ClearsInput, SetSyncTime("server") \/ SetBaud("server")
    PROVE  Answered' /\ ServerNotAlone'
<1> USE DEF Loop, Over
<1>1. /\ TypeOK /\ Flow /\ Answered /\ ServerNotAlone
      /\ pc \in [Peer -> Place] /\ BaudCounter \in [Peer -> Rate \cup {MIN_BAUD}]
      /\ wire \in [Peer -> Seq(Item)]
      /\ "client" \in Peer /\ "server" \in Peer
  BY WiresFlow DEF IInv, TypeOK, Peer
<1>2. CASE Begin("server") BY <1>1, <1>2, ServerSteps DEF Begin, Go, Testing
<1>3. CASE ServerHello \/ ServerNoHello \/ ServerAck
  BY <1>1, <1>3, ServerSteps
  DEF ServerHello, ServerNoHello, ServerAck, Moves, Go, Drum, Testing
<1>4. CASE NoDrummer("server") \/ SecondDrummer("server")
  BY <1>1, <1>4, ServerSteps DEF NoDrummer, SecondDrummer, Go, Testing
<1>5. CASE FirstAttempt("server")
  BY <1>1, <1>5, ServerSteps DEF FirstAttempt, Attempt, Go, Testing
<1>6. CASE AtPoint("server")
  <2>1. wire'["server"] = <<>> /\ pc' = [pc EXCEPT !["server"] = "slop"]
    BY <1>1, <1>6 DEF AtPoint, Moves, Go
  <2> QED BY <1>1, <2>1, Empty DEF Answered, ServerNotAlone
<1>7. CASE SayHi("server")
  BY <1>1, <1>7, ServerSteps DEF SayHi, Moves, Go, Testing
<1>8. CASE HearHi("server") BY <1>1, <1>8, ServerSteps DEF HearHi, Go, Role, Testing
<1>9. CASE SendSync("server") \/ SyncAcked("server") \/ StringSent("server")
  BY <1>1, <1>9, ServerSteps DEF SendSync, SyncAcked, StringSent, Moves, Go, Testing
<1>10. CASE StringTaken("server")
  <2>1. /\ pc["server"] = "tak" /\ Take("server", "TAK")
        /\ pc' = [pc EXCEPT !["server"] = "tak-again"]
        /\ UNCHANGED BaudCounter /\ Send("server", Rest("server"), "ACK")
    BY <1>10 DEF StringTaken, Moves, Go
  <2>2. /\ OneTak(wire["server"]) => TakFree(Rest("server"))
        /\ TakFree(wire["server"]) => Head(wire["server"]) # "TAK"
        /\ Rest("server") \in Seq(Item)
    BY <1>1, <2>1, Read DEF Take
  <2>3. wire'["server"] = Rest("server")
    <3>1. PICK r \in Seq(Item) : r = Rest("server") BY <2>2
    <3>2. Send("server", r, "ACK") BY <2>1, <3>1 DEF Send
    <3> QED BY <1>1, <3>1, <3>2, Sent DEF Byte
  <2>4. ~MayAnswer BY <1>1, <2>1, <2>2 DEF Answered, Testing, Take
  <2>5. ~MayAnswer' /\ (BothUp' <=> BothUp) BY <1>1, <2>1, <2>4 DEF MayAnswer, BothUp
  <2>6. ~BothUp => TakFree(wire'["server"])
    BY <1>1, <2>1, <2>2, <2>3 DEF Answered, Testing
  <2>7. TakFree(wire'["server"]) => OneTak(wire'["server"]) BY DEF TakFree, OneTak
  <2> QED BY <1>1, <2>1, <2>5, <2>6, <2>7 DEF Answered, ServerNotAlone
<1>11. CASE SenderDone("server")
  <2>1. /\ pc["server"] = "tak-again" /\ Take("server", "TAK") /\ UNCHANGED BaudCounter
    BY <1>11 DEF SenderDone
  <2>2. TakFree(wire["server"]) => Head(wire["server"]) # "TAK" BY <1>1, <2>1, Read DEF Take
  <2>3. BothUp BY <1>1, <2>1, <2>2 DEF Answered, Testing, Take
  <2>4. pass["server"] = 2 BY <1>1, <2>1 DEF IInv, Roles
  <2>5. pc' = [pc EXCEPT !["server"] = "up"] BY <1>11, <2>4 DEF SenderDone, Done, Go
  <2> QED BY <1>1, <2>1, <2>3, <2>5 DEF Answered, ServerNotAlone, BothUp, Testing
<1>12. CASE SyncEnds("server") \/ StringTooSoon("server") \/ StringGood("server")
  BY <1>1, <1>12, ServerSteps DEF SyncEnds, StringTooSoon, StringGood, Moves, Go, Testing
<1>13. CASE ReceiverDone("server")
  <2>1. pc["server"] = "ack-string" BY <1>13 DEF ReceiverDone
  <2>2. pass["server"] = 1 BY <1>1, <2>1 DEF IInv, Roles
  <2>3. pc' = [pc EXCEPT !["server"] = "sender"] /\ UNCHANGED BaudCounter
    BY <1>13, <2>2 DEF ReceiverDone, Done, Go, Role
  <2> QED BY <1>1, <2>1, <2>3, ServerSteps DEF Testing
<1>14. CASE Answer("server") \/ Skip("server")
  BY <1>1, <1>14, ServerSteps DEF Answer, Skip, Testing
<1>15. CASE LoopEnds("server") \/ OnceEnds("server") \/ PendingError("server")
            \/ StringSpoilt("server")
  <2>1. Fails("server") BY <1>15 DEF LoopEnds, OnceEnds, PendingError, StringSpoilt
  <2>2. /\ pc' = [pc EXCEPT !["server"] = "down"] \/ pc' = [pc EXCEPT !["server"] = "point"]
        /\ BaudCounter'["client"] = BaudCounter["client"]
    BY <1>1, <2>1 DEF Fails, Attempt, Go
  <2> QED BY <1>1, <2>2, ServerSteps DEF Testing
<1> QED
  BY <1>2, <1>3, <1>4, <1>5, <1>6, <1>7, <1>8, <1>9, <1>10, <1>11, <1>12, <1>13, <1>14,
     <1>15 DEF SetSyncTime, SetBaud, SetBaudSender, SetBaudReceiver

-----------------------------------------------------------------------------
(* The theorems.                                                           *)

LEMMA InitTypes == Init => TypeOK
<1>1. Low \in Rate /\ MaxLoss \in Nat /\ Lines \subseteq [Rate -> Quality]
  BY Times, SpeedAssumption DEF Rate
<1>2. "away" \in Place BY DEF Place
<1> QED BY <1>1, <1>2, Empty DEF Init, TypeOK, Peer

LEMMA TypesKept == TypeOK /\ [Next]_vars => TypeOK'
<1>1. CASE UNCHANGED vars BY <1>1 DEF vars, time, TypeOK
<1>2. ASSUME TypeOK, NEW p \in Peer, SetSyncTime(p) \/ SetBaud(p) \/ Tick(p)
      PROVE  TypeOK'
  <2>1. Local BY <1>2 DEF TypeOK, Local
  <2>2. Local' BY <1>2, <2>1, LocalTypes
  <2>3. /\ losses' \in 0..MaxLoss /\ wire' \in [Peer -> Seq(Item)]
        /\ flag' \in [Peer -> BOOLEAN]
    <3>1. CASE StringGood(p) \/ ReceiverDone(p)
      <4>1. wire[p] # <<>> /\ Send(p, Rest(p), "TAK")
        BY <3>1 DEF StringGood, ReceiverDone, Take
      <4>2. PICK r \in Seq(Item) : r = Rest(p) BY <1>2, <4>1, Read
      <4>3. Send(p, r, "TAK") BY <4>1, <4>2 DEF Send
      <4> QED BY <1>2, <4>3, Sent DEF Byte
    <3>2. CASE ~(StringGood(p) \/ ReceiverDone(p))
      BY <1>2, <3>2, WiresFlow DEF Flow
    <3> QED BY <3>1, <3>2
  <2> QED BY <2>2, <2>3 DEF TypeOK, Local
<1> QED BY <1>1, <1>2 DEF Next

\* serlink.c Speed and what it calls: places, waits, speeds and what is on the line
\* keep their types; no side tries a speed beyond MIN_BAUD.
THEOREM TypeCorrect == Spec => []TypeOK
<1> QED BY InitTypes, TypesKept, PTL DEF Spec

LEMMA InitInv == Init => IInv
<1> SUFFICES ASSUME Init PROVE IInv OBVIOUS
<1>1. TypeOK BY InitTypes
<1>2. /\ pc = [p \in Peer |-> "away"] /\ rate = [p \in Peer |-> Low]
      /\ BaudCounter = [p \in Peer |-> limit]
  BY DEF Init
<1>3. Roles BY <1>2 DEF Roles
<1>4. limit \in Int BY <1>1, Times DEF TypeOK, Rate, MIN_BAUD
<1>5. \A q \in Peer : Tuned(q) BY <1>2, <1>4 DEF Tuned, Testing, Loop, Over
<1>6. Answered /\ ServerNotAlone
  BY <1>2 DEF Answered, ServerNotAlone, Testing, Loop, Peer
<1> QED BY <1>1, <1>3, <1>5, <1>6 DEF IInv

LEMMA InvKept == ASSUME ClearsInput PROVE IInv /\ [Next]_vars => IInv'
<1>1. CASE UNCHANGED vars
  BY <1>1 DEF vars, time, IInv, TypeOK, Roles, Tuned, Answered, MayAnswer, BothUp,
              ServerNotAlone
<1>2. ASSUME IInv, NEW p \in Peer, SetSyncTime(p) \/ SetBaud(p) \/ Tick(p)
      PROVE  IInv'
  <2>1. TypeOK' BY <1>2, TypesKept DEF IInv, Next
  <2>2. Local BY <1>2 DEF IInv, TypeOK, Local
  <2>3. Roles' /\ \A q \in Peer : Tuned(q)'
    BY <1>2, <2>2, RolesKept, TunedKept DEF IInv
  <2>4. Answered' /\ ServerNotAlone'
    <3>1. CASE Tick(p)
      BY <1>2, <3>1 DEF Tick, IInv, Answered, MayAnswer, BothUp, ServerNotAlone
    <3>2. CASE p = "client" /\ ~Tick(p)
      BY <1>2, <3>2, ClientKeeps, ClientAnswers
    <3>3. CASE p = "server" /\ ~Tick(p) BY <1>2, <3>3, ServerKeeps
    <3> QED BY <3>1, <3>2, <3>3 DEF Peer
  <2> QED BY <2>1, <2>3, <2>4 DEF IInv
<1> QED BY <1>1, <1>2 DEF Next

\* serlink.c Speed: who has set which speed, and which SDATA_TAK may be on their way.
THEOREM Invariant == ASSUME ClearsInput PROVE Spec => []IInv
<1> QED BY InitInv, InvKept, PTL DEF Spec

\* serlink.c SetBaudReceiver, SetBaudSender: where ClearCom discards what has come in,
\* the server settles on a speed only if the client has settled on the same, whatever
\* gets lost or damaged and however the two clocks run.
THEOREM NotAlone == ASSUME ClearsInput PROVE Spec => []ServerNotAlone
<1>1. IInv => ServerNotAlone BY DEF IInv
<1> QED BY <1>1, Invariant, PTL

-----------------------------------------------------------------------------
(* Where two sides are that lose nothing but what the line never carries:  *)
(* one phase after the other, both in the same one.                        *)
(* The phases follow each other:                                           *)
(*   Greeting, Drummers(1), Between, Drummers(2), FirstPoint, Trying;      *)
(*   from Trying to Deaf and back to Trying, or to HeardFirst;             *)
(*   from HeardFirst to Sends("client"), Turns, Sends("server"), Settled;  *)
(*   from Sends to GivesUp, and from there to Trying or to Settled.        *)

\* The waits are longer than two clocks are apart that start at most Skew ticks
\* apart.  serlink.c: SYNC_SLOP is 2, MAX_BAUD_SET_TICKS 6, and the waits for LOK and
\* ACK are 36 and 9 ticks; Wait(1) is late by 1 at most.
InTime == Slop > Skew /\ SetTicks > Skew /\ LokWait > Skew /\ ReplyWait > Skew

\* The ticks p has had since the two were last in step.
Now(p) == CASE pc[p] = "drum" -> 0 - timer[p]
            [] pc[p] = "lok" -> LokWait - timer[p]
            [] pc[p] = "ack" -> ReplyWait - timer[p]
            [] OTHER -> clock[p]
InStep == \A p \in Peer : Now(p) - Now(Other(p)) <= IF turn = p THEN Skew ELSE Skew + 1

\* A side whose wait is over has been the last one to tick.
Fresh == \A p \in Peer :
            pc[p] \in {"drum", "point", "hi"} /\ timer[p] = 0 => turn = Other(p)

\* p and the other side are at x and y and have got v and w.
Both(p, x, y, v, w) == /\ pc[p] = x /\ pc[Other(p)] = y
                       /\ wire[p] = v /\ wire[Other(p)] = w
Passes(c, s) == pass["client"] = c /\ pass["server"] = s

\* ReSync, before the server has answered.
Greeting ==
    /\ pc["client"] \in {"away", "hello", "lok"} /\ pc["server"] \in {"away", "hello"}
    /\ Passes(1, 1) /\ wire["client"] = <<>>
    /\ \/ wire["server"] = <<>>
       \/ /\ pc["client"] = "lok" /\ pc["server"] = "hello" /\ timer["client"] > 0
          /\ wire["server"] = IF "byte" \in line[Low] THEN <<"HI">> ELSE <<"OTHER">>

\* MarchToTheSameDrummer: the first one or the second one.
Drummers(n) ==
    /\ Passes(n, n)
    /\ \/ Both("client", "lok", "ack", <<"LOK">>, <<>>) /\ timer["server"] > 0
       \/ /\ Both("client", "drum", "ack", <<>>, <<"ACK">>)
          /\ timer["client"] > 0 /\ timer["client"] <= 1 + Skew
       \/ Both("client", "drum", "drum", <<>>, <<>>) /\ InStep /\ Fresh

\* One side is through with the first one.
Between ==
    /\ \/ Both("client", "lok", "drum", <<>>, <<>>) /\ Passes(2, 1)
       \/ Both("client", "drum", "ack", <<"LOK">>, <<>>) /\ Passes(1, 2)
    /\ InStep /\ Fresh

\* p is through with the second one.
FirstPoint(p) ==
    /\ pc[p] = "point" /\ pc[Other(p)] = "drum" /\ pass[Other(p)] = 2
    /\ InStep /\ Fresh /\ BaudCounter[p] = limit
    /\ point[p] = SetTicks + AttemptTicks /\ timer[p] = SetTicks - clock[p]

\* Ticks until the next sync point.
Ahead(p) == point[p] - clock[p]

Carries(p) == line[PortOf(BaudCounter[p])]
\* A speed at which the two may fail.
Avoided(b) == Usable(b) => Spoilt(b)
Slower(p) == \A b \in limit..(BaudCounter[p] - 1) : Avoided(b)
SameSpeeds == BaudCounter["client"] = BaudCounter["server"]
SamePoints == point["client"] = point["server"]

\* SetBaud, until one side hears the other's SDATA_HI or gives up.
Left(p) == CASE pc[p] = "point" -> AttemptTicks
             [] pc[p] = "slop" -> SetTicks + 2 * Slop
             [] OTHER -> SetTicks
Approaches(p) ==
    LET q == Other(p) IN
    /\ pc[p] \in {"point", "slop", "hi"} /\ Ahead(p) = timer[p] + Left(p)
    /\ pc[p] = "point" => pc[q] # "hi"
    /\ pc[p] # "point" /\ pc[q] # "hi" => wire[p] = <<>>
    /\ pc[p] # "point" /\ pc[q] = "hi" =>
          IF "byte" \in Carries(p) THEN wire[p] = <<"HI">>
          ELSE wire[p] = <<>> \/ wire[p] = <<"OTHER">>
Trying == /\ \A p \in Peer : Approaches(p) /\ Slower(p)
          /\ SameSpeeds /\ SamePoints /\ InStep /\ Fresh

\* p has gone on to the next attempt, q has not.
Beyond(p, q) == /\ pc[p] = "point" /\ BaudCounter[p] = BaudCounter[q] + 1
                /\ point[p] = point[q] + AttemptTicks
                /\ Ahead(p) = timer[p] + AttemptTicks
                /\ InStep /\ Fresh

\* The line carries nothing at this speed, and q waits for a SDATA_HI yet.
Deaf(q) ==
    /\ Beyond(Other(q), q) /\ Slower(q) /\ "byte" \notin Carries(q)
    /\ pc[q] = "hi" /\ Ahead(q) = timer[q] + SetTicks
    /\ wire[q] = <<>> \/ wire[q] = <<"OTHER">>

\* Ticks that are left when p begins to send its string.
Room(p) == SetTicks + FullTest(BaudCounter[p])
           - (IF p = "client" THEN 0 ELSE StringTicks + Skew + 1)

\* The strings are sent: nobody has waited too long.
Patient == \A p \in Peer : pc[p] \in (Once \ {"hi"}) \cup Loop => timer[p] > 0
Strings == /\ \A p \in Peer : Slower(p) /\ pc[p] \in Testing
           /\ "byte" \in Carries("client") /\ SameSpeeds /\ InStep /\ Patient

HeardFirst(p) ==
    LET q == Other(p) IN
    /\ point[p] = point[q] + FullTest(BaudCounter[p])
    /\ Ahead(p) >= Room("client") /\ Ahead(q) >= SetTicks
    /\ \/ p = "client" /\ Both(p, "sender", "hi", <<>>, <<"HI">>)
       \/ p = "client" /\ Both(p, "sync", "hi", <<>>, <<"HI", "SYNC">>)
       \/ p = "server" /\ Both(p, "end", "hi", <<>>, <<"HI">>)

\* p sends its string: the handshake, the string, what the other side got, its answer.
Asks(p) == \/ Both(p, "sender", "end", <<>>, <<>>)
           \/ Both(p, "sync", "end", <<>>, <<"SYNC">>)
           \/ Both(p, "sync", "end", <<"ACK">>, <<>>)
Writes(p) == \/ Both(p, "string", "end", <<>>, <<"END">>) /\ timer[p] > 0
             \/ Both(p, "string", "check", <<>>, <<>>)
Judged(p) == Both(p, "tak", "check", <<>>,
                  IF Other(p) \in Carries(p) THEN <<"STRING">> ELSE <<"JUNK">>)
Accepted(p) == \/ Both(p, "tak", "ack-string", <<"TAK">>, <<>>)
               \/ Both(p, "tak-again", "ack-string", <<>>, <<"ACK">>)
Sends(p) ==
    /\ p = "server" => "server" \in Carries("client")
    /\ \/ Asks(p) /\ Ahead(p) >= Room(p)
       \/ Writes(p) /\ Ahead(p) >= Room(p) - StringTicks + timer[p]
       \/ Judged(p) /\ Ahead(p) >= Room(p) - StringTicks /\ timer[p] = SyncTimeOut
       \/ /\ Accepted(p) /\ Ahead(p) >= Room(p) - StringTicks
          /\ Other(p) \in Carries("client")

\* The server begins before the client has heard the last of its own string.
Turns ==
    /\ \/ Both("client", "tak-again", "sender", <<"TAK">>, <<>>)
       \/ Both("client", "tak-again", "sync", <<"TAK", "SYNC">>, <<>>)
    /\ Ahead("server") >= Room("server") /\ "server" \in Carries("client")

\* The other side has given up, p has not.
Spent(p) == IF pc[p] = "tak" THEN SyncTimeOut ELSE 0
GivesUp(p) ==
    LET q == Other(p) IN
    /\ pc[p] \in {"string", "tak"} /\ wire[p] = <<>> /\ "byte" \in Carries(p)
    /\ Avoided(BaudCounter[p]) /\ Slower(p)
    /\ \/ /\ Beyond(q, p)
          /\ Ahead(p) >= Room("server") - StringTicks - Spent(p) + timer[p]
       \/ pc[q] = "down" /\ BaudCounter[p] >= Low /\ BaudCounter[q] = MIN_BAUD

NoneUsable == /\ \A b \in limit..Low : Avoided(b)
              /\ limit = MIN_BAUD => Avoided(limit)
Settled ==
    \/ /\ pc["client"] = "up" /\ SameSpeeds
       /\ Slower("client") /\ Usable(BaudCounter["client"])
       /\ BaudCounter["client"] = MIN_BAUD => limit = MIN_BAUD
       /\ \/ pc["server"] = "tak-again" /\ wire["server"] = <<"TAK">>
          \/ pc["server"] = "up"
    \/ /\ pc["client"] = "down" /\ pc["server"] = "down" /\ NoneUsable
       /\ \A p \in Peer : BaudCounter[p] = MIN_BAUD

Abreast ==
    \/ Greeting
    \/ /\ "byte" \in line[Low]
       /\ \/ (\E n \in {1, 2} : Drummers(n)) \/ Between \/ (\E p \in Peer : FirstPoint(p))
          \/ Trying \/ (\E p \in Peer : Deaf(p))
          \/ /\ Strings
             /\ \/ \E p \in Peer : HeardFirst(p)
                \/ SamePoints /\ ((\E p \in Peer : Sends(p)) \/ Turns)
          \/ \E p \in Peer : GivesUp(p)
    \/ Settled

\* An error is pending only where the line spoils strings or has done so before.
Calm == \A p \in Peer : flag[p] /\ pc[p] \notin Over => Avoided(BaudCounter[p])

-----------------------------------------------------------------------------
(* What a step does to bytes and clocks when nothing is lost.              *)

LEMMA Joined ==
    ASSUME NEW S, NEW v \in Seq(S), NEW w \in Seq(S), Len(v) = 1, Len(w) = 1
    PROVE  v \o w = <<v[1], w[1]>>
<1>1. /\ v \o w \in Seq(S) /\ Len(v \o w) = 2
      /\ (v \o w)[1] = v[1] /\ (v \o w)[2] = w[1]
  BY ConcatProperties
<1>2. <<v[1], w[1]>> \in Seq(S) /\ Len(<<v[1], w[1]>>) = 2
  BY ElementOfSeq
<1>3. \A i \in 1..2 : (v \o w)[i] = <<v[1], w[1]>>[i] BY <1>1
<1> QED BY <1>1, <1>2, <1>3, SeqEqual

LEMMA Tuples ==
    ASSUME NEW c, NEW d
    PROVE  /\ <<c>> # <<>> /\ Head(<<c>>) = c /\ Tail(<<c>>) = <<>>
           /\ <<c, d>> # <<>> /\ Head(<<c, d>>) = c /\ Tail(<<c, d>>) = <<d>>
           /\ <<>> \o <<c>> = <<c>> /\ <<c>> \o <<d>> = <<c, d>>
<1> DEFINE S == {c, d}
<1>1. <<c>> \in Seq(S) /\ <<d>> \in Seq(S) /\ <<c, d>> \in Seq(S) /\ <<>> \in Seq(S)
  OBVIOUS
<1> HIDE DEF S
<1>2. <<c>> # <<>> /\ Head(<<c>>) = c /\ Tail(<<c>>) = <<>> BY <1>1
<1>3. <<c, d>> # <<>> /\ Head(<<c, d>>) = c BY <1>1
<1>4. Tail(<<c, d>>) = <<d>> BY <1>1
<1>5. <<>> \o <<c>> = <<c>> BY <1>1
<1>6. <<c>> \o <<d>> = <<c, d>>
  <2>1. PICK v, w \in Seq(S) : v = <<c>> /\ w = <<d>> BY <1>1
  <2>2. Len(v) = 1 /\ v[1] = c /\ Len(w) = 1 /\ w[1] = d BY <2>1
  <2> QED BY <2>1, <2>2, Joined
<1> QED BY <1>2, <1>3, <1>4, <1>5, <1>6

\* What p gets to read.
LEMMA Nothing ==
    ASSUME NEW p \in Peer, wire[p] = <<>>
    PROVE  \A d : ~Take(p, d)
  BY DEF Take

LEMMA Listens ==
    ASSUME NEW p \in Peer, NEW c, wire[p] = <<c>>
    PROVE  /\ Head(wire[p]) = c /\ wire[p] # <<>>
           /\ \A d : Take(p, d) <=> d = c
           /\ c # "JUNK" => Rest(p) = <<>>
  BY Tuples DEF Take, Rest

LEMMA ListensTwice ==
    ASSUME NEW p \in Peer, NEW c, NEW e, wire[p] = <<c, e>>
    PROVE  /\ Head(wire[p]) = c /\ wire[p] # <<>>
           /\ \A d : Take(p, d) <=> d = c
           /\ c # "JUNK" => Rest(p) = <<e>>
  BY Tuples DEF Take, Rest

\* What the numbers of a state are.
LEMMA Numbers ==
    ASSUME TypeOK, NEW p \in Peer
    PROVE  /\ timer[p] \in Nat /\ clock[p] \in Nat /\ point[p] \in Nat
           /\ BaudCounter[p] \in Nat /\ BaudCounter[p] <= Low + 1 /\ MIN_BAUD = Low + 1
           /\ Low \in Nat /\ limit \in Nat /\ limit <= Low + 1
           /\ wire[p] \in Seq(Item) /\ Other(p) \in Peer /\ Other(p) # p /\ Other(Other(p)) = p
           /\ turn \in Peer /\ losses \in Nat
<1>1. \A b \in Rate \cup {MIN_BAUD} : b \in Nat /\ b <= Low + 1
  BY Times DEF Rate, MIN_BAUD
<1>2. BaudCounter[p] \in Rate \cup {MIN_BAUD} /\ limit \in Rate \cup {MIN_BAUD}
  BY DEF TypeOK
<1>3. Other(Other(p)) = p BY DEF Other, Peer
<1>4. losses \in Nat BY SpeedAssumption DEF TypeOK
<1> QED BY <1>1, <1>2, <1>3, <1>4, Others, Times DEF TypeOK, MIN_BAUD

LEMMA Lengths ==
    /\ Low \in Nat /\ Skew \in Nat
    /\ \A t \in {SetTicks, Slop, TestSlop, SyncTimeOut, HiWait, LokWait, ReplyWait,
                 StringWait, StringTicks} : t \in Nat /\ t > 0
  BY SpeedAssumption

\* A byte that is not lost gets to the other side, if that reads and the line
\* carries bytes at their common speed.
LEMMA Delivered ==
    ASSUME TypeOK, NEW p \in Peer, NEW rest \in Seq(Item), NEW c,
           Send(p, rest, c), losses' = 0
    PROVE  /\ losses = 0 /\ wire'[p] = rest
           /\ pc[Other(p)] \in {"away"} \cup Over => wire'[Other(p)] = wire[Other(p)]
           /\ pc[Other(p)] \notin {"away"} \cup Over /\ Connected(p) =>
                 wire'[Other(p)] = wire[Other(p)] \o <<Intact(p, c)>>
           /\ pc[Other(p)] \notin {"away"} \cup Over /\ ~Connected(p) /\ c # "STRING" =>
                 \/ wire'[Other(p)] = wire[Other(p)]
                 \/ wire'[Other(p)] = wire[Other(p)] \o <<"OTHER">>
<1> DEFINE q == Other(p)
<1>1. q \in Peer /\ q # p /\ losses \in Nat /\ wire[q] \in Seq(Item)
      /\ wire \in [Peer -> Seq(Item)]
  BY Numbers DEF TypeOK
<1>2. PICK h \in Heard(p, c) :
        /\ losses' = losses + h.lost
        /\ wire' = [wire EXCEPT ![p] = rest, ![q] = @ \o h.bytes]
  BY DEF Send, SendWith
<1>3. h.lost \in {0, 1} BY <1>2, Hears
<1>4. losses = 0 /\ h.lost = 0
  <2>1. CASE h.lost = 0 BY <1>1, <1>2, <2>1
  <2>2. CASE h.lost = 1 BY <1>1, <1>2, <2>2
  <2> QED BY <1>3, <2>1, <2>2
<1>5. wire'[p] = rest /\ wire'[q] = wire[q] \o h.bytes BY <1>1, <1>2
<1>6. pc[q] \in {"away"} \cup Over => h.bytes = <<>> BY <1>2, Hears
<1>7. pc[q] \notin {"away"} \cup Over /\ Connected(p) => h.bytes = <<Intact(p, c)>>
  BY <1>2, <1>4, Hears
<1>8. pc[q] \notin {"away"} \cup Over /\ ~Connected(p) /\ c # "STRING" =>
         h.bytes = <<>> \/ h.bytes = <<"OTHER">>
  BY <1>2, Hears DEF Garbled
<1>9. h.bytes = <<>> => wire'[q] = wire[q] BY <1>1, <1>5
<1> QED BY <1>4, <1>5, <1>6, <1>7, <1>8, <1>9

\* The steps there are at each place.
LEMMA Steps ==
    ASSUME NEW p \in Peer, SetSyncTime(p) \/ SetBaud(p)
    PROVE  \/ pc[p] = "away" /\ Begin(p)
           \/ pc[p] = "hello" /\ \/ p = "client" /\ ClientHello
                                 \/ p = "server" /\ (ServerHello \/ ServerNoHello)
           \/ pc[p] = "lok" /\ ((p = "client" /\ ClientLok) \/ NoDrummer(p))
           \/ pc[p] = "ack" /\ ((p = "server" /\ ServerAck) \/ NoDrummer(p))
           \/ pc[p] = "drum" /\ (SecondDrummer(p) \/ FirstAttempt(p))
           \/ pc[p] = "point" /\ AtPoint(p)
           \/ pc[p] = "slop" /\ SayHi(p)
           \/ pc[p] = "hi" /\ (HearHi(p) \/ (Disappointed(p, "HI") /\ Fails(p)))
           \/ pc[p] = "sender" /\ SendSync(p)
           \/ pc[p] = "sync" /\ (SyncAcked(p) \/ Answer(p) \/ Skip(p) \/ LoopEnds(p))
           \/ pc[p] = "string" /\ StringSent(p)
           \/ pc[p] = "tak" /\ (StringTaken(p) \/ Skip(p) \/ LoopEnds(p))
           \/ /\ pc[p] = "tak-again"
              /\ SenderDone(p) \/ (Disappointed(p, "TAK") /\ Fails(p))
           \/ /\ pc[p] = "end"
              /\ \/ SyncEnds(p) \/ StringTooSoon(p) \/ PendingError(p)
                 \/ Answer(p) \/ Skip(p) \/ LoopEnds(p)
           \/ /\ pc[p] = "check"
              /\ \/ StringGood(p) \/ StringSpoilt(p)
                 \/ Disappointed(p, "STRING") /\ Fails(p)
           \/ /\ pc[p] = "ack-string"
              /\ ReceiverDone(p) \/ (Disappointed(p, "ACK") /\ Fails(p))
<1>1. CASE SetSyncTime(p)
  BY <1>1 DEF SetSyncTime, Begin, NoDrummer, SecondDrummer, ClientHello, ClientLok,
              ServerHello, ServerNoHello, ServerAck
<1>2. /\ SendSync(p) => pc[p] = "sender" 
      /\ SyncAcked(p) => pc[p] = "sync"
      /\ StringSent(p) => pc[p] = "string"
      /\ StringTaken(p) => pc[p] = "tak"
      /\ SenderDone(p) => pc[p] = "tak-again"
      /\ SyncEnds(p) \/ StringTooSoon(p) \/ PendingError(p) => pc[p] = "end"
      /\ StringGood(p) \/ StringSpoilt(p) => pc[p] = "check"
      /\ ReceiverDone(p) => pc[p] = "ack-string"
  BY DEF SendSync, SyncAcked, StringSent, StringTaken, SenderDone, SyncEnds, StringTooSoon,
         PendingError, StringGood, StringSpoilt, ReceiverDone
<1>3. /\ FirstAttempt(p) => pc[p] = "drum"
      /\ AtPoint(p) => pc[p] = "point"
      /\ SayHi(p) => pc[p] = "slop"
      /\ HearHi(p) => pc[p] = "hi"
  BY DEF FirstAttempt, AtPoint, SayHi, HearHi
<1>4. CASE Answer(p) BY <1>4 DEF Answer
<1>5. CASE Skip(p) BY <1>5 DEF Skip, Loop
<1>6. CASE LoopEnds(p)
  <2>1. pc[p] \in Loop BY <1>6 DEF LoopEnds
  <2> QED BY <1>6, <2>1 DEF Loop
<1>7. CASE OnceEnds(p) BY <1>7 DEF OnceEnds
<1> QED BY <1>1, <1>2, <1>3, <1>4, <1>5, <1>6, <1>7
        DEF SetBaud, SetBaudSender, SetBaudReceiver

\* A side that waits and has got nothing does nothing.
LEMMA Idle ==
    ASSUME NEW p \in Peer, timer[p] > 0, timer[p] \in Nat,
           \/ pc[p] \in (Once \ {"check"}) \cup Loop /\ wire[p] = <<>>
           \/ pc[p] \in Resting
    PROVE  ~(SetSyncTime(p) \/ SetBaud(p))
<1> SUFFICES ASSUME SetSyncTime(p) \/ SetBaud(p) PROVE FALSE OBVIOUS
<1>1. timer[p] # 0 OBVIOUS
<1>2. CASE pc[p] \in Resting
  BY <1>1, <1>2, Steps DEF Resting, SecondDrummer, FirstAttempt, AtPoint, SayHi, StringSent
<1>3. CASE pc[p] \in (Once \ {"check"}) \cup Loop /\ wire[p] = <<>>
  <2>1. /\ \A c : ~Take(p, c) /\ ~Disappointed(p, c)
        /\ ~Skip(p) /\ ~LoopEnds(p) /\ ~Answer(p) /\ ~NoDrummer(p)
    BY <1>1, <1>3 DEF Take, Disappointed, Skip, LoopEnds, Answer, NoDrummer
  <2> QED BY <1>3, <2>1, Steps DEF Once, Loop, ClientLok, ServerAck, HearHi, SyncAcked,
         StringTaken, SenderDone, SyncEnds, StringTooSoon, PendingError, ReceiverDone
<1> QED BY <1>2, <1>3

\* A loss is never taken back.
LEMMA LossesGrow ==
    ASSUME TypeOK, NEW p \in Peer, SetSyncTime(p) \/ SetBaud(p) \/ Tick(p), losses' = 0
    PROVE  losses = 0
<1>1. ASSUME NEW q \in Peer, NEW rest, NEW c, NEW e, SendWith(q, rest, c, e)
      PROVE  losses = 0
  <2>1. PICK h \in Heard(q, c) : losses' = losses + h.lost BY <1>1 DEF SendWith
  <2>2. h.lost = 0 \/ h.lost = 1 BY <2>1, Hears
  <2>3. losses \in Nat BY Numbers
  <2> QED BY <2>1, <2>2, <2>3
<1>2. UNCHANGED losses => losses = 0 OBVIOUS
<1>3. \A c : Disappointed(p, c) => losses = 0 BY <1>2 DEF Disappointed, Drop
<1>4. Answer(p) \/ Skip(p) \/ LoopEnds(p) => losses = 0
  BY <1>1, <1>2 DEF Answer, Skip, LoopEnds, Consume, Drop, Send
<1>5. CASE Tick(p) BY <1>2, <1>5 DEF Tick
<1>6. CASE Begin(p) \/ NoDrummer(p) \/ SecondDrummer(p)
  BY <1>1, <1>2, <1>3, <1>6 DEF Begin, NoDrummer, SecondDrummer, Send
<1>7. CASE p = "client" /\ (ClientHello \/ ClientLok)
  BY <1>1, <1>7 DEF ClientHello, ClientLok, Send
<1>8. CASE p = "server" /\ (ServerHello \/ ServerNoHello \/ ServerAck)
  BY <1>1, <1>2, <1>8 DEF ServerHello, ServerNoHello, ServerAck, Consume, Drop, Send
<1>9. FirstAttempt(p) \/ AtPoint(p) \/ SayHi(p) \/ HearHi(p) => losses = 0
  BY <1>1, <1>2 DEF FirstAttempt, AtPoint, SayHi, HearHi, Consume, Drop, Send
<1>10. SendSync(p) \/ SyncAcked(p) \/ StringSent(p) \/ StringTaken(p) \/ SenderDone(p)
          => losses = 0
  BY <1>1, <1>2 DEF SendSync, SyncAcked, StringSent, StringTaken, SenderDone, Consume, Drop, Send
<1>11. SyncEnds(p) \/ StringTooSoon(p) \/ StringGood(p) \/ ReceiverDone(p) => losses = 0
  BY <1>1, <1>2 DEF SyncEnds, StringTooSoon, StringGood, ReceiverDone, Consume, Drop, Send
<1>12. PendingError(p) => losses = 0 BY <1>1, <1>2 DEF PendingError, Drop
<1>13. StringSpoilt(p) => losses = 0
  <2>1. losses \in Nat BY Numbers
  <2>2. ~(losses' = losses + 1) BY <2>1
  <2> QED BY <1>2, <2>2 DEF StringSpoilt
<1>14. CASE SetSyncTime(p) \/ SetBaud(p)
  BY <1>3, <1>4, <1>6, <1>7, <1>8, <1>9, <1>10, <1>11, <1>12, <1>13, <1>14, Steps
<1> QED BY <1>5, <1>14

\* Nothing but time passes, one tick of p.
LEMMA Ticked ==
    ASSUME TypeOK, NEW p \in Peer, Tick(p)
    PROVE  /\ turn = p /\ turn' = Other(p)
           /\ \A q \in Peer : ~Ready(q)
           /\ \E q \in Peer : pc[q] \notin {"away"} \cup Over
           /\ UNCHANGED <<pc, pass, point, BaudCounter, rate, wire, line, limit, losses>>
           /\ timer'[Other(p)] = timer[Other(p)] /\ clock'[Other(p)] = clock[Other(p)]
           /\ pc[p] \in Resting \cup (Once \ {"check"}) \cup Loop =>
                 timer[p] > 0 /\ timer'[p] = timer[p] - 1
           /\ pc[p] = "check" =>
                 timer'[p] = IF pc[Other(p)] = "string" /\ Connected(p) THEN timer[p]
                             ELSE timer[p] - 1
           /\ clock'[p] = IF pc[p] \in Untimed THEN clock[p] ELSE clock[p] + 1
<1>1. /\ timer \in [Peer -> Nat] /\ clock \in [Peer -> Nat] /\ timer[p] \in Nat
      /\ Other(p) \in Peer /\ Other(p) # p
  BY Numbers DEF TypeOK
<1>2. /\ timer' = IF Timed(p) THEN [timer EXCEPT ![p] = @ - 1] ELSE timer
      /\ clock' = IF pc[p] \in Untimed THEN clock ELSE [clock EXCEPT ![p] = @ + 1]
      /\ ~Ready(p)
  BY DEF Tick
<1>3. pc[p] \in Resting \cup Once \cup Loop => timer[p] > 0 BY <1>1, <1>2 DEF Ready
<1>4. timer'[p] = IF Timed(p) THEN timer[p] - 1 ELSE timer[p] BY <1>1, <1>2
<1>5. pc[p] \in Resting \cup (Once \ {"check"}) \cup Loop => timer'[p] = timer[p] - 1
  BY <1>3, <1>4 DEF Timed, Resting, Once, Loop
<1>6. pc[p] = "check" =>
         timer'[p] = IF pc[Other(p)] = "string" /\ Connected(p) THEN timer[p]
                     ELSE timer[p] - 1
  BY <1>3, <1>4 DEF Timed, Once
<1>7. clock'[p] = IF pc[p] \in Untimed THEN clock[p] ELSE clock[p] + 1 BY <1>1, <1>2
<1>8. timer'[Other(p)] = timer[Other(p)] /\ clock'[Other(p)] = clock[Other(p)]
  BY <1>1, <1>2
<1> QED BY <1>3, <1>5, <1>6, <1>7, <1>8 DEF Tick

\* Both sides stay in step while both are somewhere where time counts.
LEMMA TicksInStep ==
    ASSUME TypeOK, InStep, NEW p \in Peer, Tick(p),
           \A q \in Peer : pc[q] \notin {"away", "hello"} \cup Over
    PROVE  InStep' /\ Fresh'
<1> DEFINE q == Other(p)
<1>1. /\ q \in Peer /\ q # p /\ Other(q) = p /\ \A r \in Peer : r = p \/ r = q
      /\ turn = p /\ turn' = q /\ pc' = pc /\ ~Ready(q)
      /\ timer[p] \in Nat /\ timer[q] \in Nat /\ clock[p] \in Nat /\ clock[q] \in Nat
      /\ timer'[q] = timer[q] /\ clock'[q] = clock[q]
  BY Numbers, Ticked DEF Other, Peer
<1>2. /\ pc[p] \in {"drum", "lok", "ack"} => timer'[p] = timer[p] - 1
      /\ pc[p] \notin {"drum", "lok", "ack"} => clock'[p] = clock[p] + 1
  BY Ticked DEF Resting, Once, Untimed, Over
<1>3. LokWait \in Nat /\ ReplyWait \in Nat /\ Skew \in Nat BY Lengths
<1>4. Now(q)' = Now(q) /\ Now(q) \in Int BY <1>1, <1>3 DEF Now
<1>5. Now(p)' = Now(p) + 1 /\ Now(p) \in Int
  <2>1. CASE pc[p] = "drum" BY <1>1, <1>2, <2>1 DEF Now
  <2>2. CASE pc[p] = "lok" BY <1>1, <1>2, <1>3, <2>2 DEF Now
  <2>3. CASE pc[p] = "ack" BY <1>1, <1>2, <1>3, <2>3 DEF Now
  <2>4. CASE pc[p] \notin {"drum", "lok", "ack"} BY <1>1, <1>2, <2>4 DEF Now
  <2> QED BY <2>1, <2>2, <2>3, <2>4
<1>6. Now(p) - Now(q) <= Skew /\ Now(q) - Now(p) <= Skew + 1 BY <1>1 DEF InStep
<1>7. Now(p)' - Now(q)' <= Skew + 1 /\ Now(q)' - Now(p)' <= Skew
  BY <1>3, <1>4, <1>5, <1>6
<1>8. InStep' BY <1>1, <1>7 DEF InStep
<1>9. Fresh' BY <1>1 DEF Fresh, Ready, Resting, Once
<1> QED BY <1>8, <1>9

\* A step of p within its attempt changes no speed, no sync point and no clock.
Stays(p, w, t) == /\ Go(p, w, t)
                  /\ UNCHANGED <<clock, point, BaudCounter, line, limit, turn>>

LEMMA Stayed ==
    ASSUME TypeOK, NEW p \in Peer, NEW w, NEW t, Stays(p, w, t)
    PROVE  /\ pc'[p] = w /\ timer'[p] = t
           /\ pc'[Other(p)] = pc[Other(p)] /\ timer'[Other(p)] = timer[Other(p)]
           /\ \A q \in Peer : /\ Ahead(q)' = Ahead(q) /\ Carries(q)' = Carries(q)
                              /\ Room(q)' = Room(q) /\ (Slower(q)' <=> Slower(q))
           /\ (SameSpeeds' <=> SameSpeeds) /\ (SamePoints' <=> SamePoints)
           /\ Now(Other(p))' = Now(Other(p))
           /\ w \notin {"drum", "lok", "ack"} => Now(p)' = clock[p]
<1>1. /\ pc'[p] = w /\ timer'[p] = t
      /\ pc'[Other(p)] = pc[Other(p)] /\ timer'[Other(p)] = timer[Other(p)]
  BY Numbers DEF Stays, Go, TypeOK
<1>2. UNCHANGED <<clock, point, BaudCounter, line, limit, turn>> BY DEF Stays
<1>3. \A q \in Peer : /\ Ahead(q)' = Ahead(q) /\ Carries(q)' = Carries(q)
                      /\ Room(q)' = Room(q) /\ (Slower(q)' <=> Slower(q))
  BY <1>2 DEF Ahead, Carries, Room, Slower, Avoided, Spoilt, Usable
<1>4. (SameSpeeds' <=> SameSpeeds) /\ (SamePoints' <=> SamePoints)
  BY <1>2 DEF SameSpeeds, SamePoints
<1>5. Now(Other(p))' = Now(Other(p)) BY <1>1, <1>2 DEF Now
<1>6. w \notin {"drum", "lok", "ack"} => Now(p)' = clock[p] BY <1>1, <1>2 DEF Now
<1> QED BY <1>1, <1>3, <1>4, <1>5, <1>6

-----------------------------------------------------------------------------
(* The two greet each other and march to the same drummers.                *)

Base == TypeOK /\ Roles /\ \A q \in Peer : Tuned(q)

LEMMA LowSpeed ==
    ASSUME Base, \A q \in Peer : pc[q] \notin {"point"} \cup Testing \cup Over
    PROVE  \A p \in Peer : Connected(p) <=> "byte" \in line[Low]
  BY Others DEF Base, Tuned, Connected

\* A single byte that p sends to a side that listens, and a string.
LEMMA Gets ==
    ASSUME TypeOK, NEW p \in Peer, NEW rest \in Seq(Item), NEW c \in Byte,
           Send(p, rest, c), losses' = 0, pc[Other(p)] \notin {"away"} \cup Over
    PROVE  /\ wire'[p] = rest
           /\ Connected(p) /\ wire[Other(p)] = <<>> => wire'[Other(p)] = <<c>>
           /\ Connected(p) => \A d : wire[Other(p)] = <<d>> => wire'[Other(p)] = <<d, c>>
           /\ ~Connected(p) /\ wire[Other(p)] = <<>> =>
                 wire'[Other(p)] = <<>> \/ wire'[Other(p)] = <<"OTHER">>
<1>1. c # "STRING" /\ Intact(p, c) = c
  <2>1. c # "STRING" BY DEF Byte
  <2>2. Carried(p, c) BY <2>1, Zenon DEF Carried
  <2> QED BY <2>1, <2>2, Zenon DEF Intact
<1>2. \A d : <<>> \o <<d>> = <<d>> /\ <<d>> \o <<c>> = <<d, c>> BY Tuples
<1>3. /\ wire'[p] = rest
      /\ Connected(p) => wire'[Other(p)] = wire[Other(p)] \o <<c>>
      /\ ~Connected(p) => \/ wire'[Other(p)] = wire[Other(p)]
                          \/ wire'[Other(p)] = wire[Other(p)] \o <<"OTHER">>
  BY <1>1, Delivered
<1> QED BY <1>2, <1>3

LEMMA GreetingStep ==
    ASSUME Base, InTime, Greeting, losses' = 0,
           NEW p \in Peer, SetSyncTime(p) \/ SetBaud(p) \/ Tick(p)
    PROVE  Greeting' \/ ("byte" \in line'[Low] /\ Drummers(1)')
<1> USE DEF Loop, Over, Testing
<1>1. /\ TypeOK /\ Other("client") = "server" /\ Other("server") = "client"
      /\ "client" \in Peer /\ "server" \in Peer /\ <<>> \in Seq(Item)
      /\ pc \in [Peer -> Place] /\ timer \in [Peer -> Nat] /\ wire \in [Peer -> Seq(Item)]
      /\ pass \in [Peer -> {1, 2}]
      /\ timer["client"] \in Nat /\ timer["server"] \in Nat
      /\ pc["client"] \in {"away", "hello", "lok"} /\ pc["server"] \in {"away", "hello"}
      /\ Passes(1, 1) /\ wire["client"] = <<>>
      /\ LokWait > 0 /\ HiWait > 0 /\ ReplyWait > 0
  BY Lengths DEF Base, TypeOK, Greeting, Peer, Other
<1>2. \A q \in Peer : Connected(q) <=> "byte" \in line[Low]
  BY <1>1, LowSpeed DEF Peer
<1>3. CASE Tick(p)
  <2>1. ~Ready("server") /\ UNCHANGED <<pc, pass, wire, line>> BY <1>1, <1>3, Ticked
  <2>2. wire["server"] = <<>>
    <3> SUFFICES ASSUME wire["server"] # <<>> PROVE FALSE OBVIOUS
    <3>1. pc["server"] = "hello" BY DEF Greeting
    <3> QED BY <2>1, <3>1 DEF Ready
  <2> QED BY <1>1, <2>1, <2>2 DEF Greeting, Passes
<1>4. CASE Begin(p)
  <2>1. /\ pc[p] = "away" /\ pc' = [pc EXCEPT ![p] = "hello"]
        /\ UNCHANGED <<wire, pass>>
    BY <1>4 DEF Begin, Go
  <2>2. wire["server"] = <<>> BY <1>1, <2>1 DEF Greeting, Peer
  <2> QED BY <1>1, <2>1, <2>2 DEF Greeting, Passes, Peer
<1>5. CASE p = "client" /\ ClientHello
  <2>1. /\ pc["client"] = "hello" /\ Send("client", wire["client"], "HI")
        /\ pc' = [pc EXCEPT !["client"] = "lok"]
        /\ timer' = [timer EXCEPT !["client"] = LokWait] /\ UNCHANGED <<pass, line>>
    BY <1>5 DEF ClientHello, Moves, Go
  <2>2. wire["server"] = <<>> BY <1>1, <2>1 DEF Greeting
  <2>3. Send("client", <<>>, "HI") BY <1>1, <2>1
  <2>4. CASE pc["server"] = "away"
    <3>1. wire'["client"] = <<>> /\ wire'["server"] = <<>>
      BY <1>1, <2>2, <2>3, <2>4, Delivered
    <3> QED BY <1>1, <2>1, <3>1 DEF Greeting, Passes
  <2>5. CASE pc["server"] = "hello"
    <3>1. /\ wire'["client"] = <<>>
          /\ "byte" \in line[Low] => wire'["server"] = <<"HI">>
          /\ "byte" \notin line[Low] =>
                wire'["server"] = <<>> \/ wire'["server"] = <<"OTHER">>
      BY <1>1, <1>2, <2>2, <2>3, <2>5, Gets DEF Byte
    <3> QED BY <1>1, <2>1, <2>5, <3>1 DEF Greeting, Passes
  <2> QED BY <1>1, <2>4, <2>5
<1>6. CASE NoDrummer(p)
  <2>1. p = "client" BY <1>1, <1>6 DEF NoDrummer, Peer
  <2>2. /\ timer["client"] = 0 /\ UNCHANGED wire /\ pc["client"] = "lok"
        /\ pc' = [pc EXCEPT !["client"] = "hello"] /\ pass' = [pass EXCEPT !["client"] = 1]
    BY <1>1, <1>6, <2>1 DEF NoDrummer, Disappointed, Passes, Go
  <2>3. wire["server"] = <<>> BY <1>1, <2>2 DEF Greeting
  <2> QED BY <1>1, <2>2, <2>3 DEF Greeting, Passes
<1>7. CASE p = "server" /\ ServerHello
  <2>1. /\ pc["server"] = "hello" /\ Take("server", "HI")
        /\ Send("server", Rest("server"), "LOK")
        /\ pc' = [pc EXCEPT !["server"] = "ack"]
        /\ timer' = [timer EXCEPT !["server"] = ReplyWait] /\ UNCHANGED <<pass, line>>
    BY <1>7 DEF ServerHello, Moves, Go
  <2>2. wire["server"] # <<>> BY <1>1, <2>1 DEF Take
  <2>3. wire["server"] = <<"OTHER">> => ~Take("server", "HI") BY <1>1, Listens
  <2>4. wire["server"] = <<"HI">> /\ "byte" \in line[Low] /\ pc["client"] = "lok"
    BY <2>1, <2>2, <2>3 DEF Greeting
  <2>5. Rest("server") = <<>> BY <1>1, <2>4, Listens
  <2>6. Send("server", <<>>, "LOK") BY <2>1, <2>5
  <2>7. wire'["server"] = <<>> /\ wire'["client"] = <<"LOK">>
    BY <1>1, <1>2, <2>4, <2>6, Gets DEF Byte
  <2> QED BY <1>1, <2>1, <2>4, <2>7 DEF Drummers, Both, Passes
<1>8. CASE p = "server" /\ ServerNoHello
  <2>1. /\ pc["server"] = "hello" /\ pc' = [pc EXCEPT !["server"] = "hello"]
        /\ UNCHANGED <<pass, line>>
        /\ IF wire["server"] # <<>>
           THEN wire' = [wire EXCEPT !["server"] = Tail(@)] ELSE UNCHANGED wire
    BY <1>8 DEF ServerNoHello, Moves, Go
  <2>2. wire["server"] = <<>> \/ \E c : wire["server"] = <<c>> BY DEF Greeting
  <2>3. \A c : wire["server"] = <<c>> => Tail(wire["server"]) = <<>> BY Tuples
  <2>4. wire'["server"] = <<>> /\ wire'["client"] = <<>>
    BY <1>1, <2>1, <2>2, <2>3
  <2> QED BY <1>1, <2>1, <2>4 DEF Greeting, Passes
<1>9. ~(p = "client" /\ ClientLok)
  <2>1. ~Take("client", "LOK") BY <1>1, Nothing
  <2> QED BY <2>1 DEF ClientLok
<1> QED BY <1>1, <1>3, <1>4, <1>5, <1>6, <1>7, <1>8, <1>9, Steps DEF Peer

LEMMA LineKept ==
    ASSUME NEW p \in Peer, SetSyncTime(p) \/ SetBaud(p) \/ Tick(p)
    PROVE  line' = line /\ limit' = limit
<1>1. Fails(p) => line' = line /\ limit' = limit BY DEF Fails
<1>2. \A q, w, t : Moves(q, w, t) => line' = line /\ limit' = limit BY DEF Moves
<1>3. CASE SetSyncTime(p)
  BY <1>2, <1>3 DEF SetSyncTime, Begin, NoDrummer, SecondDrummer, ClientHello, ClientLok,
                    ServerHello, ServerNoHello, ServerAck, Drum
<1>4. CASE SetBaudSender(p) \/ SetBaudReceiver(p)
  BY <1>1, <1>2, <1>4 DEF SetBaudSender, SetBaudReceiver, SendSync, SyncAcked, StringSent,
     StringTaken, SenderDone, SyncEnds, StringTooSoon, PendingError, StringSpoilt,
     StringGood, ReceiverDone
<1>5. CASE FirstAttempt(p) \/ AtPoint(p) \/ SayHi(p) \/ HearHi(p) \/ Tick(p)
  BY <1>2, <1>5 DEF FirstAttempt, AtPoint, SayHi, HearHi, Tick
<1>6. CASE Answer(p) \/ Skip(p) BY <1>6 DEF Answer, Skip
<1>7. CASE LoopEnds(p) \/ OnceEnds(p) BY <1>1, <1>7 DEF LoopEnds, OnceEnds
<1> QED BY <1>3, <1>4, <1>5, <1>6, <1>7 DEF SetBaud

\* What is known of the two while they march.
LEMMA Marchers ==
    ASSUME Base
    PROVE  /\ TypeOK /\ Other("client") = "server" /\ Other("server") = "client"
           /\ "client" \in Peer /\ "server" \in Peer /\ <<>> \in Seq(Item)
           /\ pc \in [Peer -> Place] /\ timer \in [Peer -> Nat] /\ clock \in [Peer -> Nat]
           /\ wire \in [Peer -> Seq(Item)] /\ pass \in [Peer -> {1, 2}] /\ turn \in Peer
           /\ timer["client"] \in Nat /\ timer["server"] \in Nat
           /\ LokWait \in Nat /\ ReplyWait \in Nat /\ SetTicks \in Nat /\ Skew \in Nat
           /\ LokWait > 0 /\ ReplyWait > 0 /\ SetTicks > 0 /\ AttemptTicks \in Nat
  BY Lengths, Times DEF Base, TypeOK, Peer, Other

LEMMA AskedStep ==
    ASSUME Base, "byte" \in line[Low], NEW n \in {1, 2}, Passes(n, n), losses' = 0,
           Both("client", "lok", "ack", <<"LOK">>, <<>>), timer["server"] > 0,
           NEW p \in Peer, SetSyncTime(p) \/ SetBaud(p) \/ Tick(p)
    PROVE  Drummers(n)'
<1> USE Marchers DEF Both, Passes
<1>1. /\ pc["client"] = "lok" /\ pc["server"] = "ack"
      /\ wire["client"] = <<"LOK">> /\ wire["server"] = <<>>
  OBVIOUS
<1>2. /\ \A q \in Peer : Connected(q)
      /\ Head(wire["client"]) = "LOK" /\ wire["client"] # <<>> /\ Rest("client") = <<>>
  BY <1>1, LowSpeed, Listens DEF Testing, Loop, Over, Peer
<1>3. CASE p = "client" /\ ClientLok
  <2>1. PICK t \in 1..(1 + Skew) :
           /\ Send("client", <<>>, "ACK") /\ pc' = [pc EXCEPT !["client"] = "drum"]
           /\ timer' = [timer EXCEPT !["client"] = t] /\ UNCHANGED pass
    <3>1. Send("client", <<>>, "ACK") /\ Drum("client") BY <1>2, <1>3 DEF ClientLok
    <3>2. PICK t \in 1..(1 + Skew) : Moves("client", "drum", t) BY <3>1 DEF Drum
    <3>3. /\ pc' = [pc EXCEPT !["client"] = "drum"]
          /\ timer' = [timer EXCEPT !["client"] = t] /\ UNCHANGED pass
      BY <3>2 DEF Moves, Go
    <3> QED BY <3>1, <3>3
  <2>2. wire'["client"] = <<>> /\ wire'["server"] = <<"ACK">>
    BY <1>1, <1>2, <2>1, Gets DEF Byte, Over
  <2>3. Both("client", "drum", "ack", <<>>, <<"ACK">>)' BY <1>1, <2>1, <2>2
  <2>4. timer'["client"] > 0 /\ timer'["client"] <= 1 + Skew BY <2>1
  <2>5. Passes(n, n)' BY <2>1
  <2> QED BY <2>3, <2>4, <2>5 DEF Drummers
<1>4. ~NoDrummer(p)
  <2>1. CASE p = "client" BY <1>1, <1>2, <2>1 DEF NoDrummer, Disappointed
  <2>2. CASE p = "server" BY <1>1, <2>2 DEF NoDrummer, Disappointed
  <2> QED BY <2>1, <2>2 DEF Peer
<1>5. ~(p = "server" /\ ServerAck) BY <1>1, Nothing DEF ServerAck
<1>6. ~Tick(p)
  <2>1. Ready("client") BY <1>1, <1>2 DEF Ready, Once
  <2> QED BY <2>1, Ticked
<1> QED BY <1>1, <1>3, <1>4, <1>5, <1>6, Steps DEF Peer

LEMMA AnsweredStep ==
    ASSUME Base, NEW n \in {1, 2}, Passes(n, n),
           Both("client", "drum", "ack", <<>>, <<"ACK">>),
           timer["client"] > 0, timer["client"] <= 1 + Skew,
           NEW p \in Peer, SetSyncTime(p) \/ SetBaud(p) \/ Tick(p)
    PROVE  Drummers(n)'
<1> USE Marchers DEF Both, Passes
<1>1. /\ pc["client"] = "drum" /\ pc["server"] = "ack"
      /\ wire["client"] = <<>> /\ wire["server"] = <<"ACK">>
  OBVIOUS
<1>2. Head(wire["server"]) = "ACK" /\ wire["server"] # <<>> /\ Rest("server") = <<>>
  BY <1>1, Listens
<1>3. CASE p = "server" /\ ServerAck
  <2>1. PICK t \in 1..(1 + Skew) :
           /\ wire' = [wire EXCEPT !["server"] = <<>>]
           /\ pc' = [pc EXCEPT !["server"] = "drum"]
           /\ timer' = [timer EXCEPT !["server"] = t] /\ UNCHANGED <<pass, turn>>
    BY <1>2, <1>3 DEF ServerAck, Consume, Drop, Drum, Moves, Go
  <2>2. Both("client", "drum", "drum", <<>>, <<>>)' BY <1>1, <2>1
  <2>3. \A q \in Peer : timer'[q] \in 1..(1 + Skew) /\ timer'[q] > 0 /\ pc'[q] = "drum"
    BY <1>1, <2>1 DEF Peer
  <2>5. InStep'
    <3>1. ASSUME NEW q \in Peer
          PROVE  Now(q)' - Now(Other(q))' <= IF turn' = q THEN Skew ELSE Skew + 1
      <4>1. PICK a \in 1..(1 + Skew), b \in 1..(1 + Skew) :
               a = timer'[q] /\ b = timer'[Other(q)]
        BY <2>3, Others
      <4>2. Now(q)' = 0 - a /\ Now(Other(q))' = 0 - b BY <2>3, <4>1, Others DEF Now
      <4>3. (0 - a) - (0 - b) <= Skew /\ Skew <= Skew + 1 BY Lengths
      <4>4. PICK x, y : x = Now(q)' /\ y = Now(Other(q))' OBVIOUS
      <4>5. x - y <= Skew /\ x - y <= Skew + 1 BY <4>2, <4>3, <4>4
      <4>6. CASE turn' = q BY <4>4, <4>5, <4>6
      <4>7. CASE turn' # q BY <4>4, <4>5, <4>7
      <4> QED BY <4>6, <4>7
    <3> QED BY <3>1 DEF InStep
  <2>6. Fresh' BY <2>3 DEF Fresh, Peer
  <2>7. Passes(n, n)' BY <2>1
  <2> QED BY <2>2, <2>5, <2>6, <2>7 DEF Drummers
<1>4. ~NoDrummer(p) BY <1>1, <1>2 DEF NoDrummer, Disappointed, Peer
<1>5. ~(SetSyncTime("client") \/ SetBaud("client")) BY <1>1, Idle DEF Resting
<1>6. ~Tick(p)
  <2>1. Ready("server") BY <1>1, <1>2 DEF Ready, Once
  <2> QED BY <2>1, Ticked
<1> QED BY <1>1, <1>3, <1>4, <1>5, <1>6, Steps DEF Peer

\* The first sync point is SetTicks after the second drummer.
LEMMA FirstAttempts ==
    ASSUME Base, NEW p \in Peer, FirstAttempt(p), InStep, Fresh
    PROVE  /\ pc[p] = "drum" /\ timer[p] = 0 /\ pass[p] = 2
           /\ pc'[p] = "point" /\ pc'[Other(p)] = pc[Other(p)]
           /\ timer'[p] = SetTicks /\ timer'[Other(p)] = timer[Other(p)]
           /\ clock'[p] = 0 /\ clock'[Other(p)] = clock[Other(p)]
           /\ point'[p] = SetTicks + AttemptTicks /\ point'[Other(p)] = point[Other(p)]
           /\ pass'[Other(p)] = pass[Other(p)]
           /\ BaudCounter'[p] = BaudCounter[p]
           /\ BaudCounter'[Other(p)] = BaudCounter[Other(p)]
           /\ InStep' /\ Fresh'
<1> USE DEF Base
<1>1. /\ p \in Peer /\ Other(p) \in Peer /\ Other(p) # p /\ Other(Other(p)) = p
      /\ \A q \in Peer : q = p \/ q = Other(p)
      /\ pc \in [Peer -> Place] /\ timer \in [Peer -> Nat] /\ clock \in [Peer -> Nat]
      /\ point \in [Peer -> Nat] /\ pass \in [Peer -> {1, 2}] /\ SetTicks \in Nat
      /\ SetTicks > 0 /\ BaudCounter \in [Peer -> Rate \cup {MIN_BAUD}]
  BY Numbers, Lengths DEF TypeOK, Other, Peer
<1>2. /\ pc[p] = "drum" /\ timer[p] = 0 /\ pass[p] = 2
      /\ clock' = [clock EXCEPT ![p] = 0] /\ pass' = [pass EXCEPT ![p] = 1]
      /\ BaudCounter' = [BaudCounter EXCEPT ![p] = BaudCounter[p]]
      /\ point' = [point EXCEPT ![p] = SetTicks + AttemptTicks]
      /\ pc' = [pc EXCEPT ![p] = "point"] /\ timer' = [timer EXCEPT ![p] = SetTicks]
      /\ UNCHANGED turn
  <2>1. Attempt(p, BaudCounter[p], SetTicks, 0) BY DEF FirstAttempt
  <2>2. (IF SetTicks > 0 THEN SetTicks - 0 ELSE 0) = SetTicks BY <1>1
  <2>3. /\ BaudCounter' = [BaudCounter EXCEPT ![p] = BaudCounter[p]]
        /\ point' = [point EXCEPT ![p] = SetTicks + AttemptTicks]
    BY <2>1 DEF Attempt
  <2>4. Go(p, "point", SetTicks) BY <2>1, <2>2 DEF Attempt
  <2> QED BY <2>3, <2>4 DEF FirstAttempt, Go
<1>3. Now(p)' = Now(p) /\ Now(Other(p))' = Now(Other(p)) BY <1>1, <1>2 DEF Now
<1>4. InStep' BY <1>1, <1>2, <1>3 DEF InStep
<1>5. Fresh' BY <1>1, <1>2 DEF Fresh
<1> QED BY <1>1, <1>2, <1>4, <1>5

LEMMA DrummingStep ==
    ASSUME Base, InTime, "byte" \in line[Low], NEW n \in {1, 2}, Passes(n, n), losses' = 0,
           Both("client", "drum", "drum", <<>>, <<>>), InStep, Fresh,
           NEW p \in Peer, SetSyncTime(p) \/ SetBaud(p) \/ Tick(p)
    PROVE  Drummers(n)' \/ Between' \/ FirstPoint(p)'
<1> USE Marchers DEF Both, Passes
<1>1. /\ pc["client"] = "drum" /\ pc["server"] = "drum"
      /\ wire["client"] = <<>> /\ wire["server"] = <<>>
  OBVIOUS
<1>2. \A q \in Peer : Connected(q) BY <1>1, LowSpeed DEF Testing, Loop, Over, Peer
<1>3. CASE Tick(p)
  <2>1. InStep' /\ Fresh' BY <1>1, <1>3, TicksInStep DEF Over, Peer
  <2>2. UNCHANGED <<pc, wire, pass>> BY <1>3, Ticked
  <2> QED BY <1>1, <2>1, <2>2 DEF Drummers
<1>4. CASE SecondDrummer(p)
  <2>1. /\ timer[p] = 0 /\ pass[p] = 1 /\ pass' = [pass EXCEPT ![p] = 2] /\ UNCHANGED turn
        /\ n = 1 /\ clock' = [clock EXCEPT ![p] = 0]
    BY <1>4 DEF SecondDrummer, Peer
  <2>2. CASE p = "client"
    <3>1. /\ pc' = [pc EXCEPT !["client"] = "lok"] /\ UNCHANGED wire
          /\ timer' = [timer EXCEPT !["client"] = LokWait]
      BY <1>4, <2>2 DEF SecondDrummer, Go
    <3>2. Now("client")' = Now("client") /\ Now("server")' = Now("server")
      BY <1>1, <2>1, <2>2, <3>1 DEF Now
    <3>3. InStep' BY <2>1, <3>2 DEF InStep, Peer
    <3>4. Fresh' BY <1>1, <2>1, <3>1 DEF Fresh, Peer
    <3>5. Both("client", "lok", "drum", <<>>, <<>>)' BY <1>1, <3>1
    <3>6. Passes(2, 1)' BY <2>1, <2>2
    <3> QED BY <3>3, <3>4, <3>5, <3>6 DEF Between
  <2>3. CASE p = "server"
    <3>1. /\ pc' = [pc EXCEPT !["server"] = "ack"] /\ Send("server", <<>>, "LOK")
          /\ timer' = [timer EXCEPT !["server"] = ReplyWait]
      BY <1>1, <1>4, <2>3 DEF SecondDrummer, Go
    <3>2. Now("client")' = Now("client") /\ Now("server")' = Now("server")
      BY <1>1, <2>1, <2>3, <3>1 DEF Now
    <3>3. InStep' BY <2>1, <3>2 DEF InStep, Peer
    <3>4. Fresh' BY <1>1, <2>1, <3>1 DEF Fresh, Peer
    <3>5. wire'["server"] = <<>> /\ wire'["client"] = <<"LOK">>
      BY <1>1, <1>2, <3>1, Gets DEF Byte, Over
    <3>6. Both("client", "drum", "ack", <<"LOK">>, <<>>)' BY <1>1, <3>1, <3>5
    <3>7. Passes(1, 2)' BY <2>1, <2>3
    <3> QED BY <3>3, <3>4, <3>6, <3>7 DEF Between
  <2> QED BY <2>2, <2>3 DEF Peer
<1>5. CASE FirstAttempt(p)
  <2>1. pass[Other(p)] = 2 /\ pc[Other(p)] = "drum"
    BY <1>1, <1>5 DEF FirstAttempt, Peer
  <2>2. BaudCounter[p] = limit /\ limit' = limit
    BY <1>1, LineKept DEF Base, Tuned, Testing, Loop, Over, Peer
  <2>3. /\ pc'[p] = "point" /\ pc'[Other(p)] = "drum" /\ pass'[Other(p)] = 2
        /\ InStep' /\ Fresh' /\ BaudCounter'[p] = limit'
        /\ point'[p] = SetTicks + AttemptTicks /\ timer'[p] = SetTicks /\ clock'[p] = 0
    BY <1>5, <2>1, <2>2, FirstAttempts
  <2> QED BY <2>3 DEF FirstPoint
<1> QED BY <1>1, <1>3, <1>4, <1>5, Steps DEF Peer

LEMMA DrummersStep ==
    ASSUME Base, InTime, "byte" \in line[Low], NEW n \in {1, 2}, Drummers(n), losses' = 0,
           NEW p \in Peer, SetSyncTime(p) \/ SetBaud(p) \/ Tick(p)
    PROVE  Drummers(n)' \/ Between' \/ FirstPoint(p)'
<1>1. CASE Both("client", "lok", "ack", <<"LOK">>, <<>>) /\ timer["server"] > 0
  BY <1>1, AskedStep DEF Drummers
<1>2. CASE /\ Both("client", "drum", "ack", <<>>, <<"ACK">>)
           /\ timer["client"] > 0 /\ timer["client"] <= 1 + Skew
  BY <1>2, AnsweredStep DEF Drummers
<1>3. CASE Both("client", "drum", "drum", <<>>, <<>>) /\ InStep /\ Fresh
  BY <1>3, DrummingStep DEF Drummers
<1> QED BY <1>1, <1>2, <1>3 DEF Drummers

\* Who waits for the other's drummer does not wait in vain.
LEMMA WaitsEnough ==
    ASSUME Base, InTime, InStep, Fresh, NEW p \in Peer, pc[Other(p)] = "drum",
           pc[p] \in {"lok", "ack"}
    PROVE  timer[p] > 0
<1>1. /\ Other(p) \in Peer /\ Other(Other(p)) = p /\ Other(p) # p
      /\ timer[p] \in Nat /\ timer[Other(p)] \in Nat
      /\ Skew \in Nat /\ LokWait \in Nat /\ ReplyWait \in Nat
      /\ LokWait > Skew /\ ReplyWait > Skew
  BY Numbers, Lengths DEF Base, InTime
<1>2. PICK w \in Nat : w > Skew /\ Now(p) = w - timer[p] BY <1>1 DEF Now
<1>3. Now(Other(p)) = 0 - timer[Other(p)] BY DEF Now
<1>4. w - timer[p] + timer[Other(p)] <= IF turn = p THEN Skew ELSE Skew + 1
  BY <1>1, <1>2, <1>3 DEF InStep
<1>5. timer[Other(p)] = 0 => turn = p BY <1>1 DEF Fresh
<1>6. CASE timer[Other(p)] = 0 BY <1>1, <1>2, <1>4, <1>5, <1>6
<1>7. CASE timer[Other(p)] > 0
  <2>1. w - timer[p] + timer[Other(p)] <= Skew + 1 BY <1>1, <1>4
  <2> QED BY <1>1, <1>2, <1>7, <2>1
<1> QED BY <1>1, <1>6, <1>7

LEMMA BetweenStep ==
    ASSUME Base, InTime, "byte" \in line[Low], Between, losses' = 0,
           NEW p \in Peer, SetSyncTime(p) \/ SetBaud(p) \/ Tick(p)
    PROVE  Between' \/ Drummers(2)'
<1> USE Marchers DEF Both, Passes
<1>1. \A q \in Peer : Connected(q) /\ pc[q] \in {"lok", "ack", "drum"}
  BY LowSpeed DEF Between, Testing, Loop, Over, Peer
<1>2. CASE Tick(p)
  <2>1. InStep' /\ Fresh' BY <1>1, <1>2, TicksInStep DEF Between, Over
  <2>2. UNCHANGED <<pc, wire, pass>> BY <1>2, Ticked
  <2> QED BY <2>1, <2>2 DEF Between
<1>3. CASE Both("client", "lok", "drum", <<>>, <<>>) /\ Passes(2, 1) /\ ~Tick(p)
  <2>1. timer["client"] > 0 BY <1>3, WaitsEnough DEF Between
  <2>2. p = "server" BY <1>3, <2>1, Idle DEF Once, Peer
  <2>3. SecondDrummer("server") BY <1>3, <2>2, Steps DEF FirstAttempt
  <2>4. /\ pc' = [pc EXCEPT !["server"] = "ack"] /\ pass' = [pass EXCEPT !["server"] = 2]
        /\ timer' = [timer EXCEPT !["server"] = ReplyWait] /\ Send("server", <<>>, "LOK")
    BY <1>3, <2>3 DEF SecondDrummer, Go
  <2>5. wire'["server"] = <<>> /\ wire'["client"] = <<"LOK">>
    <3>1. Connected("server") /\ wire["client"] = <<>> /\ pc["client"] = "lok" BY <1>1, <1>3
    <3> QED BY <2>4, <3>1, Gets DEF Byte, Over
  <2>6. Both("client", "lok", "ack", <<"LOK">>, <<>>)' BY <1>3, <2>4, <2>5
  <2>7. Passes(2, 2)' /\ timer'["server"] > 0 BY <1>3, <2>4
  <2> QED BY <2>6, <2>7 DEF Drummers
<1>4. CASE Both("client", "drum", "ack", <<"LOK">>, <<>>) /\ Passes(1, 2) /\ ~Tick(p)
  <2>1. timer["server"] > 0 BY <1>4, WaitsEnough DEF Between
  <2>2. p = "client" BY <1>4, <2>1, Idle DEF Once, Peer
  <2>3. SecondDrummer("client") BY <1>4, <2>2, Steps DEF FirstAttempt
  <2>4. /\ pc' = [pc EXCEPT !["client"] = "lok"] /\ pass' = [pass EXCEPT !["client"] = 2]
        /\ timer' = [timer EXCEPT !["client"] = LokWait] /\ UNCHANGED wire
    BY <2>3 DEF SecondDrummer, Go
  <2>5. Both("client", "lok", "ack", <<"LOK">>, <<>>)' BY <1>4, <2>4
  <2>6. Passes(2, 2)' /\ timer'["server"] > 0 BY <1>4, <2>1, <2>4
  <2> QED BY <2>5, <2>6 DEF Drummers
<1> QED BY <1>2, <1>3, <1>4 DEF Between

\* What is known of the two while they try speeds.
Known(p) ==
    LET q == Other(p) IN
    /\ p \in Peer /\ q \in Peer /\ q # p /\ Other(q) = p /\ \A r \in Peer : r = p \/ r = q
    /\ TypeOK /\ pc \in [Peer -> Place] /\ timer \in [Peer -> Nat] /\ clock \in [Peer -> Nat]
    /\ point \in [Peer -> Nat] /\ wire \in [Peer -> Seq(Item)] /\ turn \in Peer
    /\ pass \in [Peer -> {1, 2}] /\ BaudCounter \in [Peer -> Rate \cup {MIN_BAUD}]
    /\ timer[p] \in Nat /\ clock[p] \in Nat /\ point[p] \in Nat
    /\ BaudCounter[p] \in Nat /\ BaudCounter[p] <= Low + 1
    /\ timer[q] \in Nat /\ clock[q] \in Nat /\ point[q] \in Nat
    /\ BaudCounter[q] \in Nat /\ BaudCounter[q] <= Low + 1
    /\ limit \in Nat /\ MIN_BAUD = Low + 1 /\ Low \in Nat /\ <<>> \in Seq(Item)

\* What is known of the waits.
Waits ==
    /\ Skew \in Nat /\ SetTicks \in Nat /\ SetTicks > 0 /\ Slop \in Nat /\ Slop > 0
    /\ TestSlop \in Nat /\ TestSlop > 0 /\ SyncTimeOut \in Nat /\ SyncTimeOut > 0
    /\ StringTicks \in Nat /\ StringTicks > 0 /\ StringWait \in Nat /\ StringWait > 0
    /\ ReplyWait \in Nat /\ ReplyWait > 0
    /\ AttemptTicks = SetTicks + 3 * Slop /\ AttemptTicks \in Nat
    /\ \A b \in Rate \cup {MIN_BAUD} : FullTest(b) \in Nat

LEMMA Pair == ASSUME Base, NEW p \in Peer PROVE Known(p) /\ Waits
<1>1. \A r \in Peer : r = p \/ r = Other(p) BY DEF Peer, Other
<1>2. /\ TypeOK /\ pc \in [Peer -> Place] /\ timer \in [Peer -> Nat]
      /\ clock \in [Peer -> Nat] /\ point \in [Peer -> Nat] /\ wire \in [Peer -> Seq(Item)]
      /\ turn \in Peer /\ pass \in [Peer -> {1, 2}]
      /\ BaudCounter \in [Peer -> Rate \cup {MIN_BAUD}]
  BY DEF Base, TypeOK
<1>3. Other(p) \in Peer BY Others
<1>4. Known(p) BY <1>1, <1>2, <1>3, Numbers, Empty DEF Known
<1>5. AttemptTicks = SetTicks + 3 * Slop BY DEF AttemptTicks
<1>6. Waits BY <1>5, Lengths, Times DEF Waits
<1> QED BY <1>4, <1>6

\* How far the clocks of two that try speeds may be apart.
LEMMA Apart ==
    ASSUME Base, InStep, NEW p \in Peer,
           \A q \in Peer : pc[q] \notin {"drum", "lok", "ack"}
    PROVE  /\ clock[p] - clock[Other(p)] <= Skew + 1
           /\ turn = p => clock[p] - clock[Other(p)] <= Skew
<1>0. Known(p) /\ Waits BY Pair
<1>1. Now(p) = clock[p] /\ Now(Other(p)) = clock[Other(p)] BY <1>0 DEF Known, Now
<1>2. Now(p) - Now(Other(p)) <= IF turn = p THEN Skew ELSE Skew + 1 BY DEF InStep
<1>3. clock[p] - clock[Other(p)] <= IF turn = p THEN Skew ELSE Skew + 1 BY <1>1, <1>2
<1>4. CASE turn = p BY <1>0, <1>3, <1>4 DEF Known, Waits
<1>5. CASE turn # p BY <1>3, <1>5
<1> QED BY <1>4, <1>5

LEMMA FirstPointStep ==
    ASSUME Base, InTime, NEW r \in Peer, FirstPoint(r), losses' = 0,
           NEW p \in Peer, SetSyncTime(p) \/ SetBaud(p) \/ Tick(p)
    PROVE  FirstPoint(r)' \/ Trying'
<1> DEFINE q == Other(r)
<1>0. Known(r) /\ Waits BY Pair
<1> USE <1>0 DEF Known, Waits
<1>1. /\ pc[r] = "point" /\ pc[q] = "drum" /\ pass[q] = 2 /\ InStep /\ Fresh
      /\ BaudCounter[r] = limit /\ BaudCounter[q] = limit
      /\ point[r] = SetTicks + AttemptTicks /\ timer[r] = SetTicks - clock[r]
  BY DEF FirstPoint, Base, Tuned, Testing, Loop, Over
<1>2. timer[r] > 0
  <2>1. Now(r) = clock[r] /\ Now(q) = 0 - timer[q] BY <1>1 DEF Now
  <2>2. /\ clock[r] + timer[q] <= Skew + 1
        /\ turn = r => clock[r] + timer[q] <= Skew
    <3>1. Now(r) - Now(q) <= IF turn = r THEN Skew ELSE Skew + 1 BY <1>1 DEF InStep
    <3>2. clock[r] - (0 - timer[q]) <= IF turn = r THEN Skew ELSE Skew + 1 BY <2>1, <3>1
    <3>3. CASE turn = r BY <3>2, <3>3
    <3>4. CASE turn # r BY <3>2, <3>4
    <3> QED BY <3>3, <3>4
  <2>3. timer[q] = 0 => turn = r BY <1>1 DEF Fresh
  <2>4. PICK a \in Nat, b \in Nat : a = clock[r] /\ b = timer[q] OBVIOUS
  <2>5. a + b <= Skew + 1 /\ (b = 0 => a <= Skew) BY <2>2, <2>3, <2>4
  <2>6. a <= Skew BY <2>5
  <2> QED BY <1>1, <2>4, <2>6 DEF InTime
<1>3. CASE Tick(p)
  <2>1. InStep' /\ Fresh' BY <1>1, <1>3, TicksInStep DEF Over
  <2>2. UNCHANGED <<pc, point, BaudCounter, pass, limit>> BY <1>3, Ticked
  <2>3. timer'[r] = SetTicks - clock'[r]
    <3>1. CASE p = r
      <4>1. timer'[r] = timer[r] - 1 /\ clock'[r] = clock[r] + 1
        BY <1>1, <1>3, <3>1, Ticked DEF Resting, Untimed, Over
      <4> QED BY <1>1, <4>1
    <3>2. CASE p = q
      <4>1. timer'[r] = timer[r] /\ clock'[r] = clock[r] BY <1>3, <3>2, Ticked
      <4> QED BY <1>1, <4>1
    <3> QED BY <3>1, <3>2
  <2> QED BY <1>1, <2>1, <2>2, <2>3 DEF FirstPoint
<1>4. CASE ~Tick(p)
  <2>1. p = q BY <1>1, <1>2, <1>4, Idle DEF Resting
  <2>2. FirstAttempt(q)
    <3>1. pc[p] = "drum" /\ (SetSyncTime(p) \/ SetBaud(p)) BY <1>1, <1>4, <2>1
    <3>2. ~SecondDrummer(p) BY <1>1, <2>1 DEF SecondDrummer
    <3>3. SecondDrummer(p) \/ FirstAttempt(p) BY <3>1, Steps
    <3> QED BY <2>1, <3>2, <3>3
  <2>3. limit' = limit BY LineKept
  <2>4. /\ pc'[q] = "point" /\ pc'[r] = "point" /\ timer'[q] = SetTicks /\ timer'[r] = timer[r]
        /\ clock'[q] = 0 /\ clock'[r] = clock[r]
        /\ point'[q] = SetTicks + AttemptTicks /\ point'[r] = point[r]
        /\ BaudCounter'[q] = limit /\ BaudCounter'[r] = limit
        /\ InStep' /\ Fresh'
    <3>1. /\ pc'[q] = "point" /\ pc'[Other(q)] = pc[Other(q)]
          /\ timer'[q] = SetTicks /\ timer'[Other(q)] = timer[Other(q)]
          /\ clock'[q] = 0 /\ clock'[Other(q)] = clock[Other(q)]
          /\ point'[q] = SetTicks + AttemptTicks /\ point'[Other(q)] = point[Other(q)]
          /\ BaudCounter'[q] = BaudCounter[q]
          /\ BaudCounter'[Other(q)] = BaudCounter[Other(q)]
          /\ InStep' /\ Fresh'
      BY <1>1, <2>2, FirstAttempts
    <3>2. Other(q) = r OBVIOUS
    <3> QED BY <1>1, <3>1, <3>2
  <2>5. SameSpeeds' /\ SamePoints' BY <1>1, <2>4 DEF SameSpeeds, SamePoints, Peer, Other
  <2>6. Ahead(q)' = timer'[q] + AttemptTicks /\ Ahead(r)' = timer'[r] + AttemptTicks
    <3>1. Ahead(q)' = SetTicks + AttemptTicks - 0 BY <2>4 DEF Ahead
    <3>2. Ahead(r)' = SetTicks + AttemptTicks - clock[r] BY <1>1, <2>4 DEF Ahead
    <3> QED BY <1>1, <2>4, <3>1, <3>2
  <2>7. Approaches(q)' /\ Approaches(r)' BY <2>4, <2>6 DEF Approaches, Left
  <2>8. Slower(q)' /\ Slower(r)'
    <3>1. PICK b \in Nat : b = limit OBVIOUS
    <3>2. limit' = b /\ BaudCounter'[q] = b /\ BaudCounter'[r] = b BY <2>3, <2>4, <3>1
    <3>3. b..(b - 1) = {} BY <3>1
    <3> QED BY <3>2, <3>3 DEF Slower
  <2> QED BY <2>4, <2>5, <2>7, <2>8 DEF Trying
<1> QED BY <1>3, <1>4

-----------------------------------------------------------------------------
(* SetBaud: an attempt begins and single bytes are tried.                  *)

\* The next attempt begins on time.
LEMMA Retries ==
    ASSUME Base, NEW p \in Peer, Fails(p), BaudCounter[p] < Low, Ahead(p) > 0,
           InStep, Fresh, \A r \in Peer : pc[r] \notin {"drum", "lok", "ack"}
    PROVE  /\ pc'[p] = "point" /\ pc'[Other(p)] = pc[Other(p)]
           /\ timer'[p] = Ahead(p) /\ timer'[Other(p)] = timer[Other(p)]
           /\ BaudCounter'[p] = BaudCounter[p] + 1
           /\ BaudCounter'[Other(p)] = BaudCounter[Other(p)]
           /\ point'[p] = point[p] + AttemptTicks /\ point'[Other(p)] = point[Other(p)]
           /\ UNCHANGED <<clock, line, limit, turn>>
           /\ Ahead(p)' = timer'[p] + AttemptTicks /\ Ahead(Other(p))' = Ahead(Other(p))
           /\ InStep' /\ Fresh'
<1> DEFINE q == Other(p)
<1>0. Known(p) /\ Waits BY Pair
<1> USE <1>0 DEF Known, Waits
<1>1. /\ Attempt(p, BaudCounter[p] + 1, point[p], clock[p])
      /\ UNCHANGED <<clock, line, limit, turn>>
  BY DEF Fails
<1>2. (IF point[p] > clock[p] THEN point[p] - clock[p] ELSE 0) = Ahead(p) BY DEF Ahead
<1>3. /\ pc' = [pc EXCEPT ![p] = "point"] /\ timer' = [timer EXCEPT ![p] = Ahead(p)]
  BY <1>1, <1>2 DEF Attempt, Go
<1>4. /\ BaudCounter' = [BaudCounter EXCEPT ![p] = BaudCounter[p] + 1]
      /\ point' = [point EXCEPT ![p] = point[p] + AttemptTicks]
  BY <1>1 DEF Attempt
<1>5. /\ Ahead(p)' = (point[p] + AttemptTicks) - clock[p] /\ Ahead(q)' = Ahead(q)
      /\ timer'[p] = point[p] - clock[p]
  BY <1>1, <1>3, <1>4 DEF Ahead
<1>6. Ahead(p)' = timer'[p] + AttemptTicks BY <1>5
<1>7. InStep'
  <2>1. \A r \in Peer : Now(r) = clock[r] /\ Now(r)' = clock[r]
    BY <1>1, <1>3 DEF Now
  <2> QED BY <1>1, <2>1 DEF InStep
<1>8. Fresh'
  <2>1. timer'[p] # 0 /\ timer'[q] = timer[q] /\ pc'[q] = pc[q] /\ turn' = turn
    <3>1. PICK a \in Int : a = Ahead(p) /\ a > 0 BY DEF Ahead
    <3> QED BY <1>1, <1>3, <3>1
  <2> QED BY <2>1 DEF Fresh
<1> QED BY <1>1, <1>3, <1>4, <1>5, <1>6, <1>7, <1>8

\* A step within an attempt leaves the two in step.
LEMMA StaysInStep ==
    ASSUME Base, NEW p \in Peer, NEW w, NEW t, Stays(p, w, t), InStep,
           \A r \in Peer : pc[r] \notin {"drum", "lok", "ack"}, w \notin {"drum", "lok", "ack"}
    PROVE  /\ InStep'
           /\ Fresh /\ t > 0 /\ t \in Nat => Fresh'
<1>0. Known(p) BY Pair
<1> USE <1>0 DEF Known
<1>1. /\ pc' = [pc EXCEPT ![p] = w] /\ timer' = [timer EXCEPT ![p] = t]
      /\ turn' = turn /\ clock' = clock
  BY DEF Stays, Go
<1>2. \A r \in Peer : Now(r) = clock[r] /\ Now(r)' = clock[r]
  BY <1>1 DEF Now
<1>3. InStep' BY <1>1, <1>2 DEF InStep
<1>4. Fresh /\ t > 0 /\ t \in Nat => Fresh' BY <1>1 DEF Fresh
<1> QED BY <1>3, <1>4

\* At one speed a side hears what its line lets through.
LEMMA OneSpeed ==
    ASSUME Base, SameSpeeds, NEW p \in Peer,
           \A r \in Peer : pc[r] \in {"point", "up"} \cup Testing
    PROVE  /\ Carries(p) = Carries("client") /\ Carries(Other(p)) = Carries(p)
           /\ Connected(p) <=> "byte" \in Carries(p)
           /\ Intact(p, "STRING") = IF Other(p) \in Carries(p) THEN "STRING" ELSE "JUNK"
           /\ Usable(BaudCounter[p]) <=> Carries(p) = {"byte"} \cup Peer
<1>0. Known(p) BY Pair
<1> USE <1>0 DEF Known
<1>1. rate[p] = PortOf(BaudCounter[p]) /\ rate[Other(p)] = PortOf(BaudCounter[Other(p)])
  BY DEF Base, Tuned
<1>2. BaudCounter[p] = BaudCounter["client"] /\ BaudCounter[Other(p)] = BaudCounter[p]
  BY DEF SameSpeeds, Peer
<1>3. line[rate[p]] = Carries(p) BY <1>1 DEF Carries
<1> QED BY <1>1, <1>2, <1>3 DEF Connected, Intact, Carried, Carries, Usable, PortOf

\* The clocks of two that try a speed, and their places.
LEMMA Clocks ==
    ASSUME Base, InTime, Trying, NEW p \in Peer
    PROVE  /\ pc[p] = "slop" /\ timer[p] = 0 => pc[Other(p)] # "point"
           /\ pc[p] = "hi" /\ timer[p] = 0 => pc[Other(p)] = "hi"
<1> DEFINE q == Other(p)
<1>0. Known(p) /\ Waits BY Pair
<1> USE <1>0 DEF Known, Waits
<1>1. /\ pc[p] \in {"point", "slop", "hi"} /\ pc[q] \in {"point", "slop", "hi"}
      /\ Ahead(p) = timer[p] + Left(p) /\ Ahead(q) = timer[q] + Left(q)
      /\ pc[q] = "point" => pc[p] # "hi"
  BY DEF Trying, Approaches
<1>2. point[p] = point[q] BY DEF Trying, SamePoints, Peer, Other
<1>3. \A r \in Peer : pc[r] \notin {"drum", "lok", "ack"} BY <1>1
<1>4. /\ clock[p] - clock[q] <= Skew + 1
      /\ turn = p => clock[p] - clock[q] <= Skew
  BY <1>3, Apart DEF Trying
<1>5. PICK a \in Nat, b \in Nat, s \in Nat, x \in Nat, y \in Nat :
         a = clock[p] /\ b = clock[q] /\ s = point[p] /\ x = timer[p] /\ y = timer[q]
  OBVIOUS
<1>6. ASSUME pc[p] = "slop", timer[p] = 0, pc[q] = "point" PROVE FALSE
  <2>0. /\ Ahead(p) = s - a /\ Ahead(q) = s - b
        /\ Left(p) = SetTicks + 2 * Slop /\ Left(q) = AttemptTicks
    BY <1>2, <1>5, <1>6 DEF Ahead, Left
  <2>1. s - a = SetTicks + 2 * Slop /\ s - b = y + SetTicks + 3 * Slop
    BY <1>1, <1>5, <1>6, <2>0
  <2>2. y = 0 => turn = p BY <1>5, <1>6 DEF Trying, Fresh
  <2>3. a - b <= Skew + 1 /\ (y = 0 => a - b <= Skew) BY <1>4, <1>5, <2>2
  <2>4. Slop > Skew BY DEF InTime
  <2> QED BY <2>1, <2>3, <2>4
<1>7. ASSUME pc[p] = "hi", timer[p] = 0, pc[q] # "hi" PROVE FALSE
  <2>1. pc[q] = "slop" BY <1>1, <1>7
  <2>2. /\ Ahead(p) = s - a /\ Ahead(q) = s - b
        /\ Left(p) = SetTicks /\ Left(q) = SetTicks + 2 * Slop
    BY <1>2, <1>5, <1>7, <2>1 DEF Ahead, Left
  <2>5. s - a = SetTicks /\ s - b = y + SetTicks + 2 * Slop
    BY <1>1, <1>5, <1>7, <2>2
  <2>3. a - b <= Skew + 1 BY <1>4, <1>5
  <2>4. Slop > Skew BY DEF InTime
  <2> QED BY <2>3, <2>4, <2>5
<1> QED BY <1>6, <1>7

\* What Trying says of p and the other side.
LEMMA Attempts ==
    ASSUME Base, InTime, Trying, NEW p \in Peer
    PROVE  /\ Approaches(p) /\ Approaches(Other(p)) /\ Slower(p) /\ Slower(Other(p))
           /\ BaudCounter[p] = BaudCounter[Other(p)] /\ point[p] = point[Other(p)]
           /\ pc[p] \in {"point", "slop", "hi"} /\ pc[Other(p)] \in {"point", "slop", "hi"}
           /\ \A r \in Peer : pc[r] \notin {"drum", "lok", "ack"}
           /\ Carries(Other(p)) = Carries(p) /\ Carries(p) = Carries("client")
           /\ Connected(p) <=> "byte" \in Carries(p)
           /\ Ahead(p) \in Int /\ Ahead(Other(p)) \in Int
<1>0. Known(p) BY Pair
<1> USE <1>0 DEF Known
<1>1. \A r \in Peer : Approaches(r) /\ Slower(r) BY DEF Trying
<1>2. \A r \in Peer : pc[r] \in {"point", "slop", "hi"} BY <1>1 DEF Approaches
<1>3. BaudCounter[p] = BaudCounter[Other(p)] /\ point[p] = point[Other(p)]
  BY DEF Trying, SameSpeeds, SamePoints, Peer, Other
<1>4. \A r \in Peer : pc[r] \in {"point", "up"} \cup Testing BY <1>2 DEF Testing
<1>5. SameSpeeds BY DEF Trying
<1>6. Ahead(p) \in Int /\ Ahead(Other(p)) \in Int BY DEF Ahead
<1> QED BY <1>1, <1>2, <1>3, <1>4, <1>5, <1>6, OneSpeed

LEMMA AtPointStep ==
    ASSUME Base, InTime, ClearsInput, Trying, NEW p \in Peer, AtPoint(p)
    PROVE  Trying'
<1> DEFINE q == Other(p)
<1>0. Known(p) /\ Waits BY Pair
<1> USE <1>0 DEF Known, Waits
<1>1. /\ Approaches(p) /\ Approaches(q) /\ Ahead(p) \in Int /\ Ahead(q) \in Int
      /\ \A r \in Peer : pc[r] \notin {"drum", "lok", "ack"}
      /\ InStep /\ Fresh /\ SameSpeeds /\ SamePoints /\ \A r \in Peer : Slower(r)
  BY Attempts DEF Trying
<1>2. /\ pc[p] = "point" /\ timer[p] = 0 /\ wire' = [wire EXCEPT ![p] = <<>>]
      /\ Stays(p, "slop", Slop)
  BY DEF AtPoint, Moves, Stays
<1>3. /\ pc'[p] = "slop" /\ timer'[p] = Slop /\ pc'[q] = pc[q] /\ timer'[q] = timer[q]
      /\ \A r \in Peer : /\ Ahead(r)' = Ahead(r) /\ Carries(r)' = Carries(r)
                         /\ Slower(r)' <=> Slower(r)
      /\ (SameSpeeds' <=> SameSpeeds) /\ (SamePoints' <=> SamePoints)
  BY <1>2, Stayed
<1>4. InStep' /\ Fresh' BY <1>1, <1>2, StaysInStep
<1>5. wire'[p] = <<>> /\ wire'[q] = wire[q] BY <1>2
<1>6. pc[q] # "hi" BY <1>1, <1>2 DEF Approaches
<1>7. Approaches(p)'
  <2>1. Ahead(p) = SetTicks + 3 * Slop BY <1>1, <1>2 DEF Approaches, Left
  <2>2. Left(p)' = SetTicks + 2 * Slop BY <1>3 DEF Left
  <2>3. Ahead(p)' = timer'[p] + Left(p)' BY <1>3, <2>1, <2>2
  <2> QED BY <1>3, <1>5, <1>6, <2>3 DEF Approaches
<1>8. Approaches(q)'
  <2>1. Left(q)' = Left(q) BY <1>3 DEF Left
  <2>2. Ahead(q)' = timer'[q] + Left(q)' BY <1>1, <1>3, <2>1 DEF Approaches
  <2>3. pc[q] # "point" => wire[q] = <<>> BY <1>1, <1>2 DEF Approaches
  <2>4. pc[q] \in {"point", "slop", "hi"} BY <1>1 DEF Approaches
  <2> QED BY <1>3, <1>5, <2>2, <2>3, <2>4 DEF Approaches
<1> QED BY <1>1, <1>3, <1>4, <1>7, <1>8 DEF Trying

LEMMA SayHiStep ==
    ASSUME Base, InTime, Trying, losses' = 0, NEW p \in Peer, SayHi(p)
    PROVE  Trying'
<1> DEFINE q == Other(p)
<1>0. Known(p) /\ Waits BY Pair
<1> USE <1>0 DEF Known, Waits
<1>1. /\ Approaches(p) /\ Approaches(q) /\ Ahead(p) \in Int /\ Ahead(q) \in Int
      /\ \A r \in Peer : pc[r] \notin {"drum", "lok", "ack"}
      /\ InStep /\ Fresh /\ SameSpeeds /\ SamePoints /\ \A r \in Peer : Slower(r)
  BY Attempts DEF Trying
<1>2. /\ pc[p] = "slop" /\ timer[p] = 0 /\ Send(p, wire[p], "HI") /\ Stays(p, "hi", 2 * Slop)
  BY DEF SayHi, Moves, Stays
<1>3. /\ pc'[p] = "hi" /\ timer'[p] = 2 * Slop /\ pc'[q] = pc[q] /\ timer'[q] = timer[q]
      /\ \A r \in Peer : /\ Ahead(r)' = Ahead(r) /\ Carries(r)' = Carries(r)
                         /\ Slower(r)' <=> Slower(r)
      /\ (SameSpeeds' <=> SameSpeeds) /\ (SamePoints' <=> SamePoints)
  BY <1>2, Stayed
<1>4. PICK t \in Nat : t = 2 * Slop /\ t > 0 OBVIOUS
<1>5. InStep' /\ Fresh'
  <2>1. Stays(p, "hi", t) BY <1>2, <1>4
  <2>2. "hi" \notin {"drum", "lok", "ack"} OBVIOUS
  <2>3. InStep' BY <1>1, <2>1, <2>2, StaysInStep
  <2>4. Fresh' BY <1>1, <1>4, <2>1, <2>2, StaysInStep
  <2> QED BY <2>3, <2>4
<1>6. pc[q] # "point" BY <1>2, Clocks
<1>7. wire[q] = <<>> /\ pc[q] \in {"slop", "hi"} BY <1>1, <1>2, <1>6 DEF Approaches
<1>8. /\ wire'[p] = wire[p]
      /\ "byte" \in Carries(q) => wire'[q] = <<"HI">>
      /\ "byte" \notin Carries(q) => wire'[q] = <<>> \/ wire'[q] = <<"OTHER">>
  <2>1. wire[p] \in Seq(Item) /\ pc[q] \notin {"away"} \cup Over /\ "HI" \in Byte
    BY <1>7 DEF Over, Byte
  <2>2. Carries(q) = Carries(p) /\ (Connected(p) <=> "byte" \in Carries(p)) BY Attempts
  <2> QED BY <1>2, <1>7, <2>1, <2>2, Gets
<1>9. Approaches(p)'
  <2>0. Left(p) = SetTicks + 2 * Slop BY <1>2 DEF Left
  <2>1. Ahead(p) = SetTicks + 2 * Slop BY <1>1, <1>2, <2>0 DEF Approaches
  <2>2. Left(p)' = SetTicks BY <1>3 DEF Left
  <2>3. Ahead(p)' = timer'[p] + Left(p)' BY <1>3, <2>1, <2>2
  <2>4. pc[q] # "hi" => wire[p] = <<>> BY <1>1, <1>2 DEF Approaches
  <2>5. pc[q] = "hi" => IF "byte" \in Carries(p) THEN wire[p] = <<"HI">>
                        ELSE wire[p] = <<>> \/ wire[p] = <<"OTHER">>
    BY <1>1, <1>2 DEF Approaches
  <2> QED BY <1>3, <1>7, <1>8, <2>3, <2>4, <2>5 DEF Approaches
<1>10. Approaches(q)'
  <2>1. Left(q)' = Left(q) BY <1>3 DEF Left
  <2>2. Ahead(q)' = timer'[q] + Left(q)' BY <1>1, <1>3, <2>1 DEF Approaches
  <2> QED BY <1>3, <1>6, <1>7, <1>8, <2>2 DEF Approaches
<1> QED BY <1>1, <1>3, <1>5, <1>9, <1>10 DEF Trying

\* What a side has got that waits for SDATA_HI.
LEMMA HiWaits ==
    ASSUME Base, InTime, Trying, NEW p \in Peer, pc[p] = "hi"
    PROVE  /\ Ahead(p) = timer[p] + SetTicks
           /\ pc[Other(p)] # "hi" => wire[p] = <<>>
           /\ pc[Other(p)] = "hi" =>
                 /\ "byte" \in Carries(p) => wire[p] = <<"HI">> /\ wire[Other(p)] = <<"HI">>
                 /\ "byte" \notin Carries(p) =>
                       /\ wire[p] = <<>> \/ wire[p] = <<"OTHER">>
                       /\ wire[Other(p)] = <<>> \/ wire[Other(p)] = <<"OTHER">>
                 /\ Ahead(Other(p)) = timer[Other(p)] + SetTicks
<1>0. Known(p) BY Pair
<1> USE <1>0 DEF Known
<1>1. Approaches(p) /\ Approaches(Other(p)) /\ Carries(Other(p)) = Carries(p) BY Attempts
<1>2. Ahead(p) = timer[p] + SetTicks BY <1>1 DEF Approaches, Left
<1>3. pc[Other(p)] # "hi" => wire[p] = <<>> BY <1>1 DEF Approaches
<1>4. ASSUME pc[Other(p)] = "hi"
      PROVE  /\ "byte" \in Carries(p) => wire[p] = <<"HI">> /\ wire[Other(p)] = <<"HI">>
             /\ "byte" \notin Carries(p) =>
                   /\ wire[p] = <<>> \/ wire[p] = <<"OTHER">>
                   /\ wire[Other(p)] = <<>> \/ wire[Other(p)] = <<"OTHER">>
             /\ Ahead(Other(p)) = timer[Other(p)] + SetTicks
  BY <1>1, <1>4 DEF Approaches, Left
<1> QED BY <1>2, <1>3, <1>4

LEMMA LowestPort ==
    ASSUME Base, NEW q \in Peer
    PROVE  BaudCounter[q] < Low \/ PortOf(BaudCounter[q]) = Low
<1>1. BaudCounter[q] \in Nat /\ BaudCounter[q] <= Low + 1 /\ MIN_BAUD = Low + 1 /\ Low \in Nat
  BY Numbers DEF Base
<1> QED BY <1>1 DEF PortOf

LEMMA HearHiStep ==
    ASSUME Base, InTime, Trying, NEW p \in Peer, HearHi(p)
    PROVE  Strings' /\ HeardFirst(p)'
<1> DEFINE q == Other(p)
           b == BaudCounter[p]
<1>0. Known(p) /\ Waits BY Pair
<1> USE <1>0 DEF Known, Waits
<1>1. /\ pc[p] = "hi" /\ Take(p, "HI") /\ wire' = [wire EXCEPT ![p] = Rest(p)]
      /\ point' = [point EXCEPT ![p] = point[p] + FullTest(b)]
      /\ pc' = [pc EXCEPT ![p] = Role(p, 1)] /\ timer' = [timer EXCEPT ![p] = SyncTimeOut]
      /\ UNCHANGED <<clock, BaudCounter, line, limit, turn>>
  BY DEF HearHi, Consume, Drop, Go
<1>2. /\ \A r \in Peer : Slower(r)
      /\ InStep /\ SameSpeeds /\ BaudCounter[q] = b /\ point[p] = point[q]
      /\ Carries(p) = Carries("client") /\ \A r \in Peer : pc[r] \notin {"drum", "lok", "ack"}
  BY Attempts DEF Trying
<1>3. wire[p] # <<>> BY <1>1 DEF Take
<1>4. pc[q] = "hi" BY <1>1, <1>3, HiWaits
<1>5. /\ Ahead(p) = timer[p] + SetTicks /\ Ahead(q) = timer[q] + SetTicks
      /\ "byte" \in Carries(p) => wire[p] = <<"HI">> /\ wire[q] = <<"HI">>
      /\ "byte" \notin Carries(p) => wire[p] = <<"OTHER">>
  BY <1>1, <1>3, <1>4, HiWaits
<1>6. "byte" \in Carries(p)
  <2>1. wire[p] = <<"OTHER">> => ~Take(p, "HI") BY Listens
  <2> QED BY <1>1, <1>5, <2>1
<1>7. Rest(p) = <<>> BY <1>5, <1>6, Listens
<1>8. Both(p, Role(p, 1), "hi", <<>>, <<"HI">>)'
  BY <1>1, <1>4, <1>5, <1>6, <1>7 DEF Both
<1>9. Strings'
  <2>1. \A r \in Peer : Slower(r)' BY <1>1, <1>2 DEF Slower, Avoided, Spoilt, Usable
  <2>2. \A r \in Peer : pc'[r] \in Testing
    BY <1>1, <1>4 DEF Testing, Loop, Role
  <2>3. "byte" \in Carries("client")' BY <1>1, <1>2, <1>6 DEF Carries
  <2>4. SameSpeeds' BY <1>1, <1>2 DEF SameSpeeds
  <2>5. \A r \in Peer : pc'[r] \notin {"drum", "lok", "ack"}
    BY <1>1, <1>4 DEF Role
  <2>6. \A r \in Peer : Now(r) = clock[r] /\ Now(r)' = clock[r]
    BY <1>1, <1>2, <2>5 DEF Now
  <2>7. InStep' BY <1>1, <1>2, <2>6 DEF InStep
  <2>8. Patient' BY <1>1, <1>4 DEF Patient, Once, Loop
  <2> QED BY <2>1, <2>2, <2>3, <2>4, <2>7, <2>8 DEF Strings
<1>10. HeardFirst(p)'
  <2>1. FullTest(b) \in Nat /\ FullTest(BaudCounter[p])' = FullTest(b)
    BY <1>1 DEF FullTest
  <2>2. point'[p] = point'[q] + FullTest(BaudCounter[p])' BY <1>1, <1>2, <2>1
  <2>3. Ahead(q)' = Ahead(q) /\ Ahead(p)' = (point[p] + FullTest(b)) - clock[p]
    BY <1>1 DEF Ahead
  <2>4. Ahead(p)' = timer[p] + SetTicks + FullTest(b)
    <3>1. point[p] - clock[p] = timer[p] + SetTicks BY <1>5 DEF Ahead
    <3> QED BY <2>1, <2>3, <3>1
  <2>5. Room("client")' = SetTicks + FullTest(b)
    <3>1. BaudCounter["client"] = b BY <1>2 DEF Peer
    <3>2. FullTest(BaudCounter["client"])' = FullTest(b) BY <1>1, <3>1 DEF FullTest
    <3>3. Room("client")' = SetTicks + FullTest(BaudCounter["client"])' - 0 BY DEF Room
    <3> QED BY <2>1, <3>2, <3>3
  <2>6. Ahead(p)' >= Room("client")' /\ Ahead(q)' >= SetTicks
    <3>1. PICK f \in Nat, t \in Nat, u \in Nat :
             f = FullTest(b) /\ t = timer[p] /\ u = timer[q]
      BY <2>1
    <3>2. t + SetTicks + f >= SetTicks + f BY <3>1
    <3>3. Ahead(p)' >= Room("client")' BY <2>4, <2>5, <3>1, <3>2
    <3>4. u + SetTicks >= SetTicks BY <3>1
    <3>5. Ahead(q)' = u + SetTicks BY <1>5, <2>3, <3>1
    <3> QED BY <3>3, <3>4, <3>5
  <2>7. p = "client" => Both(p, "sender", "hi", <<>>, <<"HI">>)' BY <1>8 DEF Role
  <2>8. p = "server" => Both(p, "end", "hi", <<>>, <<"HI">>)' BY <1>8 DEF Role
  <2> QED BY <2>2, <2>6, <2>7, <2>8 DEF HeardFirst, Peer
<1> QED BY <1>9, <1>10

\* At a speed without single bytes one side gives up, and then the other.
LEMMA NoHiStep ==
    ASSUME Base, InTime, "byte" \in line[Low], Trying, NEW p \in Peer, pc[p] = "hi",
           Disappointed(p, "HI"), Fails(p)
    PROVE  Deaf(Other(p))'
<1> DEFINE q == Other(p)
<1>0. Known(p) /\ Waits BY Pair
<1> USE <1>0 DEF Known, Waits
<1>1. /\ \A r \in Peer : Slower(r)
      /\ InStep /\ Fresh /\ BaudCounter[q] = BaudCounter[p] /\ point[q] = point[p]
      /\ Carries(q) = Carries(p) /\ \A r \in Peer : pc[r] \notin {"drum", "lok", "ack"}
  BY Attempts DEF Trying
<1>2. CASE "byte" \in Carries(p)
  <2>1. wire[p] = <<>> /\ timer[p] = 0
    <3>1. wire[p] = <<"HI">> => Head(wire[p]) = "HI" /\ wire[p] # <<>> BY Listens
    <3>2. wire[p] = <<>> \/ wire[p] = <<"HI">> BY <1>2, HiWaits
    <3> QED BY <3>1, <3>2 DEF Disappointed
  <2>2. wire[p] = <<"HI">> /\ wire[p] # <<>>
    <3>1. pc[q] = "hi" BY <2>1, Clocks
    <3>2. wire[p] = <<"HI">> BY <1>2, <3>1, HiWaits
    <3> QED BY <3>2, Listens
  <2> QED BY <2>1, <2>2
<1>3. CASE "byte" \notin Carries(p)
  <2>1. pc[q] = "hi"
    <3>1. wire[p] = <<>> => timer[p] = 0 BY DEF Disappointed
    <3> QED BY <3>1, Clocks, HiWaits
  <2>2. /\ Ahead(p) = timer[p] + SetTicks /\ Ahead(q) = timer[q] + SetTicks
        /\ wire[q] = <<>> \/ wire[q] = <<"OTHER">>
    BY <1>3, <2>1, HiWaits
  <2>3. wire'[q] = wire[q]
    <3>1. UNCHANGED wire \/ wire' = [wire EXCEPT ![p] = Rest(p)]
      BY DEF Disappointed, Drop
    <3> QED BY <3>1
  <2>4. BaudCounter[p] < Low BY <1>3, LowestPort DEF Carries
  <2>5. Ahead(p) > 0 BY <2>2
  <2>6. /\ pc'[p] = "point" /\ pc'[q] = "hi" /\ timer'[q] = timer[q]
        /\ BaudCounter'[p] = BaudCounter[q] + 1 /\ BaudCounter'[q] = BaudCounter[q]
        /\ point'[p] = point[q] + AttemptTicks /\ point'[q] = point[q]
        /\ UNCHANGED <<clock, line, limit, turn>>
        /\ Ahead(p)' = timer'[p] + AttemptTicks /\ Ahead(q)' = Ahead(q)
        /\ InStep' /\ Fresh'
    BY <1>1, <2>1, <2>4, <2>5, Retries
  <2>7. Beyond(p, q)' BY <2>6 DEF Beyond
  <2>8. Slower(q)' /\ Carries(q)' = Carries(q)
    BY <1>1, <2>6 DEF Slower, Avoided, Spoilt, Usable, Carries
  <2>9. Ahead(q)' = timer'[q] + SetTicks BY <2>2, <2>6
  <2> QED BY <1>1, <1>3, <2>2, <2>3, <2>6, <2>7, <2>8, <2>9 DEF Deaf
<1> QED BY <1>2, <1>3

\* A tick takes one off what p has to wait and off the way to its sync point.
LEMMA OneTick ==
    ASSUME Base, NEW p \in Peer, Tick(p), pc[p] \in ({"point"} \cup Testing) \ {"check"}
    PROVE  /\ timer[p] > 0 /\ timer'[p] = timer[p] - 1 /\ Ahead(p)' = Ahead(p) - 1
           /\ timer'[Other(p)] = timer[Other(p)] /\ Ahead(Other(p))' = Ahead(Other(p))
<1>0. Known(p) BY Pair
<1> USE <1>0 DEF Known
<1>1. pc[p] # "sender" BY Ticked DEF Ready
<1>2. /\ timer[p] > 0 /\ timer'[p] = timer[p] - 1 /\ clock'[p] = clock[p] + 1
      /\ timer'[Other(p)] = timer[Other(p)] /\ clock'[Other(p)] = clock[Other(p)]
      /\ UNCHANGED point
  BY <1>1, Ticked DEF Testing, Loop, Resting, Once, Untimed, Over
<1> QED BY <1>2 DEF Ahead

LEMMA TryingTick ==
    ASSUME Base, InTime, Trying, NEW p \in Peer, Tick(p)
    PROVE  Trying'
<1> DEFINE q == Other(p)
<1>0. Known(p) /\ Waits BY Pair
<1> USE <1>0 DEF Known, Waits
<1>1. /\ Approaches(p) /\ Approaches(q) /\ Ahead(p) \in Int /\ Ahead(q) \in Int
      /\ pc[p] \in {"point", "slop", "hi"} /\ pc[q] \in {"point", "slop", "hi"}
      /\ InStep /\ Fresh /\ SameSpeeds /\ SamePoints /\ \A r \in Peer : Slower(r)
  BY Attempts DEF Trying
<1>2. UNCHANGED <<pc, pass, point, BaudCounter, rate, wire, line, limit, losses>> BY Ticked
<1>3. InStep' /\ Fresh' BY <1>1, TicksInStep DEF Over
<1>4. /\ timer[p] > 0 /\ timer'[p] = timer[p] - 1 /\ Ahead(p)' = Ahead(p) - 1
      /\ timer'[q] = timer[q] /\ Ahead(q)' = Ahead(q)
  BY <1>1, OneTick DEF Testing, Loop
<1>5. \A r \in Peer : Left(r)' = Left(r) /\ Carries(r)' = Carries(r)
  BY <1>2 DEF Left, Carries
<1>6. Approaches(p)'
  <2>1. Left(p) \in Int
    <3>1. CASE pc[p] = "point" BY <3>1 DEF Left
    <3>2. CASE pc[p] = "slop"
      <4>1. Left(p) = SetTicks + 2 * Slop BY <3>2 DEF Left
      <4>2. SetTicks + 2 * Slop \in Int OBVIOUS
      <4> QED BY <4>1, <4>2
    <3>3. CASE pc[p] = "hi" BY <3>3 DEF Left
    <3> QED BY <1>1, <3>1, <3>2, <3>3
  <2>2. Ahead(p) = timer[p] + Left(p) BY <1>1 DEF Approaches
  <2>3. Ahead(p)' = timer'[p] + Left(p)' BY <1>4, <1>5, <2>1, <2>2
  <2> QED BY <1>1, <1>2, <1>5, <2>3 DEF Approaches
<1>7. Approaches(q)'
  <2>1. Ahead(q)' = timer'[q] + Left(q)' BY <1>1, <1>4, <1>5 DEF Approaches
  <2> QED BY <1>1, <1>2, <1>5, <2>1 DEF Approaches
<1>8. SameSpeeds' /\ SamePoints' /\ \A r \in Peer : Slower(r)'
  BY <1>1, <1>2 DEF SameSpeeds, SamePoints, Slower, Avoided, Spoilt, Usable
<1> QED BY <1>3, <1>6, <1>7, <1>8 DEF Trying

LEMMA TryingStep ==
    ASSUME Base, InTime, ClearsInput, "byte" \in line[Low], Trying, losses' = 0,
           NEW p \in Peer, SetSyncTime(p) \/ SetBaud(p) \/ Tick(p)
    PROVE  \/ Trying' \/ Deaf(Other(p))'
           \/ Strings' /\ HeardFirst(p)'
<1>1. CASE Tick(p) BY <1>1, TryingTick
<1>2. CASE AtPoint(p) BY <1>2, AtPointStep
<1>3. CASE SayHi(p) BY <1>3, SayHiStep
<1>4. CASE HearHi(p) BY <1>4, HearHiStep
<1>5. CASE pc[p] = "hi" /\ Disappointed(p, "HI") /\ Fails(p) BY <1>5, NoHiStep
<1>6. pc[p] \in {"point", "slop", "hi"} BY Attempts
<1> QED BY <1>1, <1>2, <1>3, <1>4, <1>5, <1>6, Steps

LEMMA Sum == \A a \in Nat, b \in Nat : b > 0 => a + b > 0 /\ a + b >= b
  OBVIOUS

\* The one that has not gone on yet does so.
LEMMA CatchesUp ==
    ASSUME Base, NEW q \in Peer, Beyond(Other(q), q), Slower(q), Avoided(BaudCounter[q]),
           BaudCounter[q] < Low, Ahead(q) > 0, pc[q] \notin {"drum", "lok", "ack"}, Fails(q)
    PROVE  Trying'
<1> DEFINE p == Other(q)
<1>0. Known(q) /\ Waits BY Pair
<1> USE <1>0 DEF Known, Waits
<1>1. /\ pc[p] = "point" /\ BaudCounter[p] = BaudCounter[q] + 1
      /\ point[p] = point[q] + AttemptTicks /\ Ahead(p) = timer[p] + AttemptTicks
      /\ InStep /\ Fresh
  BY DEF Beyond
<1>2. \A r \in Peer : pc[r] \notin {"drum", "lok", "ack"} BY <1>1
<1>3. /\ pc'[q] = "point" /\ pc'[p] = "point" /\ timer'[p] = timer[p]
      /\ BaudCounter'[q] = BaudCounter[q] + 1 /\ BaudCounter'[p] = BaudCounter[q] + 1
      /\ point'[q] = point[q] + AttemptTicks /\ point'[p] = point[q] + AttemptTicks
      /\ UNCHANGED <<clock, line, limit, turn>>
      /\ Ahead(q)' = timer'[q] + AttemptTicks /\ Ahead(p)' = timer'[p] + AttemptTicks
      /\ InStep' /\ Fresh'
  BY <1>1, <1>2, Retries
<1>4. SameSpeeds' /\ SamePoints' BY <1>3 DEF SameSpeeds, SamePoints, Peer, Other
<1>5. \A r \in Peer : Approaches(r)'
  BY <1>3 DEF Approaches, Left
<1>6. \A r \in Peer : Slower(r)'
  <2>1. ASSUME NEW b \in limit..BaudCounter[q] PROVE Avoided(b)
    <3>1. CASE b = BaudCounter[q] BY <3>1
    <3>2. CASE b # BaudCounter[q]
      <4>1. b \in limit..(BaudCounter[q] - 1) BY <3>2
      <4> QED BY <4>1 DEF Slower
    <3> QED BY <3>1, <3>2
  <2>2. ASSUME NEW r \in Peer PROVE BaudCounter'[r] - 1 = BaudCounter[q]
    <3>1. PICK b \in Nat : b = BaudCounter[q] OBVIOUS
    <3>2. BaudCounter'[r] = b + 1 BY <1>3, <3>1
    <3> QED BY <3>1, <3>2
  <2> QED BY <1>3, <2>1, <2>2 DEF Slower, Avoided, Spoilt, Usable
<1> QED BY <1>3, <1>4, <1>5, <1>6 DEF Trying

LEMMA BeyondTick ==
    ASSUME Base, NEW q \in Peer, Beyond(Other(q), q), pc[q] \in {"hi", "string", "tak"},
           NEW r \in Peer, Tick(r)
    PROVE  Beyond(Other(q), q)'
<1> DEFINE p == Other(q)
<1>0. Known(q) /\ Waits BY Pair
<1> USE <1>0 DEF Known, Waits
<1>1. UNCHANGED <<pc, pass, point, BaudCounter, rate, wire, line, limit, losses>> BY Ticked
<1>2. /\ pc[p] = "point" /\ BaudCounter[p] = BaudCounter[q] + 1
      /\ point[p] = point[q] + AttemptTicks /\ Ahead(p) = timer[p] + AttemptTicks
      /\ InStep /\ Fresh
  BY DEF Beyond
<1>3. InStep' /\ Fresh' BY <1>2, TicksInStep DEF Over
<1>4. Ahead(p)' = timer'[p] + AttemptTicks
  <2>1. CASE r = p
    <3>1. timer'[p] = timer[p] - 1 /\ Ahead(p)' = Ahead(p) - 1 BY <1>2, <2>1, OneTick
    <3> QED BY <1>2, <3>1
  <2>2. CASE r = q
    <3>1. timer'[p] = timer[p] /\ Ahead(p)' = Ahead(p)
      BY <2>2, OneTick DEF Testing, Loop
    <3> QED BY <1>2, <3>1
  <2> QED BY <2>1, <2>2
<1> QED BY <1>1, <1>2, <1>3, <1>4 DEF Beyond

\* What a sync point tells of the other clock.
LEMMA BeyondClocks ==
    ASSUME Base, NEW q \in Peer, Beyond(Other(q), q), pc[q] \notin {"drum", "lok", "ack"}
    PROVE  /\ timer[Other(q)] >= Ahead(q) - Skew - 1
           /\ turn = Other(q) => timer[Other(q)] >= Ahead(q) - Skew
<1> DEFINE p == Other(q)
<1>0. Known(q) /\ Waits BY Pair
<1>1. /\ pc[p] = "point" /\ point[p] = point[q] + AttemptTicks
      /\ Ahead(p) = timer[p] + AttemptTicks /\ InStep
  BY DEF Beyond
<1>2. p \in Peer /\ Other(p) = q /\ \A r \in Peer : pc[r] \notin {"drum", "lok", "ack"}
  BY <1>0, <1>1 DEF Known
<1>3. /\ clock[p] - clock[q] <= Skew + 1
      /\ turn = p => clock[p] - clock[q] <= Skew
  BY <1>1, <1>2, Apart
<1>4. PICK a \in Nat, b \in Nat, s \in Nat, x \in Nat, k \in Nat, t \in Nat :
         /\ a = clock[p] /\ b = clock[q] /\ s = point[q] /\ x = timer[p]
         /\ k = Skew /\ t = AttemptTicks
  BY <1>0 DEF Known, Waits
<1>5. (s + t) - a = x + t /\ Ahead(q) = s - b BY <1>1, <1>4 DEF Ahead
<1>6. x = s - a BY <1>4, <1>5
<1>7. x >= (s - b) - k - 1 /\ (turn = p => x >= (s - b) - k) BY <1>3, <1>4, <1>6
<1> QED BY <1>4, <1>5, <1>7

LEMMA DeafStep ==
    ASSUME Base, InTime, "byte" \in line[Low], NEW q \in Peer, Deaf(q),
           NEW r \in Peer, SetSyncTime(r) \/ SetBaud(r) \/ Tick(r)
    PROVE  Deaf(q)' \/ Trying'
<1> DEFINE p == Other(q)
<1>0. Known(q) /\ Waits BY Pair
<1> USE <1>0 DEF Known, Waits
<1>1. /\ Beyond(p, q) /\ Slower(q) /\ "byte" \notin Carries(q) /\ pc[q] = "hi"
      /\ Ahead(q) = timer[q] + SetTicks /\ (wire[q] = <<>> \/ wire[q] = <<"OTHER">>)
      /\ pc[p] = "point" /\ Fresh
  BY DEF Deaf, Beyond
<1>2. timer[p] > 0
  <2>1. /\ timer[p] >= Ahead(q) - Skew - 1
        /\ turn = p => timer[p] >= Ahead(q) - Skew
    BY <1>1, BeyondClocks
  <2>2. timer[q] = 0 => turn = p BY <1>1 DEF Fresh
  <2>3. PICK x \in Nat, y \in Nat : x = timer[p] /\ y = timer[q] OBVIOUS
  <2>4. x >= (y + SetTicks) - Skew - 1 /\ (y = 0 => x >= (y + SetTicks) - Skew)
    BY <1>1, <2>1, <2>2, <2>3
  <2>5. SetTicks > Skew BY DEF InTime
  <2>6. x > 0 BY <2>4, <2>5
  <2> QED BY <2>3, <2>6
<1>3. CASE Tick(r)
  <2>1. Beyond(p, q)' BY <1>1, <1>3, BeyondTick
  <2>2. UNCHANGED <<pc, point, BaudCounter, wire, line, limit>> BY <1>3, Ticked
  <2>3. Ahead(q)' = timer'[q] + SetTicks
    <3>1. CASE r = q
      <4>1. timer'[q] = timer[q] - 1 /\ Ahead(q)' = Ahead(q) - 1
        BY <1>1, <1>3, <3>1, OneTick DEF Testing, Loop
      <4> QED BY <1>1, <4>1
    <3>2. CASE r = p
      <4>1. timer'[q] = timer[q] /\ Ahead(q)' = Ahead(q) BY <1>1, <1>3, <3>2, OneTick
      <4> QED BY <1>1, <4>1
    <3> QED BY <3>1, <3>2
  <2> QED BY <1>1, <2>1, <2>2, <2>3 DEF Deaf, Slower, Avoided, Spoilt, Usable, Carries
<1>4. CASE ~Tick(r)
  <2>1. r = q BY <1>1, <1>2, <1>4, Idle DEF Resting
  <2>2. ~HearHi(q)
    <3>1. wire[q] = <<"OTHER">> => ~Take(q, "HI") BY Listens
    <3>2. wire[q] = <<>> => ~Take(q, "HI") BY Nothing
    <3> QED BY <1>1, <3>1, <3>2 DEF HearHi
  <2>3. Fails(q) BY <1>1, <1>4, <2>1, <2>2, Steps
  <2>4. Avoided(BaudCounter[q]) BY <1>1 DEF Carries, PortOf, Avoided, Usable
  <2>5. BaudCounter[q] < Low BY <1>1, LowestPort DEF Carries
  <2>6. Ahead(q) > 0
    <3>1. timer[q] + SetTicks > 0 BY Sum
    <3>2. Ahead(q) = timer[q] + SetTicks BY <1>1
    <3> QED BY <3>1, <3>2, Zenon
  <2> QED BY <1>1, <2>3, <2>4, <2>5, <2>6, CatchesUp
<1> QED BY <1>3, <1>4

-----------------------------------------------------------------------------
(* SetBaud: the strings are sent.                                          *)

\* What is known of a side while the strings are sent.
LEMMA Talk ==
    ASSUME Base, Strings, NEW p \in Peer
    PROVE  /\ Other(p) \in Peer /\ Other(p) # p /\ Other(Other(p)) = p
           /\ TypeOK /\ timer[p] \in Nat /\ timer[Other(p)] \in Nat
           /\ wire \in [Peer -> Seq(Item)] /\ <<>> \in Seq(Item)
           /\ \A r \in Peer : /\ Connected(r) /\ Carries(r) = Carries("client")
                              /\ pc[r] \in Testing /\ pc[r] \notin {"away"} \cup Over
                              /\ pc[r] \notin {"drum", "lok", "ack"}
           /\ \A r \in Peer : pc[r] \in (Once \ {"hi"}) \cup Loop => timer[r] > 0
<1>0. Known(p) BY Pair
<1>1. \A r \in Peer : pc[r] \in Testing BY DEF Strings
<1>2. \A r \in Peer : pc[r] \notin {"away"} \cup Over /\ pc[r] \notin {"drum", "lok", "ack"}
  BY <1>1 DEF Testing, Loop, Over
<1>3. \A r \in Peer : pc[r] \in {"point", "up"} \cup Testing BY <1>1
<1>4. \A r \in Peer : Connected(r) /\ Carries(r) = Carries("client")
  BY <1>3, OneSpeed DEF Strings
<1>5. \A r \in Peer : pc[r] \in (Once \ {"hi"}) \cup Loop => timer[r] > 0
  BY DEF Strings, Patient
<1> QED BY <1>0, <1>1, <1>2, <1>4, <1>5 DEF Known

\* A byte that is sent gets through.
LEMMA Passed ==
    ASSUME Base, Strings, losses' = 0, NEW p \in Peer, NEW rest \in Seq(Item), NEW c \in Byte,
           Send(p, rest, c)
    PROVE  /\ wire'[p] = rest
           /\ wire[Other(p)] = <<>> => wire'[Other(p)] = <<c>>
           /\ \A d : wire[Other(p)] = <<d>> => wire'[Other(p)] = <<d, c>>
<1>1. TypeOK /\ pc[Other(p)] \notin {"away"} \cup Over /\ Connected(p) BY Talk
<1> QED BY <1>1, Gets

\* A side that waits and has got nothing yet.
LEMMA Quiet ==
    ASSUME Base, Strings, NEW p \in Peer, pc[p] \in (Once \ {"hi", "check"}) \cup Loop,
           wire[p] = <<>>
    PROVE  ~(SetSyncTime(p) \/ SetBaud(p))
<1>1. /\ timer[p] > 0 /\ timer[p] \in Nat
      /\ pc[p] \in (Once \ {"check"}) \cup Loop
  BY Talk
<1> QED BY <1>1, Idle

\* No clock ticks while a side has something to do.
LEMMA Busy ==
    ASSUME NEW p \in Peer,
           pc[p] = "sender" \/ (pc[p] \in Once \cup Loop /\ wire[p] # <<>>)
    PROVE  \A r \in Peer : ~Tick(r)
  BY DEF Tick, Ready

\* Places and numbers of p change, but no speed, no clock.
LEMMA StringsKept ==
    ASSUME Base, Strings, NEW p \in Peer, NEW w \in Testing, NEW t \in Nat, Go(p, w, t),
           UNCHANGED <<clock, BaudCounter, line, limit, turn>>,
           w \in (Once \ {"hi"}) \cup Loop => t > 0
    PROVE  Strings'
<1>0. Known(p) BY Pair
<1>1. /\ pc' = [pc EXCEPT ![p] = w] /\ timer' = [timer EXCEPT ![p] = t]
      /\ pc \in [Peer -> Place] /\ timer \in [Peer -> Nat]
  BY <1>0 DEF Go, Known
<1>2. \A r \in Peer : pc[r] \in Testing /\ pc[r] \notin {"drum", "lok", "ack"} BY Talk
<1>3. \A r \in Peer : pc'[r] \in Testing BY <1>1, <1>2
<1>4. \A r \in Peer : pc'[r] \notin {"drum", "lok", "ack"} BY <1>3 DEF Testing, Loop
<1>5. InStep'
  <2>1. \A r \in Peer : Now(r) = clock[r] /\ Now(r)' = clock[r] BY <1>2, <1>4 DEF Now
  <2>2. \A r \in Peer : Other(r) \in Peer BY Others
  <2>3. InStep /\ turn' = turn BY DEF Strings
  <2> QED BY <2>1, <2>2, <2>3 DEF InStep
<1>6. Patient' BY <1>1 DEF Strings, Patient
<1>7. SameSpeeds' /\ "byte" \in Carries("client")' /\ \A r \in Peer : Slower(r)'
  BY DEF Strings, SameSpeeds, Carries, Slower, Avoided, Spoilt, Usable
<1> QED BY <1>3, <1>5, <1>6, <1>7 DEF Strings

LEMMA Onward ==
    ASSUME Base, Strings, SamePoints, NEW p \in Peer, NEW w \in Testing, NEW t \in Nat,
           Stays(p, w, t), w \in (Once \ {"hi"}) \cup Loop => t > 0
    PROVE  /\ Strings' /\ SamePoints'
           /\ pc'[p] = w /\ timer'[p] = t
           /\ pc'[Other(p)] = pc[Other(p)] /\ timer'[Other(p)] = timer[Other(p)]
           /\ \A r \in Peer : /\ Ahead(r)' = Ahead(r) /\ Room(r)' = Room(r)
                              /\ Carries(r)' = Carries(r)
<1>1. Go(p, w, t) /\ UNCHANGED <<clock, BaudCounter, line, limit, turn>> BY DEF Stays
<1>2. Strings' BY <1>1, StringsKept
<1>3. TypeOK BY Talk
<1> QED BY <1>2, <1>3, Stayed

LEMMA HeardFirstStep ==
    ASSUME Base, InTime, Strings, losses' = 0, NEW p \in Peer, HeardFirst(p),
           NEW r \in Peer, SetSyncTime(r) \/ SetBaud(r) \/ Tick(r)
    PROVE  /\ Strings'
           /\ HeardFirst(p)' \/ (SamePoints' /\ Sends("client")')
<1> DEFINE q == Other(p)
           b == BaudCounter[p]
<1>0. Known(p) /\ Waits BY Pair
<1>1. /\ point[p] = point[q] + FullTest(b)
      /\ Ahead(p) >= Room("client") /\ Ahead(q) >= SetTicks
      /\ BaudCounter[p] = BaudCounter[q] /\ BaudCounter["client"] = b
      /\ pc[q] = "hi"
  BY DEF HeardFirst, Strings, SameSpeeds, Peer, Other, Both
<1>2. /\ q \in Peer /\ q # p /\ Other(q) = p /\ (r = p \/ r = q)
      /\ wire \in [Peer -> Seq(Item)] /\ pc \in [Peer -> Place]
      /\ point \in [Peer -> Nat] /\ clock[p] \in Nat /\ clock[q] \in Nat
      /\ FullTest(b) \in Nat /\ SetTicks \in Nat
  BY <1>0 DEF Known, Waits
<1>3. /\ wire[q] = <<"HI">> \/ wire[q] = <<"HI", "SYNC">>
      /\ (p = "client" /\ pc[p] = "sender") \/ pc[p] \in {"sync", "end"}
      /\ wire[p] = <<>>
  BY DEF HeardFirst, Both
<1>4. /\ wire[q] # <<>> /\ Head(wire[q]) = "HI"
      /\ wire[q] = <<"HI">> => Rest(q) = <<>>
      /\ wire[q] = <<"HI", "SYNC">> => Rest(q) = <<"SYNC">>
  BY <1>2, <1>3, Listens, ListensTwice
<1>5. ~Tick(r) BY <1>1, <1>2, <1>4, Busy DEF Once
<1>6. CASE r = p
  <2>1. pc[p] = "sender" /\ p = "client" /\ SendSync(p)
    <3>1. ~(pc[p] \in {"sync", "end"}) BY <1>3, <1>5, <1>6, Quiet DEF Loop
    <3> QED BY <1>3, <1>5, <1>6, <3>1, Steps
  <2>2. wire[q] = <<"HI">> BY <2>1 DEF HeardFirst, Both
  <2>3. Send(p, <<>>, "SYNC") /\ Stays(p, "sync", SyncTimeOut + 1)
    BY <1>3, <2>1 DEF SendSync, Moves, Stays
  <2>4. wire'[p] = <<>> /\ wire'[q] = <<"HI", "SYNC">>
    BY <1>2, <2>2, <2>3, Passed, Talk DEF Byte
  <2>5. PICK t \in Nat : t = SyncTimeOut + 1 /\ t > 0 BY <1>0 DEF Waits
  <2>6. Strings'
    <3>1. Go(p, "sync", t) /\ UNCHANGED <<clock, BaudCounter, line, limit, turn>>
      BY <2>3, <2>5 DEF Stays
    <3>2. "sync" \in Testing BY DEF Testing, Loop
    <3> QED BY <2>5, <3>1, <3>2, StringsKept
  <2>7. /\ pc'[p] = "sync" /\ pc'[q] = "hi" /\ Ahead(p)' = Ahead(p) /\ Ahead(q)' = Ahead(q)
        /\ Room("client")' = Room("client")
    <3>1. TypeOK /\ "client" \in Peer BY Talk DEF Peer
    <3> QED BY <1>1, <1>2, <2>3, <3>1, Stayed
  <2>8. Both(p, "sync", "hi", <<>>, <<"HI", "SYNC">>)' BY <2>4, <2>7 DEF Both
  <2>9. point' = point /\ BaudCounter' = BaudCounter BY <2>3 DEF Stays
  <2>10. point'[p] = point'[q] + FullTest(BaudCounter[p])'
    BY <1>1, <2>9 DEF FullTest
  <2> QED BY <1>1, <2>1, <2>6, <2>7, <2>8, <2>10 DEF HeardFirst
<1>7. CASE r = q
  <2>1. HearHi(q)
    <3>1. ~Disappointed(q, "HI") BY <1>4 DEF Disappointed
    <3> QED BY <1>1, <1>2, <1>5, <1>7, <3>1, Steps
  <2>2. /\ wire' = [wire EXCEPT ![q] = Rest(q)] /\ Go(q, Role(q, 1), SyncTimeOut)
        /\ point' = [point EXCEPT ![q] = point[q] + FullTest(b)]
        /\ UNCHANGED <<clock, BaudCounter, line, limit, turn>>
    BY <1>1, <2>1 DEF HearHi, Consume, Drop
  <2>3. Strings'
    <3>1. Role(q, 1) \in Testing BY DEF Role, Testing, Loop
    <3>2. SyncTimeOut \in Nat /\ SyncTimeOut > 0 BY <1>0 DEF Waits
    <3> QED BY <1>2, <2>2, <3>1, <3>2, StringsKept
  <2>4. point'[q] = point[p] /\ point'[p] = point[p] BY <1>1, <1>2, <2>2
  <2>5. SamePoints' BY <1>2, <2>4 DEF SamePoints, Peer, Other
  <2>6. pc'[q] = Role(q, 1) /\ pc'[p] = pc[p] /\ wire'[q] = Rest(q) /\ wire'[p] = <<>>
    BY <1>2, <1>3, <2>2 DEF Go
  <2>7. Room("client") = SetTicks + FullTest(b) /\ Room("client")' = SetTicks + FullTest(b)
    <3>1. FullTest(BaudCounter["client"])' = FullTest(BaudCounter["client"])
      BY <2>2 DEF FullTest
    <3> QED BY <1>1, <1>2, <3>1 DEF Room
  <2>8. Ahead("client")' >= Room("client")'
    <3>1. CASE p = "client"
      <4>1. Ahead("client")' = Ahead("client") BY <2>2, <2>4, <3>1 DEF Ahead
      <4> QED BY <1>1, <2>7, <3>1, <4>1
    <3>2. CASE p = "server"
      <4>1. q = "client" BY <3>2 DEF Other
      <4>2. point[p] \in Nat /\ point[q] \in Nat BY <1>2
      <4>3. PICK x \in Nat, f \in Nat, c \in Nat, s \in Nat :
               x = point[q] /\ f = FullTest(b) /\ c = clock[q] /\ s = SetTicks
        BY <1>2, <4>2
      <4>4. x - c >= s BY <1>1, <4>3 DEF Ahead
      <4>5. Ahead(q)' = (x + f) - c BY <1>1, <2>2, <2>4, <4>3 DEF Ahead
      <4>6. (x + f) - c >= s + f BY <4>3, <4>4
      <4> QED BY <2>7, <4>1, <4>3, <4>5, <4>6
    <3> QED BY <3>1, <3>2 DEF Peer
  <2>9. Asks("client")'
    <3>1. CASE p = "client"
      <4>1. q = "server" /\ pc'["server"] = "end" BY <2>6, <3>1 DEF Other, Role
      <4>2. CASE pc[p] = "sender"
        <5>1. wire[q] = <<"HI">> BY <3>1, <4>2 DEF HeardFirst, Both
        <5>2. Both("client", "sender", "end", <<>>, <<>>)'
          BY <1>4, <2>6, <3>1, <4>1, <4>2, <5>1 DEF Both
        <5> QED BY <5>2 DEF Asks
      <4>3. CASE pc[p] # "sender"
        <5>1. wire[q] = <<"HI", "SYNC">> /\ pc[p] = "sync"
          BY <3>1, <4>3 DEF HeardFirst, Both
        <5>2. Both("client", "sync", "end", <<>>, <<"SYNC">>)'
          BY <1>4, <2>6, <3>1, <4>1, <5>1 DEF Both
        <5> QED BY <5>2 DEF Asks
      <4> QED BY <4>2, <4>3
    <3>2. CASE p = "server"
      <4>1. q = "client" /\ pc'["client"] = "sender" BY <2>6, <3>2 DEF Other, Role
      <4>2. pc[p] = "end" /\ wire[q] = <<"HI">> BY <3>2 DEF HeardFirst, Both
      <4>3. Other("client") = "server" BY DEF Other
      <4>4. Both("client", "sender", "end", <<>>, <<>>)'
        BY <1>4, <2>6, <3>2, <4>1, <4>2, <4>3 DEF Both
      <4> QED BY <4>4 DEF Asks
    <3> QED BY <3>1, <3>2 DEF Peer
  <2> QED BY <2>3, <2>5, <2>8, <2>9 DEF Sends
<1> QED BY <1>2, <1>6, <1>7

LEMMA Whole ==
    ASSUME Base, NEW p \in Peer
    PROVE  /\ Ahead(p) \in Int /\ Room(p) \in Int
           /\ Room("client") = SetTicks + FullTest(BaudCounter["client"])
           /\ Room("server") = SetTicks + FullTest(BaudCounter["server"])
                               - StringTicks - Skew - 1
           /\ \A r \in Peer : FullTest(BaudCounter[r]) \in Nat
<1>1. /\ point[p] \in Nat /\ clock[p] \in Nat /\ SetTicks \in Nat /\ StringTicks \in Nat
      /\ Skew \in Nat /\ \A r \in Peer : FullTest(BaudCounter[r]) \in Nat
  BY Pair DEF Known, Waits
<1>2. Ahead(p) \in Int BY <1>1 DEF Ahead
<1>3. PICK s \in Nat, t \in Nat, k \in Nat, f \in Nat, g \in Nat :
         /\ s = SetTicks /\ t = StringTicks /\ k = Skew
         /\ f = FullTest(BaudCounter["client"]) /\ g = FullTest(BaudCounter["server"])
  BY <1>1 DEF Peer
<1>4. Room("client") = s + f - 0 BY <1>3 DEF Room
<1>5. Room("server") = s + g - (t + k + 1) BY <1>3 DEF Room
<1>6. s + f - 0 = s + f /\ s + g - (t + k + 1) = s + g - t - k - 1 BY <1>3
<1>7. s + f \in Int /\ s + g - t - k - 1 \in Int BY <1>3
<1>8. Room(p) \in Int BY <1>4, <1>5, <1>6, <1>7 DEF Peer
<1> QED BY <1>1, <1>2, <1>3, <1>4, <1>5, <1>6, <1>8

\* The sender asks for the string.
LEMMA AsksStep ==
    ASSUME Base, Strings, SamePoints, losses' = 0, NEW p \in Peer,
           p = "server" => "server" \in Carries("client"), Asks(p), Ahead(p) >= Room(p),
           NEW r \in Peer, SetSyncTime(r) \/ SetBaud(r) \/ Tick(r)
    PROVE  Strings' /\ SamePoints' /\ Sends(p)'
<1> DEFINE q == Other(p)
<1>0. /\ q \in Peer /\ q # p /\ Other(q) = p /\ (r = p \/ r = q)
      /\ wire \in [Peer -> Seq(Item)] /\ pc \in [Peer -> Place] /\ timer \in [Peer -> Nat]
      /\ <<>> \in Seq(Item) /\ SyncTimeOut \in Nat /\ SyncTimeOut > 0
      /\ StringTicks \in Nat /\ StringTicks > 0
  BY Pair DEF Known, Waits
<1>1. \A x \in {"sender", "sync", "end", "string"} : x \in Testing BY DEF Testing, Loop
<1>2. CASE Both(p, "sender", "end", <<>>, <<>>)
  <2>1. ~Tick(r) BY <1>2, Busy DEF Both
  <2>2. r = p BY <1>0, <1>2, <2>1, Quiet DEF Both, Loop
  <2>3. SendSync(p) BY <1>2, <2>1, <2>2, Steps DEF Both
  <2>4. PICK t \in Nat : t = SyncTimeOut + 1 /\ t > 0 BY <1>0
  <2>5. Send(p, <<>>, "SYNC") /\ Stays(p, "sync", t)
    BY <1>2, <2>3, <2>4 DEF SendSync, Moves, Stays, Both
  <2>6. wire'[p] = <<>> /\ wire'[q] = <<"SYNC">>
    BY <1>0, <1>2, <2>5, Passed DEF Both, Byte
  <2>7. /\ Strings' /\ SamePoints' /\ pc'[p] = "sync" /\ pc'[q] = "end"
        /\ \A x \in Peer : Ahead(x)' = Ahead(x) /\ Room(x)' = Room(x) /\ Carries(x)' = Carries(x)
    BY <1>1, <1>2, <2>4, <2>5, Onward DEF Both
  <2>8. Both(p, "sync", "end", <<>>, <<"SYNC">>)' BY <2>6, <2>7 DEF Both
  <2>9. Asks(p)' BY <2>8 DEF Asks
  <2> QED BY <2>7, <2>9 DEF Sends, Peer
<1>3. CASE Both(p, "sync", "end", <<>>, <<"SYNC">>)
  <2>1. wire[q] # <<>> /\ Head(wire[q]) = "SYNC" /\ Rest(q) = <<>>
        /\ \A d : Take(q, d) <=> d = "SYNC"
    BY <1>0, <1>3, Listens DEF Both
  <2>2. ~Tick(r) BY <1>0, <1>3, <2>1, Busy DEF Both, Loop
  <2>3. r = q BY <1>0, <1>3, <2>2, Quiet DEF Both, Loop
  <2>4. Answer(q)
    <3>1. pc[q] = "end" /\ timer[q] > 0 /\ timer[q] \in Nat
      BY <1>0, <1>3, Talk DEF Both, Loop
    <3>2. ~SyncEnds(q) /\ ~StringTooSoon(q) /\ ~PendingError(q)
      BY <2>1 DEF SyncEnds, StringTooSoon, PendingError
    <3>3. ~Skip(q) BY <2>1, <3>1 DEF Skip, Awaited
    <3>4. ~LoopEnds(q) BY <2>1, <3>1 DEF LoopEnds
    <3> QED BY <1>0, <2>2, <2>3, <3>1, <3>2, <3>3, <3>4, Steps
  <2>5. /\ Send(q, <<>>, "ACK") /\ UNCHANGED <<pc, time, BaudCounter, line, limit, turn>>
    BY <1>3, <2>1, <2>4 DEF Answer, Answers, Both
  <2>6. Stays(q, "end", timer[q]) BY <1>0, <1>3, <2>5 DEF Stays, Go, time, Both
  <2>7. wire'[q] = <<>> /\ wire'[p] = <<"ACK">>
    BY <1>0, <1>3, <2>5, Passed DEF Both, Byte
  <2>8. timer[q] \in Nat /\ timer[q] > 0 BY <1>0, <1>3, Talk DEF Both, Loop
  <2>9. /\ Strings' /\ SamePoints' /\ pc'[p] = "sync" /\ pc'[q] = "end"
        /\ \A x \in Peer : Ahead(x)' = Ahead(x) /\ Room(x)' = Room(x) /\ Carries(x)' = Carries(x)
    BY <1>0, <1>1, <1>3, <2>6, <2>8, Onward DEF Both
  <2>10. Both(p, "sync", "end", <<"ACK">>, <<>>)' BY <2>7, <2>9 DEF Both
  <2>11. Asks(p)' BY <2>10 DEF Asks
  <2> QED BY <2>9, <2>11 DEF Sends, Peer
<1>4. CASE Both(p, "sync", "end", <<"ACK">>, <<>>)
  <2>1. wire[p] # <<>> /\ Head(wire[p]) = "ACK" /\ Rest(p) = <<>>
    BY <1>0, <1>4, Listens DEF Both
  <2>2. ~Tick(r) BY <1>4, <2>1, Busy DEF Both, Loop
  <2>3. r = p BY <1>0, <1>4, <2>2, Quiet DEF Both, Loop
  <2>4. SyncAcked(p)
    <3>1. pc[p] = "sync" /\ timer[p] > 0 /\ timer[p] \in Nat
      BY <1>0, <1>4, Talk DEF Both, Loop
    <3>2. ~Answer(p) BY <2>1, <3>1 DEF Answer, Answers
    <3>3. ~Skip(p) BY <2>1, <3>1 DEF Skip, Awaited
    <3>4. ~LoopEnds(p) BY <2>1, <3>1 DEF LoopEnds
    <3> QED BY <2>2, <2>3, <3>1, <3>2, <3>3, <3>4, Steps
  <2>5. Send(p, <<>>, "END") /\ Stays(p, "string", StringTicks)
    BY <2>1, <2>4 DEF SyncAcked, Moves, Stays
  <2>6. wire'[p] = <<>> /\ wire'[q] = <<"END">>
    BY <1>0, <1>4, <2>5, Passed DEF Both, Byte
  <2>7. /\ Strings' /\ SamePoints' /\ pc'[p] = "string" /\ pc'[q] = "end"
        /\ timer'[p] = StringTicks
        /\ \A x \in Peer : Ahead(x)' = Ahead(x) /\ Room(x)' = Room(x) /\ Carries(x)' = Carries(x)
    BY <1>0, <1>1, <1>4, <2>5, Onward DEF Both
  <2>8. Both(p, "string", "end", <<>>, <<"END">>)' BY <2>6, <2>7 DEF Both
  <2>9. Writes(p)' BY <1>0, <2>7, <2>8 DEF Writes
  <2>10. Ahead(p)' >= Room(p)' - StringTicks + timer'[p]
    <3>1. PICK a, b : a = Ahead(p) /\ b = Room(p) OBVIOUS
    <3>2. a >= b /\ a \in Int /\ b \in Int
      BY <3>1, Whole
    <3>3. a >= b - StringTicks + StringTicks BY <1>0, <3>2
    <3>4. Ahead(p)' = a /\ Room(p)' = b BY <2>7, <3>1
    <3> QED BY <2>7, <3>3, <3>4
  <2> QED BY <2>7, <2>9, <2>10 DEF Sends, Peer
<1> QED BY <1>2, <1>3, <1>4 DEF Asks

\* The sync points of both are at the same time, as far as their clocks tell.
LEMMA Nearly ==
    ASSUME Base, Strings, SamePoints, NEW p \in Peer
    PROVE  Ahead(Other(p)) >= Ahead(p) - Skew - 1
<1> DEFINE q == Other(p)
<1>1. q \in Peer /\ Other(q) = p /\ \A r \in Peer : pc[r] \notin {"drum", "lok", "ack"}
  BY Talk
<1>2. clock[q] - clock[p] <= Skew + 1 BY <1>1, Apart DEF Strings
<1>3. point[q] = point[p] BY <1>1 DEF SamePoints, Peer, Other
<1>4. PICK a \in Nat, b \in Nat, s \in Nat, k \in Nat :
         a = clock[p] /\ b = clock[q] /\ s = point[p] /\ k = Skew
  BY Pair DEF Known, Waits
<1>5. Ahead(p) = s - a /\ Ahead(q) = s - b BY <1>3, <1>4 DEF Ahead
<1>6. b - a <= k + 1 BY <1>2, <1>4
<1>7. s - b >= s - a - k - 1 BY <1>4, <1>6
<1> QED BY <1>4, <1>5, <1>7

\* A failed test leaves both enough time before the next attempt.
LEMMA Margins ==
    ASSUME Base, InTime, Strings, SamePoints, NEW p \in Peer,
           Ahead(p) >= Room(p) - StringTicks
    PROVE  /\ Ahead(p) >= Room("server") - StringTicks /\ Room(p) >= Room("server")
           /\ BaudCounter[p] < Low => Ahead(Other(p)) > 0
<1> DEFINE b == BaudCounter[p]
<1>1. /\ BaudCounter["client"] = b /\ BaudCounter["server"] = b
      /\ b \in Nat /\ MIN_BAUD = Low + 1 /\ Low \in Nat
  BY Pair DEF Known, Strings, SameSpeeds, Peer
<1>2. PICK s \in Nat, t \in Nat, k \in Nat, f \in Nat, x \in Int, y \in Int :
         /\ s = SetTicks /\ t = StringTicks /\ k = Skew /\ f = FullTest(b)
         /\ x = Ahead(p) /\ y = Ahead(Other(p))
  <2>1. Other(p) \in Peer /\ SetTicks \in Nat /\ StringTicks \in Nat /\ Skew \in Nat
    BY Pair DEF Known, Waits
  <2> QED BY <2>1, Whole
<1>3. Room("client") = s + f /\ Room("server") = s + f - t - k - 1 BY <1>1, <1>2, Whole
<1>4. x >= s + f - t - k - 1 - t
  <2>1. CASE p = "client"
    <3>1. x >= s + f - t BY <1>2, <1>3, <2>1
    <3> QED BY <1>2, <3>1
  <2>2. CASE p = "server" BY <1>2, <1>3, <2>2
  <2> QED BY <2>1, <2>2 DEF Peer
<1>5. y >= x - k - 1 BY <1>2, Nearly
<1>6. ASSUME b < Low PROVE y > 0
  <2>1. PICK u \in Nat, v \in Nat, w \in Nat :
           u = Slop /\ v = TestSlop /\ v > 0 /\ w = SyncTimeOut
    BY Pair DEF Waits
  <2>2. b # MIN_BAUD BY <1>1, <1>6
  <2>3. f = u + v + 2 * w + 2 * t BY <1>2, <2>1, <2>2 DEF FullTest
  <2>4. u > k /\ s > k BY <1>2, <2>1 DEF InTime
  <2>5. x >= s + u + v + 2 * w - k - 1 BY <1>2, <1>4, <2>1, <2>3
  <2> QED BY <1>2, <1>5, <2>1, <2>4, <2>5
<1>7. Room(p) >= Room("server") BY <1>2, <1>3 DEF Peer
<1> QED BY <1>2, <1>3, <1>4, <1>6, <1>7

\* The receiver gives up, the sender goes on or waits in vain.
LEMMA LeftBehind ==
    ASSUME Base, InTime, Strings, SamePoints, NEW p \in Peer,
           pc[p] \in {"string", "tak"}, pc[Other(p)] \in {"end", "check"}, wire'[p] = <<>>,
           Avoided(BaudCounter[p]), Ahead(p) >= Room(p) - StringTicks,
           Ahead(p) >= Room(p) - StringTicks - Spent(p) + timer[p], Fails(Other(p))
    PROVE  GivesUp(p)'
<1> DEFINE q == Other(p)
<1>0. /\ q \in Peer /\ q # p /\ Other(q) = p
      /\ wire \in [Peer -> Seq(Item)] /\ pc \in [Peer -> Place] /\ timer \in [Peer -> Nat]
      /\ BaudCounter \in [Peer -> Rate \cup {MIN_BAUD}] /\ BaudCounter[q] \in Nat
      /\ Low \in Nat
  BY Pair DEF Known, Waits
<1>1. /\ BaudCounter[p] = BaudCounter[q] /\ point[p] = point[q] /\ InStep /\ Slower(p)
      /\ BaudCounter["server"] = BaudCounter[p]
      /\ \A r \in Peer : pc[r] \notin {"drum", "lok", "ack"}
  BY Talk DEF Strings, SameSpeeds, SamePoints, Peer, Other
<1>2. pc[p] \in {"string", "tak"} /\ pc[q] \in {"end", "check"} OBVIOUS
<1>3. wire'[p] = <<>> OBVIOUS
<1>4. "byte" \in Carries(p) BY Talk DEF Strings
<1>5. ASSUME BaudCounter[p] < Low PROVE GivesUp(p)'
  <2>1. Fresh BY <1>0, <1>2 DEF Fresh, Peer, Other
  <2>2. Ahead(q) > 0 /\ Room(p) >= Room("server") BY <1>5, Margins
  <2>3. /\ pc'[q] = "point" /\ pc'[p] = pc[p] /\ timer'[p] = timer[p]
        /\ BaudCounter'[q] = BaudCounter[p] + 1 /\ BaudCounter'[p] = BaudCounter[p]
        /\ point'[q] = point[p] + AttemptTicks /\ point'[p] = point[p]
        /\ UNCHANGED <<clock, line, limit, turn>>
        /\ Ahead(q)' = timer'[q] + AttemptTicks /\ Ahead(p)' = Ahead(p)
        /\ InStep' /\ Fresh'
    BY <1>0, <1>1, <1>2, <1>5, <2>1, <2>2, Retries
  <2>4. Beyond(q, p)' BY <2>3 DEF Beyond
  <2>5. Slower(p)' /\ Avoided(BaudCounter[p])' /\ "byte" \in Carries(p)'
    BY <1>1, <1>4, <2>3 DEF Slower, Avoided, Spoilt, Usable, Carries
  <2>6. Ahead(p)' >= Room("server")' - StringTicks - Spent(p)' + timer'[p]
    <3>0. StringTicks \in Nat /\ Spent(p) \in Nat /\ Spent(p)' = Spent(p)
          /\ timer[p] \in Nat
      BY <1>0, <2>3, Pair DEF Waits, Spent
    <3>1. "server" \in Peer BY DEF Peer
    <3>2. PICK x \in Int, y \in Int, z \in Int :
             x = Ahead(p) /\ y = Room("server") /\ z = Room(p)
      BY <3>1, Whole
    <3>3. Room("server")' = y
      <4>1. PICK b \in Nat : b = BaudCounter[p] BY <1>0, <1>1
      <4>2. b # MIN_BAUD /\ b + 1 # MIN_BAUD BY <1>0, <1>5, <4>1 DEF MIN_BAUD
      <4>3. BaudCounter'["server"] = b \/ BaudCounter'["server"] = b + 1
        BY <2>3, <4>1 DEF Peer, Other
      <4>4. FullTest(b) = FullTest(b + 1) BY <4>2 DEF FullTest
      <4>5. FullTest(BaudCounter["server"])' = FullTest(b)
        <5>1. FullTest(BaudCounter["server"])' = FullTest(BaudCounter'["server"])
          BY DEF FullTest
        <5> QED BY <4>3, <4>4, <5>1
      <4>6. Room("server")' = SetTicks + FullTest(b) - (StringTicks + Skew + 1)
        BY <4>5 DEF Room
      <4>7. Room("server") = SetTicks + FullTest(b) - (StringTicks + Skew + 1)
        BY <1>1, <4>1 DEF Room
      <4> QED BY <3>2, <4>6, <4>7
    <3>4. x >= z - StringTicks - Spent(p) + timer[p] /\ z >= y BY <2>2, <3>2
    <3>5. x >= y - StringTicks - Spent(p) + timer[p] BY <3>0, <3>4
    <3> QED BY <2>3, <3>0, <3>2, <3>3, <3>5
  <2> QED BY <1>2, <1>3, <2>3, <2>4, <2>5, <2>6 DEF GivesUp
<1>6. CASE BaudCounter[p] < Low BY <1>5, <1>6
<1>7. CASE BaudCounter[p] >= Low
  <2>1. /\ pc' = [pc EXCEPT ![q] = "down"] /\ UNCHANGED <<line, limit>>
        /\ BaudCounter' = [BaudCounter EXCEPT ![q] = MIN_BAUD]
    BY <1>0, <1>1, <1>7 DEF Fails, Go
  <2>2. /\ pc'[p] = pc[p] /\ pc'[q] = "down" /\ BaudCounter'[p] = BaudCounter[p]
        /\ BaudCounter'[q] = MIN_BAUD
    BY <1>0, <1>2, <2>1
  <2>3. Slower(p)' /\ Avoided(BaudCounter[p])' /\ "byte" \in Carries(p)'
    BY <1>1, <1>4, <2>1, <2>2 DEF Slower, Avoided, Spoilt, Usable, Carries
  <2> QED BY <1>2, <1>3, <1>7, <2>2, <2>3 DEF GivesUp
<1> QED BY <1>0, <1>1, <1>6, <1>7

\* A string that is not carried is one at a speed that is not usable.
LEMMA Uncarried ==
    ASSUME Base, Strings, NEW p \in Peer, Other(p) \notin Carries(p)
    PROVE  Avoided(BaudCounter[p])
<1>1. \A x \in Peer : pc[x] \in {"point", "up"} \cup Testing BY DEF Strings
<1>2. Usable(BaudCounter[p]) <=> Carries(p) = {"byte"} \cup Peer
  BY <1>1, OneSpeed DEF Strings
<1> QED BY <1>2, Others DEF Avoided

\* The sender writes the string.
LEMMA WritesStep ==
    ASSUME Base, InTime, Strings, SamePoints, Calm, losses' = 0, NEW p \in Peer,
           p = "server" => "server" \in Carries("client"), Writes(p),
           Ahead(p) >= Room(p) - StringTicks + timer[p],
           NEW r \in Peer, SetSyncTime(r) \/ SetBaud(r) \/ Tick(r)
    PROVE  (Strings' /\ SamePoints' /\ Sends(p)') \/ GivesUp(p)'
<1> DEFINE q == Other(p)
<1>0. /\ q \in Peer /\ q # p /\ Other(q) = p /\ (r = p \/ r = q)
      /\ wire \in [Peer -> Seq(Item)] /\ pc \in [Peer -> Place] /\ timer \in [Peer -> Nat]
      /\ <<>> \in Seq(Item) /\ SyncTimeOut \in Nat /\ SyncTimeOut > 0
      /\ StringWait \in Nat /\ StringWait > 0 /\ timer[p] \in Nat /\ timer[q] \in Nat
      /\ StringTicks \in Nat /\ BaudCounter[p] = BaudCounter[q]
      /\ Ahead(p) \in Int /\ Room(p) \in Int
  BY Pair, Whole DEF Known, Waits, Strings, SameSpeeds, Peer, Other
<1>5. ASSUME pc[p] = "string", pc[q] \in {"end", "check"}, wire'[p] = <<>>, Fails(q),
             Avoided(BaudCounter[p])
      PROVE  GivesUp(p)'
  <2>1. Ahead(p) >= Room(p) - StringTicks BY <1>0
  <2>2. Ahead(p) >= Room(p) - StringTicks - Spent(p) + timer[p] BY <1>0, <1>5 DEF Spent
  <2> QED BY <1>5, <2>1, <2>2, LeftBehind
<1>1. \A x \in {"string", "check", "tak"} : x \in Testing BY DEF Testing, Loop
<1>2. CASE Both(p, "string", "end", <<>>, <<"END">>) /\ timer[p] > 0
  <2>1. /\ wire[q] # <<>> /\ Head(wire[q]) = "END" /\ Rest(q) = <<>>
        /\ \A d : Take(q, d) <=> d = "END"
    BY <1>0, <1>2, Listens DEF Both
  <2>2. ~Tick(r) BY <1>0, <1>2, <2>1, Busy DEF Both, Loop
  <2>3. r = q BY <1>0, <1>2, <2>2, Idle DEF Both, Resting
  <2>4. SyncEnds(q) \/ PendingError(q)
    <3>1. pc[q] = "end" /\ timer[q] > 0 BY <1>0, <1>2, Talk DEF Both, Loop
    <3>2. ~StringTooSoon(q) BY <2>1 DEF StringTooSoon
    <3>3. ~Answer(q) BY <2>1, <3>1 DEF Answer, Answers
    <3>4. ~Skip(q) BY <2>1, <3>1 DEF Skip, Awaited
    <3>5. ~LoopEnds(q) BY <2>1, <3>1 DEF LoopEnds
    <3> QED BY <1>0, <2>2, <2>3, <3>1, <3>2, <3>3, <3>4, <3>5, Steps
  <2>5. CASE PendingError(q)
    <3>1. /\ wire' = [wire EXCEPT ![q] = Rest(q)] /\ Fails(q) /\ flag[q]
          /\ pc[p] = "string" /\ pc[q] = "end" /\ wire[p] = <<>>
      BY <1>2, <2>1, <2>5 DEF PendingError, Drop, Cleared, Both
    <3>2. wire'[p] = <<>> BY <1>0, <3>1
    <3>3. Avoided(BaudCounter[p]) BY <1>0, <3>1 DEF Calm, Over
    <3> QED BY <1>5, <3>1, <3>2, <3>3
  <2>6. CASE ~PendingError(q)
    <3>1. wire' = [wire EXCEPT ![q] = <<>>] /\ Stays(q, "check", StringWait)
      BY <2>1, <2>4, <2>6 DEF SyncEnds, Consume, Drop, Moves, Stays
    <3>2. /\ Strings' /\ SamePoints' /\ pc'[p] = "string" /\ pc'[q] = "check"
          /\ timer'[p] = timer[p]
          /\ \A x \in Peer : Ahead(x)' = Ahead(x) /\ Room(x)' = Room(x) /\ Carries(x)' = Carries(x)
      BY <1>0, <1>1, <1>2, <3>1, Onward DEF Both
    <3>3. wire'[p] = <<>> /\ wire'[q] = <<>> BY <1>0, <1>2, <3>1 DEF Both
    <3>4. Both(p, "string", "check", <<>>, <<>>)' BY <3>2, <3>3 DEF Both
    <3>5. Writes(p)' BY <3>4 DEF Writes
    <3>6. Ahead(p)' >= Room(p)' - StringTicks + timer'[p] BY <3>2
    <3> QED BY <3>2, <3>5, <3>6 DEF Sends, Peer
  <2> QED BY <2>5, <2>6
<1>3. CASE Both(p, "string", "check", <<>>, <<>>) /\ ~Tick(r)
  <2>1. StringSent(p) \/ StringSpoilt(q)
    <3>1. CASE r = p BY <1>3, <3>1, Steps DEF Both
    <3>2. CASE r = q
      <4>1. pc[q] = "check" /\ wire[q] = <<>> /\ timer[q] > 0 BY <1>0, <1>3, Talk DEF Both, Once
      <4>2. ~Disappointed(q, "STRING") BY <4>1 DEF Disappointed
      <4>3. ~StringGood(q) BY <1>0, <4>1, Nothing DEF StringGood
      <4> QED BY <1>0, <1>3, <3>2, <4>1, <4>2, <4>3, Steps
    <3> QED BY <1>0, <3>1, <3>2
  <2>2. CASE StringSpoilt(q)
    <3>1. /\ Fails(q) /\ UNCHANGED wire /\ pc[p] = "string" /\ pc[q] = "check" /\ wire[p] = <<>>
      BY <1>3, <2>2 DEF StringSpoilt, Both
    <3>2. ~Carried(p, "STRING")
      <4>1. Connected(q) /\ Other(q) = p BY <1>0, Talk
      <4>2. losses \in Nat /\ losses' = 0 BY <1>0, Numbers DEF Base
      <4>3. ~(losses' = losses + 1) BY <4>2
      <4> QED BY <2>2, <4>1, <4>3 DEF StringSpoilt
    <3>3. q \notin Carries(p)
      <4>1. q \notin line[rate[p]] BY <3>2 DEF Carried
      <4>2. rate[p] = PortOf(BaudCounter[p]) BY Talk DEF Base, Tuned
      <4> QED BY <4>1, <4>2 DEF Carries
    <3>4. Avoided(BaudCounter[p]) BY <3>3, Uncarried
    <3> QED BY <1>5, <3>1, <3>4
  <2>3. CASE StringSent(p)
    <3>1. timer[p] = 0 /\ Send(p, <<>>, "STRING") /\ Stays(p, "tak", SyncTimeOut)
      BY <1>3, <2>3 DEF StringSent, Moves, Stays, Both
    <3>2. /\ wire'[p] = <<>>
          /\ wire'[q] = <<Intact(p, "STRING")>>
      <4>1. TypeOK /\ Connected(p) /\ pc[q] \notin {"away"} \cup Over BY <1>0, Talk
      <4>2. wire'[p] = <<>> /\ wire'[q] = wire[q] \o <<Intact(p, "STRING")>>
        BY <1>0, <3>1, <4>1, Delivered
      <4>3. <<>> \o <<Intact(p, "STRING")>> = <<Intact(p, "STRING")>> BY Tuples
      <4> QED BY <1>3, <4>2, <4>3 DEF Both
    <3>3. /\ Strings' /\ SamePoints' /\ pc'[p] = "tak" /\ pc'[q] = "check"
          /\ timer'[p] = SyncTimeOut
          /\ \A x \in Peer : Ahead(x)' = Ahead(x) /\ Room(x)' = Room(x) /\ Carries(x)' = Carries(x)
      BY <1>0, <1>1, <1>3, <3>1, Onward DEF Both
    <3>4. Intact(p, "STRING") = IF q \in Carries(p) THEN "STRING" ELSE "JUNK"
      <4>1. \A x \in Peer : pc[x] \in {"point", "up"} \cup Testing BY DEF Strings
      <4> QED BY <4>1, OneSpeed DEF Strings
    <3>5. Judged(p)'
      <4>1. CASE q \in Carries(p)
        <5>1. wire'[q] = <<"STRING">> /\ q \in Carries(p)' BY <3>2, <3>3, <3>4, <4>1
        <5> QED BY <3>2, <3>3, <5>1 DEF Judged, Both
      <4>2. CASE q \notin Carries(p)
        <5>1. wire'[q] = <<"JUNK">> /\ q \notin Carries(p)' BY <3>2, <3>3, <3>4, <4>2
        <5> QED BY <3>2, <3>3, <5>1 DEF Judged, Both
      <4> QED BY <4>1, <4>2
    <3>6. Ahead(p)' >= Room(p)' - StringTicks
      <4>1. PICK a \in Int, b \in Int : a = Ahead(p) /\ b = Room(p) BY Whole
      <4>2. a >= b - StringTicks BY <1>0, <3>1, <4>1
      <4> QED BY <3>3, <4>1, <4>2
    <3> QED BY <3>3, <3>5, <3>6 DEF Sends, Peer
  <2> QED BY <2>1, <2>2, <2>3
<1>4. CASE Both(p, "string", "check", <<>>, <<>>) /\ Tick(r)
  <2>1. UNCHANGED <<pc, pass, point, BaudCounter, rate, wire, line, limit, losses>>
    BY <1>4, Talk, Ticked
  <2>2. pc[p] = "string" /\ pc[q] = "check" BY <1>4 DEF Both
  <2>3. Connected(q) /\ TypeOK BY <1>0, Talk
  <2>4. timer'[q] = timer[q]
    <3>1. CASE r = p BY <1>4, <2>3, <3>1, Ticked
    <3>2. CASE r = q BY <1>0, <1>4, <2>2, <2>3, <3>2, Ticked
    <3> QED BY <1>0, <3>1, <3>2
  <2>5. SamePoints' /\ Room(p)' = Room(p) /\ Carries("client")' = Carries("client")
    BY <2>1 DEF SamePoints, Room, Carries, FullTest
  <2>6. \/ timer'[p] = timer[p] - 1 /\ Ahead(p)' = Ahead(p) - 1
        \/ timer'[p] = timer[p] /\ Ahead(p)' = Ahead(p)
    <3>1. CASE r = p BY <1>1, <1>4, <2>2, <3>1, OneTick
    <3>2. CASE r = q
      <4>1. timer'[p] = timer[p] /\ clock'[p] = clock[p] /\ point' = point
        BY <1>0, <1>4, <2>3, <3>2, Ticked
      <4> QED BY <4>1 DEF Ahead
    <3> QED BY <1>0, <3>1, <3>2
  <2>7. Ahead(p)' >= Room(p)' - StringTicks + timer'[p]
    <3>1. PICK a \in Int, b \in Int, t \in Nat : a = Ahead(p) /\ b = Room(p) /\ t = timer[p]
      BY <1>0, Whole
    <3>2. a >= b - StringTicks + t BY <3>1
    <3>3. a - 1 >= b - StringTicks + (t - 1) BY <1>0, <3>1, <3>2
    <3> QED BY <2>5, <2>6, <3>1, <3>2, <3>3
  <2>8. Strings'
    <3>1. \A x \in Peer : pc[x] \notin {"away", "hello"} \cup Over BY Talk DEF Testing, Loop, Over
    <3>2. InStep' BY <1>4, <2>3, <3>1, TicksInStep DEF Strings
    <3>3. Patient'
      <4>1. timer[q] > 0 BY <1>0, <2>2, Talk DEF Once
      <4> QED BY <1>0, <2>1, <2>2, <2>4, <4>1 DEF Patient, Once, Loop, Peer, Other
    <3> QED BY <2>1, <3>2, <3>3 DEF Strings, SameSpeeds, Carries, Slower, Avoided, Spoilt, Usable
  <2>9. Writes(p)' BY <1>4, <2>1 DEF Writes, Both
  <2> QED BY <2>5, <2>7, <2>8, <2>9 DEF Sends
<1> QED BY <1>2, <1>3, <1>4 DEF Writes

-----------------------------------------------------------------------------
(* SetBaud: a string is judged.                                            *)

\* The receiver looks at the string.
LEMMA JudgedStep ==
    ASSUME Base, InTime, Strings, SamePoints, losses' = 0, NEW p \in Peer,
           p = "server" => "server" \in Carries("client"), Judged(p),
           Ahead(p) >= Room(p) - StringTicks, timer[p] = SyncTimeOut,
           NEW r \in Peer, SetSyncTime(r) \/ SetBaud(r) \/ Tick(r)
    PROVE  (Strings' /\ SamePoints' /\ Sends(p)') \/ GivesUp(p)'
<1> DEFINE q == Other(p)
<1>0. /\ q \in Peer /\ q # p /\ Other(q) = p /\ (r = p \/ r = q)
      /\ wire \in [Peer -> Seq(Item)] /\ <<>> \in Seq(Item)
      /\ ReplyWait \in Nat /\ ReplyWait > 0
  BY Pair DEF Known, Waits
<1>1. pc[p] = "tak" /\ pc[q] = "check" /\ wire[p] = <<>> BY DEF Judged, Both
<1>2. PICK c \in {"STRING", "JUNK"} : wire[q] = <<c>> /\ (c = "STRING" <=> q \in Carries(p))
  <2>1. CASE q \in Carries(p)
    <3>1. wire[q] = <<"STRING">> BY <2>1 DEF Judged, Both
    <3> QED BY <2>1, <3>1
  <2>2. CASE q \notin Carries(p)
    <3>1. wire[q] = <<"JUNK">> BY <2>2 DEF Judged, Both
    <3> QED BY <2>2, <3>1
  <2> QED BY <2>1, <2>2
<1>3. /\ Head(wire[q]) = c /\ wire[q] # <<>> /\ (\A d : Take(q, d) <=> d = c)
      /\ c # "JUNK" => Rest(q) = <<>>
  BY <1>0, <1>2, Listens
<1>4. ~Tick(r) BY <1>0, <1>1, <1>3, Busy DEF Once
<1>5. r = q BY <1>0, <1>1, <1>4, Quiet DEF Loop
<1>6. StringGood(q) \/ (Disappointed(q, "STRING") /\ Fails(q))
  <2>1. ~StringSpoilt(q) BY <1>3 DEF StringSpoilt
  <2> QED BY <1>0, <1>1, <1>4, <1>5, <2>1, Steps
<1>7. CASE c = "STRING"
  <2>1. ~Disappointed(q, "STRING") BY <1>3, <1>7 DEF Disappointed
  <2>2. Send(q, <<>>, "TAK") /\ Stays(q, "ack-string", ReplyWait)
    BY <1>3, <1>6, <1>7, <2>1 DEF StringGood, Moves, Stays
  <2>3. wire'[q] = <<>> /\ wire'[p] = <<"TAK">> BY <1>0, <1>1, <2>2, Passed DEF Byte
  <2>4. "ack-string" \in Testing BY DEF Testing
  <2>5. /\ Strings' /\ SamePoints' /\ pc'[p] = "tak" /\ pc'[q] = "ack-string"
        /\ \A x \in Peer : Ahead(x)' = Ahead(x) /\ Room(x)' = Room(x) /\ Carries(x)' = Carries(x)
    BY <1>0, <1>1, <2>2, <2>4, Onward
  <2>6. Both(p, "tak", "ack-string", <<"TAK">>, <<>>)' BY <2>3, <2>5 DEF Both
  <2>7. Accepted(p)' BY <2>6 DEF Accepted
  <2>8. q \in Carries("client") BY <1>2, <1>7, Talk
  <2> QED BY <2>5, <2>7, <2>8 DEF Sends, Peer
<1>8. CASE c = "JUNK"
  <2>1. ~StringGood(q) BY <1>3, <1>8 DEF StringGood
  <2>2. Avoided(BaudCounter[p]) BY <1>2, <1>8, Uncarried
  <2>3. wire'[p] = <<>>
    <3>1. UNCHANGED wire \/ wire' = [wire EXCEPT ![q] = Rest(q)]
      BY <1>6, <2>1 DEF Disappointed, Drop
    <3> QED BY <1>0, <1>1, <3>1
  <2>4. Ahead(p) >= Room(p) - StringTicks - Spent(p) + timer[p]
    <3>1. PICK x \in Int, y \in Int, t \in Nat, u \in Nat :
             x = Ahead(p) /\ y = Room(p) /\ t = StringTicks /\ u = SyncTimeOut
      BY Whole, Pair DEF Waits
    <3>2. x >= y - t - u + u BY <3>1
    <3> QED BY <1>1, <3>1, <3>2 DEF Spent
  <2> QED BY <1>1, <1>6, <2>1, <2>2, <2>3, <2>4, LeftBehind
<1> QED BY <1>7, <1>8

\* Sender and receiver agree that the string is good.
LEMMA AcceptedStep ==
    ASSUME Base, InTime, Strings, SamePoints, losses' = 0, NEW p \in Peer,
           p = "server" => "server" \in Carries("client"), Accepted(p),
           Ahead(p) >= Room(p) - StringTicks, Other(p) \in Carries("client"),
           NEW r \in Peer, SetSyncTime(r) \/ SetBaud(r) \/ Tick(r)
    PROVE  \/ Strings' /\ SamePoints' /\ (Sends(p)' \/ Turns')
           \/ Settled'
<1> DEFINE q == Other(p)
<1>0. /\ q \in Peer /\ q # p /\ Other(q) = p /\ (r = p \/ r = q)
      /\ wire \in [Peer -> Seq(Item)] /\ <<>> \in Seq(Item) /\ pc \in [Peer -> Place]
      /\ ReplyWait \in Nat /\ ReplyWait > 0 /\ SyncTimeOut \in Nat /\ SyncTimeOut > 0
      /\ Other("client") = "server" /\ Other("server") = "client"
  BY Pair DEF Known, Waits, Other
<1>1. \A x \in {"tak-again", "sender"} : x \in Testing BY DEF Testing
<1>2. CASE Both(p, "tak", "ack-string", <<"TAK">>, <<>>)
  <2>1. /\ pc[p] = "tak" /\ pc[q] = "ack-string" /\ wire[q] = <<>>
        /\ wire[p] # <<>> /\ Head(wire[p]) = "TAK" /\ Rest(p) = <<>>
    BY <1>2, Listens DEF Both
  <2>2. ~Tick(r) BY <2>1, Busy DEF Loop
  <2>3. r = p BY <1>0, <2>1, <2>2, Quiet DEF Once
  <2>4. StringTaken(p)
    <3>1. timer[p] > 0 /\ timer[p] \in Nat BY <2>1, Talk DEF Loop
    <3>2. ~Skip(p) BY <2>1 DEF Skip, Awaited
    <3>3. ~LoopEnds(p) BY <3>1 DEF LoopEnds
    <3> QED BY <2>1, <2>2, <2>3, <3>2, <3>3, Steps
  <2>5. Send(p, <<>>, "ACK") /\ Stays(p, "tak-again", ReplyWait)
    BY <2>1, <2>4 DEF StringTaken, Moves, Stays
  <2>6. wire'[p] = <<>> /\ wire'[q] = <<"ACK">> BY <1>0, <2>1, <2>5, Passed DEF Byte
  <2>7. /\ Strings' /\ SamePoints' /\ pc'[p] = "tak-again" /\ pc'[q] = "ack-string"
        /\ \A x \in Peer : Ahead(x)' = Ahead(x) /\ Room(x)' = Room(x) /\ Carries(x)' = Carries(x)
    BY <1>0, <1>1, <2>1, <2>5, Onward
  <2>8. Both(p, "tak-again", "ack-string", <<>>, <<"ACK">>)' BY <2>6, <2>7 DEF Both
  <2>9. Accepted(p)' BY <2>8 DEF Accepted
  <2> QED BY <2>7, <2>9 DEF Sends, Peer
<1>3. CASE Both(p, "tak-again", "ack-string", <<>>, <<"ACK">>)
  <2>1. /\ pc[p] = "tak-again" /\ pc[q] = "ack-string" /\ wire[p] = <<>>
        /\ wire[q] # <<>> /\ Head(wire[q]) = "ACK" /\ Rest(q) = <<>>
    BY <1>0, <1>3, Listens DEF Both
  <2>2. ~Tick(r) BY <1>0, <2>1, Busy DEF Once
  <2>3. r = q BY <1>0, <2>1, <2>2, Quiet DEF Once
  <2>4. ReceiverDone(q)
    <3>1. ~Disappointed(q, "ACK") BY <2>1 DEF Disappointed
    <3> QED BY <1>0, <2>1, <2>2, <2>3, <3>1, Steps
  <2>5. /\ Send(q, <<>>, "TAK") /\ Done(q)
        /\ UNCHANGED <<clock, point, BaudCounter, rate, line, limit, turn>>
    BY <2>1, <2>4 DEF ReceiverDone
  <2>6. wire'[q] = <<>> /\ wire'[p] = <<"TAK">> BY <1>0, <2>1, <2>5, Passed DEF Byte
  <2>7. CASE p = "client"
    <3>1. q = "server" /\ pass[q] = 1
      <4>1. q = "server" BY <1>0, <2>7
      <4>2. pass["server"] = 1 BY <2>1, <4>1 DEF Base, Roles, Peer
      <4> QED BY <4>1, <4>2
    <3>2. Stays(q, "sender", SyncTimeOut) BY <2>5, <3>1 DEF Done, Role, Stays
    <3>3. /\ Strings' /\ SamePoints' /\ pc'[p] = "tak-again" /\ pc'[q] = "sender"
          /\ \A x \in Peer : /\ Ahead(x)' = Ahead(x) /\ Room(x)' = Room(x)
                             /\ Carries(x)' = Carries(x)
      BY <1>0, <1>1, <2>1, <3>2, Onward
    <3>4. Both("client", "tak-again", "sender", <<"TAK">>, <<>>)'
      BY <1>0, <2>6, <2>7, <3>1, <3>3 DEF Both
    <3>5. Ahead("server") >= Room("server")
      <4>1. BaudCounter["client"] = BaudCounter["server"] BY DEF Strings, SameSpeeds
      <4>2. PICK s \in Nat, t \in Nat, k \in Nat, f \in Nat, x \in Int, y \in Int :
               /\ s = SetTicks /\ t = StringTicks /\ k = Skew
               /\ f = FullTest(BaudCounter["client"])
               /\ x = Ahead("client") /\ y = Ahead("server")
        <5>1. SetTicks \in Nat /\ StringTicks \in Nat /\ Skew \in Nat BY Pair DEF Waits
        <5> QED BY <1>0, <2>7, <3>1, <5>1, Whole
      <4>3. Room("client") = s + f /\ Room("server") = s + f - t - k - 1
        BY <4>1, <4>2, Whole
      <4>4. x >= s + f - t BY <2>7, <4>2, <4>3
      <4>5. y >= x - k - 1 BY <1>0, <2>7, <4>2, Nearly
      <4>6. y >= s + f - t - k - 1 BY <4>2, <4>4, <4>5
      <4> QED BY <4>2, <4>3, <4>6
    <3>6. Turns'
      <4>1. Carries("client")' = Carries("client") /\ Ahead("server")' = Ahead("server")
            /\ Room("server")' = Room("server")
        BY <1>0, <2>7, <3>1, <3>3
      <4>2. "server" \in Carries("client") BY <1>0, <2>7
      <4> QED BY <3>4, <3>5, <4>1, <4>2 DEF Turns
    <3> QED BY <3>3, <3>6
  <2>8. CASE p = "server"
    <3>1. q = "client" /\ pass[q] = 2
      <4>1. q = "client" BY <1>0, <2>8
      <4>2. pass["client"] = 2 BY <2>1, <4>1 DEF Base, Roles, Peer
      <4> QED BY <4>1, <4>2
    <3>2. pc' = [pc EXCEPT !["client"] = "up"] BY <2>5, <3>1 DEF Done, Go
    <3>3. pc'["client"] = "up" /\ pc'["server"] = "tak-again"
      BY <1>0, <2>1, <2>8, <3>1, <3>2
    <3>4. SameSpeeds' /\ Slower("client")'
      BY <1>0, <2>5, <2>8, <3>1 DEF Strings, SameSpeeds, Slower, Avoided, Spoilt, Usable
    <3>5. Usable(BaudCounter["client"])'
      <4>1. Carries("client") = {"byte"} \cup Peer
        <5>1. Carries("client") \subseteq {"byte"} \cup Peer
          <6>1. rate["client"] \in Rate /\ rate["client"] = PortOf(BaudCounter["client"])
            <7>1. pc["client"] \in Testing BY <1>0, <2>8, <3>1, Talk
            <7> QED BY <1>0, <2>8, <3>1, <7>1 DEF Base, Tuned, TypeOK
          <6>2. line \in [Rate -> Quality] BY DEF Base, TypeOK
          <6> QED BY <6>1, <6>2 DEF Carries, Quality
        <5>2. "byte" \in Carries("client") BY DEF Strings
        <5> QED BY <2>8, <3>1, <5>1, <5>2 DEF Peer
      <4> QED BY <2>5, <4>1 DEF Carries, PortOf, Usable
    <3>6. (BaudCounter["client"] = MIN_BAUD => limit = MIN_BAUD)'
      <4>1. Tuned("client") /\ pc["client"] \notin Over
        BY <1>0, <2>1, <2>8, <3>1 DEF Base, Over
      <4> QED BY <2>5, <4>1 DEF Tuned
    <3>7. wire'["server"] = <<"TAK">> BY <2>6, <2>8
    <3> QED BY <3>3, <3>4, <3>5, <3>6, <3>7 DEF Settled
  <2> QED BY <2>7, <2>8 DEF Peer
<1> QED BY <1>2, <1>3 DEF Accepted

LEMMA SendsStep ==
    ASSUME Base, InTime, Strings, SamePoints, Calm, losses' = 0, NEW p \in Peer, Sends(p),
           NEW r \in Peer, SetSyncTime(r) \/ SetBaud(r) \/ Tick(r)
    PROVE  \/ Strings' /\ SamePoints' /\ (Sends(p)' \/ Turns')
           \/ GivesUp(p)' \/ Settled'
<1>0. p = "server" => "server" \in Carries("client") BY DEF Sends
<1>1. CASE Asks(p) /\ Ahead(p) >= Room(p) BY <1>0, <1>1, AsksStep
<1>2. CASE Writes(p) /\ Ahead(p) >= Room(p) - StringTicks + timer[p]
  BY <1>0, <1>2, WritesStep
<1>3. CASE /\ Judged(p) /\ Ahead(p) >= Room(p) - StringTicks /\ timer[p] = SyncTimeOut
  BY <1>0, <1>3, JudgedStep
<1>4. CASE /\ Accepted(p) /\ Ahead(p) >= Room(p) - StringTicks
           /\ Other(p) \in Carries("client")
  BY <1>0, <1>4, AcceptedStep
<1> QED BY <1>1, <1>2, <1>3, <1>4 DEF Sends

\* The string of the client is through, that of the server follows.
LEMMA TurnsStep ==
    ASSUME Base, Strings, SamePoints, losses' = 0, Turns,
           NEW r \in Peer, SetSyncTime(r) \/ SetBaud(r) \/ Tick(r)
    PROVE  Strings' /\ SamePoints' /\ (Sends("server")' \/ Turns')
<1>0. /\ "client" \in Peer /\ "server" \in Peer
      /\ Other("client") = "server" /\ Other("server") = "client"
      /\ (r = "client" \/ r = "server")
      /\ wire \in [Peer -> Seq(Item)] /\ <<>> \in Seq(Item) /\ pc \in [Peer -> Place]
      /\ SyncTimeOut \in Nat /\ SyncTimeOut > 0
  BY Pair DEF Known, Waits, Other, Peer
<1>1. \A x \in {"sync", "end"} : x \in Testing BY DEF Testing, Loop
<1>2. /\ pc["client"] = "tak-again" /\ pc["server"] \in {"sender", "sync"}
      /\ wire["client"] = <<"TAK">> \/ wire["client"] = <<"TAK", "SYNC">>
      /\ pc["server"] = "sender" => wire["client"] = <<"TAK">>
      /\ pc["server"] = "sync" => wire["client"] = <<"TAK", "SYNC">>
      /\ wire["server"] = <<>>
      /\ Ahead("server") >= Room("server") /\ "server" \in Carries("client")
  BY <1>0 DEF Turns, Both
<1>3. /\ Head(wire["client"]) = "TAK" /\ wire["client"] # <<>>
      /\ pc["server"] = "sender" => Rest("client") = <<>>
      /\ pc["server"] = "sync" => Rest("client") = <<"SYNC">>
  BY <1>0, <1>2, Listens, ListensTwice
<1>4. ~Tick(r) BY <1>0, <1>2, <1>3, Busy DEF Once
<1>5. CASE r = "client"
  <2>1. SenderDone("client")
    <3>1. ~Disappointed("client", "TAK") BY <1>3 DEF Disappointed
    <3> QED BY <1>2, <1>4, <1>5, <3>1, Steps
  <2>2. pass["client"] = 1 BY <1>0, <1>2 DEF Base, Roles
  <2>3. wire' = [wire EXCEPT !["client"] = Rest("client")] /\ Stays("client", "end", SyncTimeOut)
    BY <2>1, <2>2 DEF SenderDone, Consume, Drop, Done, Role, Stays
  <2>4. /\ Strings' /\ SamePoints' /\ pc'["client"] = "end" /\ pc'["server"] = pc["server"]
        /\ \A x \in Peer : Ahead(x)' = Ahead(x) /\ Room(x)' = Room(x) /\ Carries(x)' = Carries(x)
    BY <1>0, <1>1, <2>3, Onward
  <2>5. wire'["client"] = Rest("client") /\ wire'["server"] = <<>> BY <1>0, <1>2, <2>3
  <2>6. Asks("server")'
    <3>1. CASE pc["server"] = "sender"
      <4>1. Both("server", "sender", "end", <<>>, <<>>)'
        BY <1>0, <1>3, <2>4, <2>5, <3>1 DEF Both
      <4> QED BY <4>1 DEF Asks
    <3>2. CASE pc["server"] = "sync"
      <4>1. Both("server", "sync", "end", <<>>, <<"SYNC">>)'
        BY <1>0, <1>3, <2>4, <2>5, <3>2 DEF Both
      <4> QED BY <4>1 DEF Asks
    <3> QED BY <1>2, <3>1, <3>2
  <2>7. Ahead("server")' >= Room("server")' /\ "server" \in Carries("client")'
    BY <1>0, <1>2, <2>4
  <2> QED BY <2>4, <2>6, <2>7 DEF Sends
<1>6. CASE r = "server"
  <2>1. pc["server"] = "sender"
    <3>1. pc["server"] # "sync" BY <1>2, <1>4, <1>6, Quiet DEF Loop
    <3> QED BY <1>2, <3>1
  <2>2. SendSync("server") BY <1>4, <1>6, <2>1, Steps
  <2>3. PICK t \in Nat : t = SyncTimeOut + 1 /\ t > 0 BY <1>0
  <2>4. Send("server", <<>>, "SYNC") /\ Stays("server", "sync", t)
    BY <1>2, <2>2, <2>3 DEF SendSync, Moves, Stays
  <2>5. wire["client"] = <<"TAK">> BY <1>2, <2>1
  <2>6. wire'["server"] = <<>> /\ wire'["client"] = <<"TAK", "SYNC">>
    <3>1. "SYNC" \in Byte BY DEF Byte
    <3>2. /\ wire'["server"] = <<>>
          /\ \A d : wire[Other("server")] = <<d>> => wire'[Other("server")] = <<d, "SYNC">>
      BY <1>0, <2>4, <3>1, Passed
    <3> QED BY <1>0, <2>5, <3>2
  <2>7. /\ Strings' /\ SamePoints' /\ pc'["client"] = "tak-again" /\ pc'["server"] = "sync"
        /\ \A x \in Peer : Ahead(x)' = Ahead(x) /\ Room(x)' = Room(x) /\ Carries(x)' = Carries(x)
    BY <1>0, <1>1, <1>2, <2>3, <2>4, Onward
  <2>8. Both("client", "tak-again", "sync", <<"TAK", "SYNC">>, <<>>)'
    BY <1>0, <2>6, <2>7 DEF Both
  <2>9. Ahead("server")' >= Room("server")' /\ "server" \in Carries("client")'
    BY <1>0, <1>2, <2>7
  <2> QED BY <2>7, <2>8, <2>9 DEF Turns
<1> QED BY <1>0, <1>5, <1>6

\* Who has been given up has time left before the next attempt.
LEMMA StillTime ==
    ASSUME Base, InTime, NEW p \in Peer, Beyond(Other(p), p), BaudCounter[p] < Low,
           Ahead(p) >= Room("server") - StringTicks - Spent(p) + timer[p]
    PROVE  Ahead(p) > 0 /\ Ahead(p) - Skew - 1 > 0
<1> DEFINE b == BaudCounter["server"]
<1>1. b # MIN_BAUD
  <2>1. /\ BaudCounter[p] \in Nat /\ MIN_BAUD = Low + 1 /\ Low \in Nat
        /\ \A x \in Peer : x = p \/ x = Other(p)
    BY Pair DEF Known
  <2>2. BaudCounter[Other(p)] = BaudCounter[p] + 1 BY DEF Beyond
  <2>3. PICK c \in Nat : c = BaudCounter[p] BY <2>1
  <2>4. c # Low + 1 /\ c + 1 # Low + 1 BY <2>1, <2>3
  <2>5. b = c \/ b = c + 1 BY <2>1, <2>2, <2>3 DEF Peer
  <2> QED BY <2>1, <2>4, <2>5
<1>2. PICK s \in Nat, t \in Nat, k \in Nat, u \in Nat, v \in Nat, w \in Nat,
           x \in Int, z \in Nat, d \in Nat :
         /\ s = SetTicks /\ t = StringTicks /\ k = Skew /\ u = Slop /\ v = TestSlop /\ v > 0
         /\ w = SyncTimeOut /\ x = Ahead(p) /\ z = timer[p]
         /\ d = Spent(p) /\ d <= w
  <2>1. /\ SetTicks \in Nat /\ StringTicks \in Nat /\ Skew \in Nat /\ Slop \in Nat
        /\ TestSlop \in Nat /\ TestSlop > 0 /\ SyncTimeOut \in Nat /\ timer[p] \in Nat
    BY Pair DEF Known, Waits
  <2>2. Spent(p) \in Nat /\ Spent(p) <= SyncTimeOut BY <2>1 DEF Spent
  <2> QED BY <2>1, <2>2, Whole
<1>3. FullTest(b) = u + v + 2 * w + 2 * t BY <1>1, <1>2 DEF FullTest
<1>4. Room("server") = s + (u + v + 2 * w + 2 * t) - t - k - 1 BY <1>2, <1>3, Whole
<1>5. s > k /\ u > k BY <1>2 DEF InTime
<1>6. x >= (s + (u + v + 2 * w + 2 * t) - t - k - 1) - t - d + z BY <1>2, <1>4
<1>7. x > 0 /\ x - k - 1 > 0 BY <1>2, <1>5, <1>6
<1> QED BY <1>2, <1>7

\* The other side has gone on to the next speed, or there is none.
LEMMA GivesUpStep ==
    ASSUME Base, InTime, "byte" \in line[Low], NEW p \in Peer, GivesUp(p),
           NEW r \in Peer, SetSyncTime(r) \/ SetBaud(r) \/ Tick(r)
    PROVE  GivesUp(p)' \/ Trying' \/ Settled'
<1> DEFINE q == Other(p)
           b == BaudCounter[p]
<1>0. /\ q \in Peer /\ q # p /\ Other(q) = p /\ (r = p \/ r = q)
      /\ \A x \in Peer : x = p \/ x = q
      /\ wire \in [Peer -> Seq(Item)] /\ pc \in [Peer -> Place] /\ TypeOK
      /\ timer[p] \in Nat /\ timer[q] \in Nat /\ b \in Nat /\ limit \in Nat /\ Low \in Nat
      /\ b <= Low + 1 /\ MIN_BAUD = Low + 1
      /\ BaudCounter \in [Peer -> Rate \cup {MIN_BAUD}]
  BY Pair DEF Known, Waits
<1>1. /\ pc[p] \in {"string", "tak"} /\ wire[p] = <<>> /\ "byte" \in Carries(p)
      /\ Avoided(b) /\ Slower(p)
      /\ \/ /\ Beyond(q, p)
            /\ Ahead(p) >= Room("server") - StringTicks - Spent(p) + timer[p]
         \/ pc[q] = "down" /\ b >= Low /\ BaudCounter[q] = MIN_BAUD
  BY DEF GivesUp
<1>2. CASE Tick(r)
  <2>1. UNCHANGED <<pc, pass, point, BaudCounter, rate, wire, line, limit, losses>>
    BY <1>0, <1>2, Ticked
  <2>2. Avoided(b)' /\ Slower(p)' /\ "byte" \in Carries(p)'
    BY <1>1, <2>1 DEF Avoided, Spoilt, Usable, Slower, Carries
  <2>3. CASE pc[q] = "down" /\ b >= Low /\ BaudCounter[q] = MIN_BAUD
    BY <1>1, <2>1, <2>2, <2>3 DEF GivesUp
  <2>4. CASE /\ Beyond(q, p)
             /\ Ahead(p) >= Room("server") - StringTicks - Spent(p) + timer[p]
    <3>1. Beyond(q, p)' BY <1>1, <1>2, <2>4, BeyondTick
    <3>2. Room("server")' = Room("server") BY <2>1 DEF Room, FullTest
    <3>3. \/ timer'[p] = timer[p] - 1 /\ Ahead(p)' = Ahead(p) - 1
          \/ timer'[p] = timer[p] /\ Ahead(p)' = Ahead(p)
      <4>1. CASE r = p
        <5>1. pc[p] \in {"point"} \cup (Testing \ {"check"}) BY <1>1 DEF Loop, Testing
        <5>2. pc[p] # "check" BY <5>1
        <5> QED BY <1>0, <1>1, <1>2, <4>1, <5>1, <5>2, OneTick DEF Testing, Loop
      <4>2. CASE r = q
        <5>1. pc[q] = "point" BY <2>4 DEF Beyond
        <5> QED BY <1>0, <1>2, <4>2, <5>1, OneTick
      <4> QED BY <1>0, <4>1, <4>2
    <3>4. PICK x \in Int, y \in Int, t \in Nat, u \in Nat, v \in Nat :
             /\ x = Ahead(p) /\ y = Room("server") /\ t = timer[p]
             /\ u = StringTicks /\ v = Spent(p)
      <4>1. "server" \in Peer /\ StringTicks \in Nat /\ Spent(p) \in Nat
        BY Pair DEF Waits, Peer, Spent
      <4> QED BY <1>0, <4>1, Whole
    <3>5. x >= y - u - v + t /\ x - 1 >= y - u - v + (t - 1) BY <2>4, <3>4
    <3>6. Spent(p)' = Spent(p) BY <2>1 DEF Spent
    <3>7. Ahead(p)' >= Room("server")' - StringTicks - Spent(p)' + timer'[p]
      BY <3>2, <3>3, <3>4, <3>5, <3>6
    <3> QED BY <1>1, <2>1, <2>2, <3>1, <3>7 DEF GivesUp
  <2> QED BY <1>1, <2>3, <2>4
<1>3. CASE r = p /\ pc[p] = "tak" /\ ~Tick(r)
  <2>1. LoopEnds(p)
    <3>1. ~StringTaken(p) /\ ~Skip(p) BY <1>1 DEF StringTaken, Skip, Take
    <3> QED BY <1>3, <3>1, Steps
  <2>2. Fails(p) BY <2>1 DEF LoopEnds
  <2>3. CASE /\ Beyond(q, p) /\ b < Low
             /\ Ahead(p) >= Room("server") - StringTicks - Spent(p) + timer[p]
    <3>1. Ahead(p) > 0 BY <1>0, <2>3, StillTime
    <3> QED BY <1>1, <1>3, <2>2, <2>3, <3>1, CatchesUp
  <2>4. CASE Beyond(q, p) /\ b >= Low
    <3>1. BaudCounter[q] = b + 1 /\ BaudCounter[q] <= Low + 1 /\ pc[q] = "point"
      BY <1>0, <2>4, Pair DEF Beyond, Known
    <3>2. b = Low /\ BaudCounter[q] = MIN_BAUD BY <1>0, <2>4, <3>1
    <3>3. limit = MIN_BAUD BY <1>0, <3>1, <3>2 DEF Base, Tuned, Over
    <3>4. limit <= b BY DEF Base, Tuned
    <3> QED BY <1>0, <3>2, <3>3, <3>4
  <2>5. CASE pc[q] = "down" /\ b >= Low /\ BaudCounter[q] = MIN_BAUD
    <3>1. /\ pc' = [pc EXCEPT ![p] = "down"] /\ line' = line /\ limit' = limit
          /\ BaudCounter' = [BaudCounter EXCEPT ![p] = MIN_BAUD]
      BY <2>2, <2>5 DEF Fails, Go
    <3>2. \A x \in Peer : pc'[x] = "down" /\ BaudCounter'[x] = MIN_BAUD
      BY <1>0, <2>5, <3>1
    <3>3. NoneUsable
      <4>1. Tuned(p) /\ pc[p] \notin Over BY <1>1 DEF Base, Over
      <4>2. limit <= b /\ (b = MIN_BAUD => limit = MIN_BAUD) BY <4>1 DEF Tuned
      <4>3. \A c \in limit..Low : Avoided(c)
        <5> SUFFICES ASSUME NEW c \in limit..Low PROVE Avoided(c) OBVIOUS
        <5>1. CASE c = b BY <1>1, <5>1
        <5>2. CASE c # b
          <6>1. c \in limit..(b - 1) BY <1>0, <2>5, <5>2
          <6> QED BY <1>1, <6>1 DEF Slower
        <5> QED BY <5>1, <5>2
      <4>4. limit = MIN_BAUD => b = limit BY <1>0, <4>2
      <4> QED BY <1>1, <4>3, <4>4 DEF NoneUsable
    <3>4. NoneUsable' BY <3>1, <3>3 DEF NoneUsable, Avoided, Spoilt, Usable
    <3> QED BY <3>2, <3>4 DEF Settled, Peer
  <2> QED BY <1>0, <1>1, <2>3, <2>4, <2>5
<1>4. CASE r = p /\ pc[p] = "string" /\ ~Tick(r)
  <2>1. StringSent(p) BY <1>4, Steps
  <2>2. /\ timer[p] = 0 /\ Stays(p, "tak", SyncTimeOut)
        /\ SendWith(p, <<>>, "STRING", flag)
    BY <1>1, <2>1 DEF StringSent, Send, Moves, Stays
  <2>3. wire'[p] = <<>>
    <3>1. PICK h \in Heard(p, "STRING") :
             wire' = [wire EXCEPT ![p] = <<>>, ![q] = @ \o h.bytes]
      BY <2>2 DEF SendWith
    <3> QED BY <1>0, <3>1
  <2>4. /\ pc'[p] = "tak" /\ timer'[p] = SyncTimeOut /\ pc'[q] = pc[q] /\ timer'[q] = timer[q]
        /\ \A x \in Peer : /\ Ahead(x)' = Ahead(x) /\ Room(x)' = Room(x)
                           /\ Carries(x)' = Carries(x) /\ (Slower(x)' <=> Slower(x))
    BY <1>0, <2>2, Stayed
  <2>5. UNCHANGED <<clock, point, BaudCounter, line, limit, turn>> BY <2>2 DEF Stays
  <2>6. Avoided(b)' BY <1>1, <2>5 DEF Avoided, Spoilt, Usable
  <2>7. CASE pc[q] = "down" /\ b >= Low /\ BaudCounter[q] = MIN_BAUD
    BY <1>1, <2>3, <2>4, <2>5, <2>6, <2>7 DEF GivesUp
  <2>8. CASE /\ Beyond(q, p)
             /\ Ahead(p) >= Room("server") - StringTicks - Spent(p) + timer[p]
    <3>1. pc[q] = "point" /\ InStep /\ Fresh BY <2>8 DEF Beyond
    <3>2. \A x \in Peer : pc[x] \notin {"drum", "lok", "ack"} BY <1>0, <1>4, <3>1
    <3>3. SyncTimeOut \in Nat /\ SyncTimeOut > 0 /\ StringTicks \in Nat /\ "server" \in Peer
      BY Pair DEF Waits, Peer
    <3>4. InStep' /\ Fresh' BY <2>2, <3>1, <3>2, <3>3, StaysInStep
    <3>5. Beyond(q, p)' BY <1>0, <2>4, <2>5, <2>8, <3>4 DEF Beyond
    <3>6. PICK x \in Int, y \in Int : x = Ahead(p) /\ y = Room("server") BY <3>3, Whole
    <3>7. x >= y - StringTicks BY <1>4, <2>2, <2>8, <3>3, <3>6 DEF Spent
    <3>8. x >= y - StringTicks - SyncTimeOut + SyncTimeOut BY <3>3, <3>7
    <3>9. Spent(p)' = SyncTimeOut BY <2>4 DEF Spent
    <3>10. Ahead(p)' >= Room("server")' - StringTicks - Spent(p)' + timer'[p]
      BY <2>4, <3>3, <3>6, <3>8, <3>9
    <3> QED BY <1>1, <2>3, <2>4, <2>6, <3>5, <3>10 DEF GivesUp
  <2> QED BY <1>1, <2>7, <2>8
<1>5. CASE r = q /\ ~Tick(r)
  <2>1. CASE pc[q] = "down" BY <1>5, <2>1, Steps
  <2>2. CASE /\ Beyond(q, p)
             /\ Ahead(p) >= Room("server") - StringTicks - Spent(p) + timer[p]
    <3>1. pc[q] = "point" /\ BaudCounter[q] = b + 1 BY <2>2 DEF Beyond
    <3>2. b < Low
      <4>1. BaudCounter[q] <= Low + 1 /\ limit <= b BY <1>0, Pair DEF Known, Base, Tuned
      <4>2. BaudCounter[q] = MIN_BAUD => limit = MIN_BAUD
        BY <1>0, <3>1 DEF Base, Tuned, Over
      <4> QED BY <1>0, <3>1, <4>1, <4>2
    <3>3. timer[q] > 0
      <4>1. timer[q] >= Ahead(p) - Skew - 1 BY <1>1, <2>2, BeyondClocks
      <4>2. Ahead(p) - Skew - 1 > 0 BY <2>2, <3>2, <1>0, StillTime
      <4>3. PICK x \in Int, k \in Nat, t \in Nat : x = Ahead(p) /\ k = Skew /\ t = timer[q]
        BY <1>0, Whole, Pair DEF Waits
      <4>4. t >= x - k - 1 /\ x - k - 1 > 0 BY <4>1, <4>2, <4>3
      <4> QED BY <4>3, <4>4
    <3> QED BY <1>5, <3>1, <3>3, Idle, <1>0 DEF Resting
  <2> QED BY <1>1, <2>1, <2>2
<1> QED BY <1>0, <1>1, <1>2, <1>3, <1>4, <1>5

-----------------------------------------------------------------------------
(* The two stay abreast, and so find the best speed.                       *)

LEMMA SettledStep ==
    ASSUME Base, Settled, NEW p \in Peer, SetSyncTime(p) \/ SetBaud(p) \/ Tick(p)
    PROVE  Settled'
<1>0. /\ "client" \in Peer /\ "server" \in Peer
      /\ wire \in [Peer -> Seq(Item)] /\ pc \in [Peer -> Place]
      /\ \A x \in Peer : x = "client" \/ x = "server"
  BY DEF Base, TypeOK, Peer
<1>1. CASE \A x \in Peer : pc[x] \in Over
  <2>1. ~Tick(p) BY <1>1 DEF Tick
  <2>2. pc[p] \in Over /\ (SetSyncTime(p) \/ SetBaud(p)) BY <1>1, <2>1
  <2> QED BY <2>2, Steps DEF Over
<1>2. CASE /\ pc["client"] = "up" /\ SameSpeeds
           /\ Slower("client") /\ Usable(BaudCounter["client"])
           /\ (BaudCounter["client"] = MIN_BAUD => limit = MIN_BAUD)
           /\ pc["server"] = "tak-again" /\ wire["server"] = <<"TAK">>
  <2>1. Head(wire["server"]) = "TAK" /\ wire["server"] # <<>> BY <1>0, <1>2, Listens
  <2>2. ~Tick(p) BY <1>0, <1>2, <2>1, Busy DEF Once
  <2>3. p = "server" BY <1>0, <1>2, <2>2, Steps
  <2>4. SenderDone("server")
    <3>1. ~Disappointed("server", "TAK") BY <2>1 DEF Disappointed
    <3> QED BY <1>2, <2>2, <2>3, <3>1, Steps
  <2>5. pass["server"] = 2 BY <1>0, <1>2 DEF Base, Roles
  <2>6. /\ pc' = [pc EXCEPT !["server"] = "up"]
        /\ UNCHANGED <<BaudCounter, line, limit>>
    BY <2>4, <2>5 DEF SenderDone, Done, Go
  <2>7. pc'["client"] = "up" /\ pc'["server"] = "up" BY <1>0, <1>2, <2>6
  <2>8. SameSpeeds' /\ Slower("client")' /\ Usable(BaudCounter["client"])'
    BY <1>2, <2>6 DEF SameSpeeds, Slower, Avoided, Spoilt, Usable
  <2> QED BY <1>2, <2>6, <2>7, <2>8 DEF Settled
<1>3. \/ \A x \in Peer : pc[x] \in Over
      \/ pc["server"] = "tak-again" /\ wire["server"] = <<"TAK">> /\ pc["client"] = "up"
  BY <1>0 DEF Settled, Over
<1> QED BY <1>1, <1>2, <1>3 DEF Settled, Over

LEMMA StaysAbreast ==
    ASSUME Base, InTime, ClearsInput, Abreast, Calm, losses' = 0,
           NEW p \in Peer, SetSyncTime(p) \/ SetBaud(p) \/ Tick(p)
    PROVE  Abreast'
<1>0. line'[Low] = line[Low] /\ Other(p) \in Peer BY LineKept, Others
<1>1. CASE Greeting
  <2>1. Greeting' \/ ("byte" \in line'[Low] /\ Drummers(1)') BY <1>1, GreetingStep
  <2> QED BY <2>1 DEF Abreast
<1>2. ASSUME "byte" \in line[Low], NEW n \in {1, 2}, Drummers(n) PROVE Abreast'
  <2>1. Drummers(n)' \/ Between' \/ FirstPoint(p)' BY <1>2, DrummersStep
  <2> QED BY <1>0, <1>2, <2>1 DEF Abreast
<1>3. CASE "byte" \in line[Low] /\ Between
  <2>1. Between' \/ Drummers(2)' BY <1>3, BetweenStep
  <2> QED BY <1>0, <1>3, <2>1 DEF Abreast
<1>4. ASSUME "byte" \in line[Low], NEW q \in Peer, FirstPoint(q) PROVE Abreast'
  <2>1. FirstPoint(q)' \/ Trying' BY <1>4, FirstPointStep
  <2> QED BY <1>0, <1>4, <2>1 DEF Abreast
<1>5. CASE "byte" \in line[Low] /\ Trying
  <2>1. \/ Trying' \/ Deaf(Other(p))'
        \/ Strings' /\ HeardFirst(p)'
    BY <1>5, TryingStep
  <2> QED BY <1>0, <1>5, <2>1 DEF Abreast
<1>6. ASSUME "byte" \in line[Low], NEW q \in Peer, Deaf(q) PROVE Abreast'
  <2>1. Deaf(q)' \/ Trying' BY <1>6, DeafStep
  <2> QED BY <1>0, <1>6, <2>1 DEF Abreast
<1>7. ASSUME "byte" \in line[Low], Strings, NEW q \in Peer, HeardFirst(q) PROVE Abreast'
  <2>1. /\ Strings'
        /\ HeardFirst(q)' \/ (SamePoints' /\ Sends("client")')
    BY <1>7, HeardFirstStep
  <2>2. "client" \in Peer BY DEF Peer
  <2> QED BY <1>0, <1>7, <2>1, <2>2 DEF Abreast
<1>8. ASSUME "byte" \in line[Low], Strings, SamePoints, NEW q \in Peer, Sends(q)
      PROVE  Abreast'
  <2>1. \/ Strings' /\ SamePoints' /\ (Sends(q)' \/ Turns')
        \/ GivesUp(q)' \/ Settled'
    BY <1>8, SendsStep
  <2> QED BY <1>0, <1>8, <2>1 DEF Abreast
<1>9. CASE "byte" \in line[Low] /\ Strings /\ SamePoints /\ Turns
  <2>1. Strings' /\ SamePoints' /\ (Sends("server")' \/ Turns') BY <1>9, TurnsStep
  <2>2. "server" \in Peer BY DEF Peer
  <2> QED BY <1>0, <1>9, <2>1, <2>2 DEF Abreast
<1>10. ASSUME "byte" \in line[Low], NEW q \in Peer, GivesUp(q) PROVE Abreast'
  <2>1. GivesUp(q)' \/ Trying' \/ Settled' BY <1>10, GivesUpStep
  <2> QED BY <1>0, <1>10, <2>1 DEF Abreast
<1>11. CASE Settled BY <1>11, SettledStep DEF Abreast
<1> QED BY <1>1, <1>2, <1>3, <1>4, <1>5, <1>6, <1>7, <1>8, <1>9, <1>10, <1>11 DEF Abreast

LEMMA AbreastInit == Init => Abreast
<1> SUFFICES ASSUME Init PROVE Abreast OBVIOUS
<1>1. \A p \in {"client", "server"} : pc[p] = "away" /\ pass[p] = 1 /\ wire[p] = <<>>
  BY DEF Init, Peer
<1>2. Greeting BY <1>1 DEF Greeting, Passes
<1> QED BY <1>2 DEF Abreast

LEMMA AbreastStutters == ASSUME Abreast, UNCHANGED vars PROVE Abreast'
<1>1. UNCHANGED <<pc, pass, timer, clock, point, BaudCounter, rate, wire, line, limit, turn>>
  BY DEF vars, time
<1>2. /\ InStep => InStep'
      /\ Fresh => Fresh'
      /\ \A p, q : Beyond(p, q) => Beyond(p, q)'
  BY <1>1 DEF InStep, Now, Fresh, Beyond, Ahead
<1>3. \A p : /\ Ahead(p)' = Ahead(p) /\ Room(p)' = Room(p) /\ Carries(p)' = Carries(p)
             /\ Left(p)' = Left(p) /\ (Slower(p) => Slower(p)')
             /\ Spent(p)' = Spent(p)
             /\ \A b : (Usable(b)' <=> Usable(b)) /\ (Avoided(b)' <=> Avoided(b))
  BY <1>1 DEF Ahead, Room, FullTest, Carries, Left, Spent, Slower, Avoided, Spoilt, Usable
<1>4. (SameSpeeds => SameSpeeds') /\ (SamePoints => SamePoints') /\ (Patient => Patient')
  BY <1>1 DEF SameSpeeds, SamePoints, Patient
<1>5. Strings => Strings' BY <1>1, <1>2, <1>3, <1>4 DEF Strings
<1>6. Greeting => Greeting' BY <1>1 DEF Greeting, Passes
<1>7. \A n : Drummers(n) => Drummers(n)' BY <1>1, <1>2 DEF Drummers, Passes, Both
<1>8. Between => Between' BY <1>1, <1>2 DEF Between, Passes, Both
<1>9. \A p : FirstPoint(p) => FirstPoint(p)' BY <1>1, <1>2 DEF FirstPoint
<1>10. \A p : Approaches(p) => Approaches(p)' BY <1>1, <1>3 DEF Approaches
<1>11. Trying => Trying' BY <1>2, <1>3, <1>4, <1>10 DEF Trying
<1>12. \A p : Deaf(p) => Deaf(p)' BY <1>1, <1>2, <1>3 DEF Deaf
<1>13. \A p : HeardFirst(p) => HeardFirst(p)'
  BY <1>1, <1>3 DEF HeardFirst, FullTest, Both
<1>14. \A p : Sends(p) => Sends(p)'
  BY <1>1, <1>3 DEF Sends, Asks, Writes, Judged, Accepted, Both
<1>15. Turns => Turns' BY <1>1, <1>3 DEF Turns, Both
<1>16. \A p : GivesUp(p) => GivesUp(p)' BY <1>1, <1>2, <1>3 DEF GivesUp
<1>17. Settled => Settled'
  BY <1>1, <1>3, <1>4 DEF Settled, NoneUsable
<1>18. CASE Greeting \/ Settled BY <1>6, <1>17, <1>18 DEF Abreast
<1>19. ASSUME "byte" \in line[Low], NEW n \in {1, 2}, Drummers(n) PROVE Abreast'
  <2>1. Drummers(n)' BY <1>7, <1>19
  <2> QED BY <1>1, <1>19, <2>1 DEF Abreast
<1>20. CASE "byte" \in line[Low] /\ (Between \/ Trying)
  BY <1>1, <1>8, <1>11, <1>20 DEF Abreast
<1>21. ASSUME "byte" \in line[Low], NEW p \in Peer, FirstPoint(p) \/ Deaf(p) \/ GivesUp(p)
       PROVE  Abreast'
  <2>1. FirstPoint(p)' \/ Deaf(p)' \/ GivesUp(p)' BY <1>9, <1>12, <1>16, <1>21
  <2> QED BY <1>1, <1>21, <2>1 DEF Abreast
<1>22. ASSUME "byte" \in line[Low], Strings, NEW p \in Peer, HeardFirst(p) PROVE Abreast'
  <2>1. Strings' /\ HeardFirst(p)' BY <1>5, <1>13, <1>22
  <2> QED BY <1>1, <1>22, <2>1 DEF Abreast
<1>23. ASSUME "byte" \in line[Low], Strings, SamePoints, NEW p \in Peer, Sends(p)
       PROVE  Abreast'
  <2>1. Strings' /\ SamePoints' /\ Sends(p)' BY <1>4, <1>5, <1>14, <1>23
  <2> QED BY <1>1, <1>23, <2>1 DEF Abreast
<1>24. CASE "byte" \in line[Low] /\ Strings /\ SamePoints /\ Turns
  BY <1>1, <1>4, <1>5, <1>15, <1>24 DEF Abreast
<1> QED BY <1>18, <1>19, <1>20, <1>21, <1>22, <1>23, <1>24 DEF Abreast

\* Two that stay abreast and have come to an end have found the best speed.
LEMMA AbreastFinds ==
    ASSUME Base, losses = 0, Abreast
    PROVE  BestSpeed
<1> SUFFICES ASSUME \A p \in Peer : pc[p] \in Over PROVE BestSpeed BY DEF BestSpeed
<1> DEFINE best == BaudCounter["client"]
<1>0. /\ "client" \in Peer /\ "server" \in Peer /\ limit \in Nat /\ best \in Nat
      /\ MIN_BAUD = Low + 1 /\ Low \in Nat /\ best <= Low + 1
      /\ \A p \in Peer : pc[p] \in {"up", "down"} /\ Other(p) \in Peer
  BY Pair, Others DEF Known, Peer, Over
<1>1. Settled
  <2>1. ~Greeting BY <1>0 DEF Greeting
  <2>2. ~Between /\ ~Turns /\ \A n \in {1, 2} : ~Drummers(n)
    BY <1>0 DEF Between, Turns, Drummers, Both
  <2>3. ~Trying BY <1>0 DEF Trying, Approaches
  <2>4. ~Strings BY <1>0 DEF Strings, Testing, Loop
  <2>5. \A p \in Peer : ~FirstPoint(p) /\ ~Deaf(p) /\ ~GivesUp(p)
    BY <1>0 DEF FirstPoint, Deaf, GivesUp
  <2> QED BY <2>1, <2>2, <2>3, <2>4, <2>5 DEF Abreast
<1>2. CASE pc["client"] = "up"
  <2>1. /\ SameSpeeds /\ Slower("client") /\ Usable(best) /\ (best = MIN_BAUD => limit = MIN_BAUD)
        /\ pc["server"] = "up"
    BY <1>0, <1>1, <1>2 DEF Settled
  <2>2. limit <= best BY <1>0 DEF Base, Tuned
  <2>3. best \in UsableFrom BY <1>0, <2>1, <2>2 DEF UsableFrom
  <2>4. ASSUME NEW h \in UsableFrom, h < best PROVE Spoilt(h)
    <3>1. h \in Int /\ limit <= h /\ Usable(h) BY <1>0 DEF UsableFrom
    <3>2. h \in limit..(best - 1) BY <1>0, <2>4, <3>1
    <3> QED BY <2>1, <3>1, <3>2 DEF Slower, Avoided
  <2>5. Settle(best) BY <1>2, <2>1 DEF SameSpeeds, Settle, Peer
  <2> HIDE DEF best
  <2> QED BY <2>3, <2>4, <2>5 DEF BestSpeed
<1>3. CASE pc["client"] # "up"
  <2>1. NoneUsable /\ \A p \in Peer : pc[p] = "down"
    BY <1>1, <1>3 DEF Settled, Peer
  <2>2. ASSUME NEW h \in UsableFrom PROVE Spoilt(h)
    <3>1. h \in Int /\ limit <= h /\ h <= Low + 1 /\ Usable(h)
          /\ (h = Low + 1 => limit = MIN_BAUD /\ h = limit)
      BY <1>0 DEF UsableFrom
    <3>2. CASE h = Low + 1 BY <2>1, <3>1, <3>2 DEF NoneUsable, Avoided
    <3>3. CASE h # Low + 1
      <4>1. h \in limit..Low BY <1>0, <3>1, <3>3
      <4> QED BY <2>1, <3>1, <4>1 DEF NoneUsable, Avoided
    <3> QED BY <3>2, <3>3
  <2> QED BY <2>1, <2>2 DEF BestSpeed
<1> QED BY <1>2, <1>3

LEMMA SpoiltNext ==
    ASSUME NEW b \in Nat, limit \in Nat, FlagsErrors
    PROVE  /\ Spoilt(b) => Spoilt(b + 1)
           /\ limit <= b /\ "byte" \in line[b] /\ ~Usable(b) => Spoilt(b + 1)
<1> DEFINE Bad(c) == \E h \in limit..c : "byte" \in line[h] /\ ~Usable(h)
<1>1. Bad(b - 1) => Bad(b)
  <2>1. \A h \in limit..(b - 1) : h \in limit..b OBVIOUS
  <2> QED BY <2>1
<1>2. limit <= b /\ "byte" \in line[b] /\ ~Usable(b) => Bad(b)
  <2>1. limit <= b => b \in limit..b OBVIOUS
  <2> QED BY <2>1
<1>3. (b + 1) - 1 = b OBVIOUS
<1>4. (Spoilt(b) <=> Bad(b - 1)) /\ (Spoilt(b + 1) <=> Bad((b + 1) - 1)) BY DEF Spoilt
<1> HIDE DEF Bad
<1> QED BY <1>1, <1>2, <1>3, <1>4

\* Nobody takes bytes of the other side for errors but where the line spoils strings,
\* or where a string has just been cut off.
LEMMA Mistaken ==
    ASSUME Base, Abreast, FlagsErrors, NEW p \in Peer,
           pc[Other(p)] \notin {"away", "hello", "lok", "ack", "drum"} \cup Over,
           pc[p] \notin {"point", "hi", "tak-again"} \cup Over,
           pc[p] = "tak" => wire[p] # <<>>, pc[p] = "drum" => pass[p] = 1,
           ~Connected(p) \/ ~Carried(p, "STRING")
    PROVE  Avoided(BaudCounter[Other(p)])
<1> DEFINE q == Other(p)
           b == BaudCounter[p]
<1>0. /\ q \in Peer /\ q # p /\ Other(q) = p /\ \A x \in Peer : x = p \/ x = q
      /\ b \in Nat /\ BaudCounter[q] \in Nat /\ BaudCounter[q] <= Low + 1
      /\ limit \in Nat /\ Low \in Nat /\ MIN_BAUD = Low + 1
  BY Pair DEF Known
<1>1. ASSUME SameSpeeds, \A x \in Peer : pc[x] \in {"point", "up"} \cup Testing
      PROVE  Avoided(BaudCounter[q])
  <2>1. BaudCounter[q] = BaudCounter[p] BY <1>1 DEF SameSpeeds, Peer, Other
  <2>2. /\ Connected(p) <=> "byte" \in Carries(p)
        /\ Intact(p, "STRING") = IF q \in Carries(p) THEN "STRING" ELSE "JUNK"
        /\ Usable(b) <=> Carries(p) = {"byte"} \cup Peer
    BY <1>1, OneSpeed
  <2>3. "byte" \notin Carries(p) \/ q \notin Carries(p) BY <2>2 DEF Intact
  <2>4. ~Usable(b) BY <1>0, <2>2, <2>3
  <2> QED BY <2>1, <2>4 DEF Avoided
<1>2. CASE Greeting \/ Between \/ \E n \in {1, 2} : Drummers(n)
  <2>1. pc[q] \in {"away", "hello", "lok", "ack", "drum"}
    BY <1>0, <1>2 DEF Greeting, Between, Drummers, Both, Peer, Other
  <2> QED BY <2>1
<1>3. ASSUME NEW x \in Peer, FirstPoint(x) \/ Deaf(x) PROVE FALSE
  BY <1>0, <1>3 DEF FirstPoint, Deaf, Beyond
<1>4. CASE Trying
  <2>1. \A x \in Peer : pc[x] \in {"point", "up"} \cup Testing
    BY <1>4 DEF Trying, Approaches, Testing
  <2> QED BY <1>1, <1>4, <2>1 DEF Trying
<1>5. CASE Strings BY <1>1, <1>5 DEF Strings
<1>6. ASSUME NEW x \in Peer, GivesUp(x) PROVE Avoided(BaudCounter[q])
  <2>1. x = p /\ pc[p] = "string" /\ Beyond(q, p)
    BY <1>0, <1>6 DEF GivesUp, Beyond, Over
  <2>2. Avoided(b) /\ "byte" \in Carries(p) BY <1>6, <2>1 DEF GivesUp
  <2>3. BaudCounter[q] = b + 1 /\ limit <= b BY <2>1 DEF Beyond, Base, Tuned
  <2>4. b <= Low /\ PortOf(b) = b BY <1>0, <2>3 DEF PortOf
  <2>5. Spoilt(b + 1)
    <3>1. CASE Usable(b) BY <1>0, <2>2, <3>1, SpoiltNext DEF Avoided
    <3>2. CASE ~Usable(b)
      <4>1. "byte" \in line[b] BY <2>2, <2>4 DEF Carries
      <4> QED BY <1>0, <2>3, <3>2, <4>1, SpoiltNext
    <3> QED BY <3>1, <3>2
  <2> QED BY <2>3, <2>5 DEF Avoided
<1>7. ~Settled BY <1>0 DEF Settled, Over, Peer
<1> QED BY <1>2, <1>3, <1>4, <1>5, <1>6, <1>7 DEF Abreast

\* What p sends leaves no error but such a one in the other port.
LEMMA Alarms ==
    ASSUME Base, Abreast, losses' = 0, NEW p \in Peer, NEW rest, NEW c,
           NEW e \in [Peer -> BOOLEAN], SendWith(p, rest, c, e),
           pc[p] \notin {"point", "hi", "tak-again"} \cup Over,
           pc[p] = "tak" => wire[p] # <<>>, pc[p] = "drum" => pass[p] = 1
    PROVE  /\ flag'[p] = e[p]
           /\ flag'[Other(p)] =>
                 \/ e[Other(p)] \/ pc[Other(p)] \in Over
                 \/ Avoided(BaudCounter[Other(p)])
<1> DEFINE q == Other(p)
<1>1. q \in Peer /\ q # p /\ losses \in Nat BY Numbers DEF Base
<1>2. PICK h \in Heard(p, c) :
        losses' = losses + h.lost /\ flag' = [e EXCEPT ![q] = @ \/ h.error]
  BY DEF SendWith
<1>3. h.lost # 1 BY <1>1, <1>2
<1>4. ASSUME h.error, pc[q] \notin Over PROVE Avoided(BaudCounter[q])
  <2>1. /\ FlagsErrors /\ pc[q] \notin {"away", "hello", "lok", "ack", "drum"}
        /\ ~Connected(p) \/ ~Carried(p, c)
    BY <1>2, <1>3, <1>4, Hears
  <2>2. ~Carried(p, c) => ~Carried(p, "STRING") BY DEF Carried
  <2> QED BY <1>4, <2>1, <2>2, Mistaken
<1>5. flag'[p] = e[p] /\ flag'[q] = (e[q] \/ h.error) BY <1>1, <1>2
<1> QED BY <1>4, <1>5

LEMMA CalmKept ==
    ASSUME Base, Abreast, Calm, losses' = 0,
           NEW p \in Peer, SetSyncTime(p) \/ SetBaud(p) \/ Tick(p)
    PROVE  Calm'
<1> DEFINE q == Other(p)
           Still == pc'[q] = pc[q] /\ BaudCounter'[q] = BaudCounter[q]
           May == /\ pc[p] \notin {"point", "hi", "tak-again"} \cup Over
                  /\ pc[p] = "tak" => wire[p] # <<>>
                  /\ pc[p] = "drum" => pass[p] = 1
           Set == flag'[q] => flag[q] \/ pc[q] \in Over \/ Avoided(BaudCounter[q])
<1>0. /\ q \in Peer /\ q # p /\ \A x \in Peer : x = p \/ x = q
      /\ pc \in [Peer -> Place] /\ BaudCounter \in [Peer -> Rate \cup {MIN_BAUD}]
      /\ flag \in [Peer -> BOOLEAN] /\ line' = line /\ limit' = limit
  BY Pair, LineKept DEF Known, TypeOK
<1>1. \A b : Avoided(b)' <=> Avoided(b) BY <1>0 DEF Avoided, Spoilt, Usable
<1>2. ASSUME Still, Set,
             flag'[p] => flag[p] /\ pc[p] \notin Over /\ BaudCounter'[p] = BaudCounter[p]
      PROVE  Calm'
  <2>1. flag'[p] => Avoided(BaudCounter'[p]) BY <1>0, <1>2 DEF Calm
  <2>2. flag'[q] /\ pc'[q] \notin Over => Avoided(BaudCounter'[q]) BY <1>0, <1>2 DEF Calm
  <2> QED BY <1>0, <1>1, <2>1, <2>2 DEF Calm
<1>3. ASSUME pc[p] \notin Over, Still, flag' = flag, BaudCounter' = BaudCounter PROVE Calm'
  BY <1>2, <1>3
<1>4. ASSUME NEW rest, NEW c, Send(p, rest, c), May, Still, BaudCounter' = BaudCounter
      PROVE  Calm'
  <2>1. flag'[p] = flag[p] /\ Set
    <3>1. PICK e \in [Peer -> BOOLEAN] : e = flag BY <1>0
    <3>2. SendWith(p, rest, c, e) BY <1>4, <3>1 DEF Send
    <3> QED BY <1>4, <3>1, <3>2, Alarms
  <2> QED BY <1>2, <1>4, <2>1
<1>5. ASSUME flag' = Cleared(p), Still PROVE Calm'
  <2>1. flag'[p] = FALSE /\ flag'[q] = flag[q] BY <1>0, <1>5 DEF Cleared
  <2> QED BY <1>2, <1>5, <2>1
<1>6. /\ \A w, t : Moves(p, w, t) => Still /\ BaudCounter' = BaudCounter
      /\ \A w, t : Go(p, w, t) => pc'[q] = pc[q]
      /\ Done(p) => pc'[q] = pc[q]
  BY <1>0 DEF Moves, Go, Done
<1>7. Fails(p) => Still BY <1>0 DEF Fails, Attempt, Go
<1> HIDE DEF Still, May, Set
<1>8. CASE Begin(p)
  <2>1. Still /\ pc[p] \notin Over /\ flag' = flag /\ BaudCounter' = BaudCounter
    BY <1>6, <1>8 DEF Still, Begin, Over
  <2> QED BY <1>3, <2>1
<1>9. CASE NoDrummer(p)
  <2>1. Still /\ pc[p] \notin Over /\ flag' = flag /\ BaudCounter' = BaudCounter
    BY <1>6, <1>9 DEF Still, NoDrummer, Over
  <2> QED BY <1>3, <2>1
<1>10. CASE SecondDrummer(p)
  <2>1. pc[p] = "drum" /\ pass[p] = 1 /\ BaudCounter' = BaudCounter
    BY <1>10 DEF SecondDrummer
  <2>2. Still /\ May BY <1>6, <1>10, <2>1 DEF Still, May, SecondDrummer, Over
  <2>3. flag' = flag \/ Send(p, wire[p], "LOK") BY <1>10 DEF SecondDrummer
  <2> QED BY <1>3, <1>4, <2>1, <2>2, <2>3 DEF May
<1>11. CASE p = "client" /\ (ClientHello \/ ClientLok)
  <2>1. May BY <1>11 DEF ClientHello, ClientLok, May, Over
  <2>2. \E w, t : Moves(p, w, t) BY <1>11 DEF ClientHello, ClientLok, Drum
  <2>3. Still /\ BaudCounter' = BaudCounter BY <1>6, <2>2
  <2>4. Send(p, wire[p], "HI") \/ Send(p, Rest(p), "ACK")
    BY <1>11 DEF ClientHello, ClientLok
  <2> QED BY <1>4, <2>1, <2>3, <2>4
<1>12. CASE p = "server" /\ (ServerHello \/ ServerNoHello \/ ServerAck)
  <2>1. May /\ pc[p] \notin Over
    BY <1>12 DEF ServerHello, ServerNoHello, ServerAck, May, Over
  <2>2. \E w, t : Moves(p, w, t) BY <1>12 DEF ServerHello, ServerNoHello, ServerAck, Drum
  <2>3. Still /\ BaudCounter' = BaudCounter BY <1>6, <2>2
  <2>4. Send(p, Rest(p), "LOK") \/ flag' = flag
    BY <1>12 DEF ServerHello, ServerNoHello, ServerAck, Consume
  <2> QED BY <1>3, <1>4, <2>1, <2>3, <2>4
<1>13. CASE FirstAttempt(p)
  <2>1. Still BY <1>0, <1>13 DEF Still, FirstAttempt, Attempt, Go
  <2> QED BY <1>5, <1>13, <2>1 DEF FirstAttempt
<1>14. CASE AtPoint(p) \/ HearHi(p) \/ SenderDone(p) \/ SyncEnds(p)
  <2>1. Still /\ BaudCounter' = BaudCounter
    BY <1>6, <1>14 DEF Still, AtPoint, HearHi, SenderDone, SyncEnds
  <2>2. pc[p] \notin Over /\ flag' = flag
    BY <1>14 DEF AtPoint, HearHi, SenderDone, SyncEnds, Consume, Over
  <2> QED BY <1>3, <2>1, <2>2
<1>15. CASE SayHi(p) \/ SendSync(p) \/ SyncAcked(p) \/ StringSent(p)
  <2>1. May BY <1>15 DEF SayHi, SendSync, SyncAcked, StringSent, May, Over
  <2>2. \E w, t : Moves(p, w, t) BY <1>15 DEF SayHi, SendSync, SyncAcked, StringSent
  <2>3. \E rest, c : Send(p, rest, c) BY <1>15 DEF SayHi, SendSync, SyncAcked, StringSent
  <2> QED BY <1>4, <1>6, <2>1, <2>2, <2>3
<1>16. CASE StringTaken(p) \/ StringTooSoon(p) \/ StringGood(p)
  <2>1. May BY <1>16 DEF StringTaken, StringTooSoon, StringGood, Take, May, Over
  <2>2. \E w, t : Moves(p, w, t) BY <1>16 DEF StringTaken, StringTooSoon, StringGood
  <2>3. \E rest, c : Send(p, rest, c) BY <1>16 DEF StringTaken, StringTooSoon, StringGood
  <2> QED BY <1>4, <1>6, <2>1, <2>2, <2>3
<1>17. CASE ReceiverDone(p)
  <2>1. May BY <1>17 DEF ReceiverDone, May, Over
  <2>2. Still /\ BaudCounter' = BaudCounter BY <1>6, <1>17 DEF Still, ReceiverDone
  <2> QED BY <1>4, <1>17, <2>1, <2>2 DEF ReceiverDone
<1>18. CASE PendingError(p)
  <2>1. Still BY <1>7, <1>18 DEF PendingError
  <2>2. CASE flag' = Cleared(p) BY <1>5, <2>1, <2>2
  <2>3. ASSUME NEW rest, SendWith(p, rest, "ACK", Cleared(p)) PROVE Calm'
    <3>1. May BY <1>18 DEF PendingError, May, Over
    <3>2. PICK e \in [Peer -> BOOLEAN] : e = Cleared(p) BY <1>0 DEF Cleared
    <3>3. SendWith(p, rest, "ACK", e) BY <2>3, <3>2 DEF SendWith
    <3>4. e[p] = FALSE /\ e[q] = flag[q] BY <1>0, <3>2 DEF Cleared
    <3>5. flag'[p] = e[p] /\ (flag'[q] => e[q] \/ pc[q] \in Over \/ Avoided(BaudCounter[q]))
      BY <3>1, <3>3, Alarms DEF May
    <3> QED BY <1>2, <2>1, <3>4, <3>5 DEF Set
  <2> QED BY <1>18, <2>2, <2>3 DEF PendingError
<1>19. CASE StringSpoilt(p) BY <1>5, <1>7, <1>19 DEF StringSpoilt
<1>20. CASE Answer(p)
  <2>1. May BY <1>20 DEF Answer, May, Over
  <2>2. Still /\ BaudCounter' = BaudCounter BY <1>20 DEF Still, Answer
  <2>3. \E rest, c : Send(p, rest, c) BY <1>20 DEF Answer
  <2> QED BY <1>4, <2>1, <2>2, <2>3
<1>21. CASE Skip(p) \/ Tick(p)
  <2>1. pc' = pc /\ BaudCounter' = BaudCounter /\ flag' = flag
    BY <1>21 DEF Skip, Tick, Consume
  <2> QED BY <1>1, <2>1 DEF Calm
<1>22. CASE LoopEnds(p) \/ OnceEnds(p)
  BY <1>5, <1>7, <1>22 DEF LoopEnds, OnceEnds
<1> QED
  BY <1>8, <1>9, <1>10, <1>11, <1>12, <1>13, <1>14, <1>15, <1>16, <1>17, <1>18, <1>19,
     <1>20, <1>21, <1>22
  DEF SetSyncTime, SetBaud, SetBaudSender, SetBaudReceiver

\* The inductive invariant: while no byte has been lost the two are abreast, and an
\* error is pending only where they may fail anyway.
Best == IInv /\ (losses = 0 => Abreast /\ Calm)

LEMMA BestInit == Init => Best
<1>1. Init => Calm BY DEF Init, Calm
<1> QED BY <1>1, InitInv, AbreastInit DEF Best

LEMMA BestKept == ASSUME ClearsInput, InTime PROVE Best /\ [Next]_vars => Best'
<1> SUFFICES ASSUME Best, [Next]_vars PROVE Best' OBVIOUS
<1>1. IInv' BY InvKept DEF Best
<1>2. Base BY DEF Best, IInv, Base
<1>3. ASSUME losses' = 0 PROVE Abreast' /\ Calm'
  <2>1. ASSUME NEW p \in Peer, SetSyncTime(p) \/ SetBaud(p) \/ Tick(p)
        PROVE  Abreast' /\ Calm'
    <3>1. losses = 0 BY <1>2, <1>3, <2>1, LossesGrow DEF Base
    <3>2. Abreast /\ Calm BY <3>1 DEF Best
    <3>3. Abreast' BY <1>2, <1>3, <2>1, <3>2, StaysAbreast
    <3> QED BY <1>2, <1>3, <2>1, <3>2, <3>3, CalmKept
  <2>2. CASE UNCHANGED vars
    <3>1. Abreast /\ Calm BY <1>3, <2>2 DEF vars, Best
    <3>2. Calm' BY <2>2, <3>1 DEF vars, Calm, Avoided, Spoilt, Usable
    <3> QED BY <2>2, <3>1, <3>2, AbreastStutters
  <2> QED BY <2>1, <2>2 DEF Next
<1> QED BY <1>1, <1>3 DEF Best

\* serlink.c Speed and SetBaud: where ClearCom discards what has come in and the waits
\* are longer than the clocks are apart, two sides that lose no byte but those the
\* line never carries settle on the same usable speed, and pass over none that is
\* usable but one where an error may be pending since a string was cut off (149-150);
\* both fail only if there is no other.  For every number of speeds and every line.
THEOREM BestSpeedReached == ASSUME ClearsInput, InTime PROVE Spec => []BestSpeed
<1>1. Best => BestSpeed
  BY AbreastFinds DEF Best, IInv, Base, BestSpeed
<1>2. ClearsInput /\ InTime OBVIOUS
<1>3. Best /\ [Next]_vars => Best' BY BestKept
<1> QED BY <1>1, <1>3, BestInit, PTL DEF Spec

\* serlink.c 303, "sets up the highest possible baud rate": between two ports that
\* never report an error, like those of NT, this holds: the fastest speed at which the
\* line carries everything, or none if there is none.
THEOREM HighestReached ==
    ASSUME ClearsInput, InTime, ~FlagsErrors PROVE Spec => []HighestSpeed
<1>1. BestSpeed => HighestSpeed
  <2> SUFFICES ASSUME BestSpeed, losses = 0, \A p \in Peer : pc[p] \in Over
               PROVE  HighestSpeed
    BY DEF HighestSpeed
  <2>1. \A h : ~Spoilt(h) BY DEF Spoilt
  <2>2. CASE (\A p \in Peer : pc[p] = "down") /\ \A h \in UsableFrom : Spoilt(h)
    BY <2>1, <2>2 DEF HighestSpeed
  <2>3. ASSUME NEW b \in UsableFrom, Settle(b), \A h \in UsableFrom : h < b => Spoilt(h)
        PROVE  HighestSpeed
    <3>1. \A h \in UsableFrom : h \in Int /\ b \in Int BY DEF UsableFrom
    <3>2. \A h \in UsableFrom : b <= h BY <2>1, <2>3, <3>1
    <3> QED BY <2>3, <3>2 DEF HighestSpeed
  <2> QED BY <2>2, <2>3 DEF BestSpeed
<1>2. ClearsInput /\ InTime /\ ~FlagsErrors OBVIOUS
<1>3. Spec => []BestSpeed BY <1>2, BestSpeedReached
<1> QED BY <1>1, <1>3, PTL

=============================================================================
