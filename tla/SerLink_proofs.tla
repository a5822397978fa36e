--------------------------- MODULE SerLink_proofs ----------------------------
(***************************************************************************)
(* What holds of the serial transport for every value of the constants:    *)
(* type correctness, InOrderOnce, and that SerLink implements the lossy    *)
(* channel of SerChannel; AnswersCurrent, where no wait is too short; and  *)
(* the reliable channel, where the line has one fault at a time.           *)
(***************************************************************************)
EXTENDS SerLink, SequenceTheorems, TLAPS

-----------------------------------------------------------------------------
(* The inductive invariant.                                                *)

Sending(p) == mode[p] \in {"put", "drain"}

\* One direction: w is what is on its way to the receiver, l the block the
\* receiver took last, r the number it expects, c the block the sender put
\* last, n the number that goes on its wire, s whether the sender still sends
\* it.  Blocks arrive in the order they were put, copies of one block carry one
\* number, and a copy of the block taken last does not carry the number that is
\* expected next.
Direction(w, l, r, c, n, s) ==
    /\ l <= c
    /\ s /\ c = l => n # r
    /\ \A i \in DOMAIN w : w[i].kind = "BLK" =>
          /\ l <= w[i].blk.id /\ w[i].blk.id <= c
          /\ w[i].blk.id = l => w[i].blk.no # r
          /\ s /\ w[i].blk.id = c => w[i].blk.no = n
    /\ \A i, j \in DOMAIN w :
          i < j /\ w[i].kind = "BLK" /\ w[j].kind = "BLK" =>
              /\ w[i].blk.id <= w[j].blk.id
              /\ w[i].blk.id = w[j].blk.id => w[i].blk.no = w[j].blk.no

DirectionTo(p) ==
    Direction(wire[p], Last(log[p]), ReceiveBlkNo[p],
              cur[Other(p)], SendBlkNo[Other(p)] % Wire, Sending(Other(p)))

\* The server is about to carry out, or carries out, a request.
Serving == \/ mode["server"] = "busy"
           \/ mode["server"] = "resync" /\ after["server"] = "busy"

Modes == \A p \in Peer : /\ Sending(p) => cur[p] >= 1
                         /\ after[p] \in {"idle", "get", "busy"}

\* The server answers a request it has not answered yet.
Answering == /\ cur["server"] <= Last(log["server"])
             /\ Serving => cur["server"] < Last(log["server"])

IInv == /\ TypeOK
        /\ InOrderOnce
        /\ Modes
        /\ Answering
        /\ \A p \in Peer : DirectionTo(p)

-----------------------------------------------------------------------------
(* Sequences of messages.                                                  *)

\* t is what is left of w: some of its messages in their order, the blocks
\* among them unchanged; f tells where they come from.
Embeds(t, w, f) ==
    /\ \A i \in DOMAIN t : f[i] \in DOMAIN w
    /\ \A i, j \in DOMAIN t : i < j => f[i] <= f[j]
    /\ \A i \in DOMAIN t : t[i].kind = "BLK" => t[i] = w[f[i]]
Thin(t, w) == t \in Seq(Message) /\ \E f : Embeds(t, w, f)

\* A message of kind BLK carries a block with a number and a name.
LEMMA MessageBlock ==
    ASSUME NEW m \in Message, m.kind = "BLK"
    PROVE  m.blk \in Block
BY DEF Message, Byte, Frame, Junk, Ctl

LEMMA JunkMessage == Junk \in Message /\ Junk.kind # "BLK"
BY DEF Junk, Message

\* What is left of a sequence behind its k-th element.
LEMMA Behind ==
    ASSUME NEW w \in Seq(Message), NEW k \in 0..Len(w)
    PROVE  /\ SubSeq(w, k + 1, Len(w)) \in Seq(Message)
           /\ Len(SubSeq(w, k + 1, Len(w))) = Len(w) - k
           /\ \A i \in 1..(Len(w) - k) : SubSeq(w, k + 1, Len(w))[i] = w[i + k]
BY SMTT(30)

\* Two sequences one after the other.
LEMMA Joined ==
    ASSUME NEW a \in Seq(Message), NEW b \in Seq(Message)
    PROVE  /\ a \o b \in Seq(Message)
           /\ Len(a \o b) = Len(a) + Len(b)
           /\ \A i \in 1..Len(a) : (a \o b)[i] = a[i]
           /\ \A i \in (Len(a) + 1)..(Len(a) + Len(b)) : (a \o b)[i] = b[i - Len(a)]
<1>1. \A i \in 1..(Len(a) + Len(b)) :
          (a \o b)[i] = IF i <= Len(a) THEN a[i] ELSE b[i - Len(a)]
  BY ConcatProperties
<1>2. a \o b \in Seq(Message) /\ Len(a \o b) = Len(a) + Len(b)
  BY ConcatProperties
<1>3. Len(a) \in Nat /\ Len(b) \in Nat OBVIOUS
<1>4. \A i \in 1..Len(a) : (a \o b)[i] = a[i] BY <1>1, <1>3
<1>5. \A i \in (Len(a) + 1)..(Len(a) + Len(b)) : (a \o b)[i] = b[i - Len(a)]
  BY <1>1, <1>3
<1> QED BY <1>2, <1>4, <1>5

LEMMA ThinSame ==
    ASSUME NEW w \in Seq(Message)
    PROVE  Thin(w, w)
<1> DEFINE f == [i \in DOMAIN w |-> i]
<1>1. Embeds(w, w, f) BY DEF Embeds
<1> HIDE DEF f
<1> QED BY <1>1 DEF Thin

LEMMA ThinEmpty ==
    ASSUME NEW w
    PROVE  Thin(<<>>, w)
<1> DEFINE f == [i \in {} |-> i]
<1>1. Embeds(<<>>, w, f) BY DEF Embeds
<1> HIDE DEF f
<1> QED BY <1>1 DEF Thin

LEMMA ThinTail ==
    ASSUME NEW w \in Seq(Message), w # <<>>
    PROVE  Thin(Tail(w), w)
<1> DEFINE t == Tail(w)
           f == [i \in DOMAIN t |-> i + 1]
<1>1. /\ t \in Seq(Message)
      /\ DOMAIN t = 1..(Len(w) - 1)
      /\ \A i \in DOMAIN t : t[i] = w[i + 1]
  OBVIOUS
<1>2. Embeds(t, w, f)
  <2> HIDE DEF t
  <2> QED BY <1>1 DEF Embeds
<1> HIDE DEF f
<1> QED BY <1>1, <1>2 DEF Thin

\* What ClearCom leaves.
LEMMA ThinRemains ==
    ASSUME NEW w \in Seq(Message), NEW t \in Remains(w)
    PROVE  Thin(t, w)
<1>1. CASE \E k \in 0..Len(w) : t = SubSeq(w, k + 1, Len(w))
  <2>1. PICK k \in 0..Len(w) : t = SubSeq(w, k + 1, Len(w)) BY <1>1
  <2> DEFINE f == [i \in DOMAIN t |-> i + k]
  <2>2. /\ t \in Seq(Message)
        /\ DOMAIN t = 1..(Len(w) - k)
        /\ \A i \in DOMAIN t : t[i] = w[i + k]
    BY <2>1
  <2>3. Embeds(t, w, f) BY <2>2 DEF Embeds
  <2> HIDE DEF f
  <2> QED BY <2>2, <2>3 DEF Thin
<1>2. CASE \E k \in 1..Len(w) : t = <<Junk>> \o SubSeq(w, k + 1, Len(w))
  <2>1. PICK k \in 1..Len(w) : t = <<Junk>> \o SubSeq(w, k + 1, Len(w)) BY <1>2
  <2> DEFINE u == SubSeq(w, k + 1, Len(w))
             f == [i \in DOMAIN t |-> i + k - 1]
  <2>2. /\ u \in Seq(Message)
        /\ Len(u) = Len(w) - k
        /\ \A i \in 1..Len(u) : u[i] = w[i + k]
    BY Behind
  <2> HIDE DEF u
  <2>3. t = <<Junk>> \o u BY <2>1 DEF u
  <2>4. /\ t \in Seq(Message)
        /\ DOMAIN t = 1..(Len(w) - k + 1)
        /\ t[1] = Junk
        /\ \A i \in DOMAIN t : i # 1 => t[i] = w[i + k - 1]
    <3> DEFINE j == <<Junk>>
    <3>1. j \in Seq(Message) /\ Len(j) = 1 /\ j[1] = Junk
      BY JunkMessage
    <3> HIDE DEF j
    <3>2. /\ j \o u \in Seq(Message) /\ Len(j \o u) = 1 + Len(u)
          /\ (j \o u)[1] = Junk
          /\ \A i \in 2..(1 + Len(u)) : (j \o u)[i] = u[i - 1]
      <4>1. /\ j \o u \in Seq(Message) /\ Len(j \o u) = Len(j) + Len(u)
            /\ \A i \in 1..Len(j) : (j \o u)[i] = j[i]
            /\ \A i \in (Len(j) + 1)..(Len(j) + Len(u)) : (j \o u)[i] = u[i - Len(j)]
        BY <2>2, <3>1, Joined
      <4> QED BY <2>2, <3>1, <4>1
    <3>3. t = j \o u BY <2>3 DEF j
    <3>4. t \in Seq(Message) /\ Len(t) = Len(w) - k + 1 BY <2>2, <3>2, <3>3
    <3>5. \A i \in 1..Len(t) : i # 1 => t[i] = w[i + k - 1]
      <4>1. SUFFICES ASSUME NEW i \in 1..Len(t), i # 1 PROVE t[i] = w[i + k - 1]
        OBVIOUS
      <4>2. t[i] = u[i - 1] BY <2>2, <3>2, <3>3, <3>4, <4>1
      <4>3. i - 1 \in 1..Len(u) /\ i - 1 + k = i + k - 1 BY <2>2, <3>4, <4>1
      <4> QED BY <2>2, <4>2, <4>3
    <3> QED BY <3>2, <3>3, <3>4, <3>5
  <2>5. Embeds(t, w, f) BY <2>4, JunkMessage DEF Embeds
  <2> HIDE DEF f
  <2> QED BY <2>4, <2>5 DEF Thin
<1> QED BY <1>1, <1>2 DEF Remains

\* A message in the middle is lost, or junk takes its place.
LEMMA ThinSplice ==
    ASSUME NEW w \in Seq(Message), NEW i \in 1..Len(w), NEW u \in Seq(Message),
           \A k \in DOMAIN u : u[k].kind # "BLK"
    PROVE  Thin(SubSeq(w, 1, i - 1) \o u \o SubSeq(w, i + 1, Len(w)), w)
<1> DEFINE a == SubSeq(w, 1, i - 1)
           z == SubSeq(w, i + 1, Len(w))
           t == a \o u \o z
           f == [k \in DOMAIN t |-> IF k < i THEN k
                                    ELSE IF k < i + Len(u) THEN i ELSE k - Len(u) + 1]
<1>1. /\ a \in Seq(Message) /\ Len(a) = i - 1
      /\ \A k \in 1..(i - 1) : a[k] = w[k]
  OBVIOUS
<1>2. /\ z \in Seq(Message) /\ Len(z) = Len(w) - i
      /\ \A k \in 1..Len(z) : z[k] = w[k + i]
  BY Behind
<1> HIDE DEF a, z
<1>3. /\ a \o u \in Seq(Message) /\ Len(a \o u) = i - 1 + Len(u)
      /\ \A k \in 1..(i - 1) : (a \o u)[k] = w[k]
      /\ \A k \in i..(i - 1 + Len(u)) : (a \o u)[k] = u[k - i + 1]
  <2>1. /\ a \o u \in Seq(Message) /\ Len(a \o u) = Len(a) + Len(u)
        /\ \A k \in 1..Len(a) : (a \o u)[k] = a[k]
        /\ \A k \in (Len(a) + 1)..(Len(a) + Len(u)) : (a \o u)[k] = u[k - Len(a)]
    BY <1>1, Joined
  <2> QED BY <1>1, <2>1
<1> DEFINE b == a \o u
<1> HIDE DEF b
<1>4. /\ b \o z \in Seq(Message) /\ Len(b \o z) = Len(b) + Len(z)
      /\ \A k \in 1..Len(b) : (b \o z)[k] = b[k]
      /\ \A k \in (Len(b) + 1)..(Len(b) + Len(z)) : (b \o z)[k] = z[k - Len(b)]
  <2>1. b \in Seq(Message) BY <1>3 DEF b
  <2> QED BY <1>2, <2>1, Joined
<1>5. t = b \o z BY DEF b
<1> HIDE DEF t
<1>6. /\ t \in Seq(Message) /\ DOMAIN t = 1..(Len(w) - 1 + Len(u))
      /\ \A k \in 1..(i - 1) : t[k] = w[k]
  BY <1>2, <1>3, <1>4, <1>5 DEF b
<1>7. \A k \in i..(i - 1 + Len(u)) : t[k].kind # "BLK"
  <2>1. TAKE k \in i..(i - 1 + Len(u))
  <2>2. k \in 1..Len(b) BY <1>3 DEF b
  <2>3. t[k] = b[k] BY <1>4, <1>5, <2>2
  <2>4. b[k] = u[k - i + 1] BY <1>3 DEF b
  <2>5. k - i + 1 \in DOMAIN u OBVIOUS
  <2> QED BY <2>3, <2>4, <2>5
<1>8. \A k \in (i + Len(u))..(Len(w) - 1 + Len(u)) : t[k] = w[k - Len(u) + 1]
  <2>1. TAKE k \in (i + Len(u))..(Len(w) - 1 + Len(u))
  <2> DEFINE m == k - i + 1 - Len(u)
  <2>2. /\ m \in 1..Len(z) /\ m + i = k - Len(u) + 1
        /\ k \in (Len(b) + 1)..(Len(b) + Len(z)) /\ k - Len(b) = m
    BY <1>2, <1>3 DEF b
  <2> HIDE DEF m
  <2>3. t[k] = z[m] BY <1>4, <1>5, <2>2
  <2>4. z[m] = w[m + i] BY <1>2, <2>2
  <2> QED BY <2>2, <2>3, <2>4
<1>9. Embeds(t, w, f)
  <2>1. \A k \in DOMAIN t : f[k] \in DOMAIN w BY <1>6
  <2>2. \A k, m \in DOMAIN t : k < m => f[k] <= f[m] BY <1>6
  <2>3. ASSUME NEW k \in DOMAIN t, t[k].kind = "BLK" PROVE t[k] = w[f[k]]
    <3>1. k \in 1..(Len(w) - 1 + Len(u)) BY <1>6
    <3>2. CASE k < i BY <1>6, <3>1, <3>2
    <3>3. CASE i <= k /\ k < i + Len(u) BY <1>7, <2>3, <3>1, <3>3
    <3>4. CASE i + Len(u) <= k
      <4>1. ~(k < i) /\ ~(k < i + Len(u)) BY <3>1, <3>4
      <4>3. f[k] = k - Len(u) + 1 BY <4>1
      <4>2. k \in (i + Len(u))..(Len(w) - 1 + Len(u)) BY <3>1, <3>4
      <4> QED BY <1>8, <4>2, <4>3
    <3> QED BY <3>1, <3>2, <3>3, <3>4
  <2> QED BY <2>1, <2>2, <2>3 DEF Embeds
<1> HIDE DEF f
<1>10. Thin(t, w) BY <1>6, <1>9 DEF Thin
<1> QED BY <1>10 DEF t, a, z

LEMMA ThinLose ==
    ASSUME NEW w \in Seq(Message), NEW i \in 1..Len(w)
    PROVE  Thin(SubSeq(w, 1, i - 1) \o SubSeq(w, i + 1, Len(w)), w)
<1>1. SubSeq(w, 1, i - 1) \in Seq(Message) OBVIOUS
<1>2. \A a \in Seq(Message) : a \o <<>> = a OBVIOUS
<1>3. <<>> \in Seq(Message) /\ \A k \in DOMAIN <<>> : <<>>[k].kind # "BLK"
  OBVIOUS
<1> DEFINE e == <<>>
<1> HIDE DEF e
<1>4. Thin(SubSeq(w, 1, i - 1) \o e \o SubSeq(w, i + 1, Len(w)), w)
  BY <1>3, ThinSplice DEF e
<1> QED BY <1>1, <1>2, <1>4 DEF e

LEMMA ThinThin ==
    ASSUME NEW w \in Seq(Message), NEW t, NEW u, Thin(t, w), Thin(u, t)
    PROVE  Thin(u, w)
<1>1. PICK f : Embeds(t, w, f) BY DEF Thin
<1>2. PICK g : Embeds(u, t, g) BY DEF Thin
<1> DEFINE h == [i \in DOMAIN u |-> f[g[i]]]
<1>3. u \in Seq(Message) /\ t \in Seq(Message) BY DEF Thin
<1>4. \A i \in DOMAIN u : g[i] \in DOMAIN t /\ f[g[i]] \in DOMAIN w
  BY <1>1, <1>2 DEF Embeds
<1>5. ASSUME NEW i \in DOMAIN u, NEW j \in DOMAIN u, i < j
      PROVE  f[g[i]] <= f[g[j]]
  <2>1. g[i] <= g[j] /\ g[i] \in DOMAIN t /\ g[j] \in DOMAIN t
    BY <1>2, <1>5 DEF Embeds
  <2>2. CASE g[i] = g[j] BY <1>4, <2>2
  <2>3. CASE g[i] < g[j] BY <1>1, <2>1, <2>3 DEF Embeds
  <2> QED BY <1>3, <2>1, <2>2, <2>3
<1>6. \A i \in DOMAIN u : u[i].kind = "BLK" => u[i] = w[f[g[i]]]
  BY <1>1, <1>2, <1>4 DEF Embeds
<1>7. Embeds(u, w, h) BY <1>4, <1>5, <1>6 DEF Embeds
<1> HIDE DEF h
<1> QED BY <1>3, <1>7 DEF Thin

-----------------------------------------------------------------------------
(* What the events of one direction preserve.                              *)

LEMMA DirectionThin ==
    ASSUME NEW w \in Seq(Message), NEW t, Thin(t, w),
           NEW l \in Nat, NEW r \in Nat, NEW c \in Nat, NEW n \in Nat,
           NEW s \in BOOLEAN, Direction(w, l, r, c, n, s)
    PROVE  Direction(t, l, r, c, n, s)
<1>1. PICK f : Embeds(t, w, f) BY DEF Thin
<1>2. t \in Seq(Message) BY DEF Thin
<1>3. \A i \in DOMAIN t : t[i].kind = "BLK" =>
          f[i] \in DOMAIN w /\ w[f[i]].kind = "BLK" /\ t[i] = w[f[i]]
  BY <1>1 DEF Embeds
<1>4. ASSUME NEW i \in DOMAIN t, NEW j \in DOMAIN t,
             i < j, t[i].kind = "BLK", t[j].kind = "BLK"
      PROVE  /\ t[i].blk.id <= t[j].blk.id
             /\ t[i].blk.id = t[j].blk.id => t[i].blk.no = t[j].blk.no
  <2>1. f[i] <= f[j] /\ f[i] \in DOMAIN w /\ f[j] \in DOMAIN w
    BY <1>1, <1>4 DEF Embeds
  <2>2. /\ w[f[i]].kind = "BLK" /\ t[i] = w[f[i]]
        /\ w[f[j]].kind = "BLK" /\ t[j] = w[f[j]]
    BY <1>3, <1>4
  <2>3. CASE f[i] < f[j] BY <2>1, <2>2, <2>3 DEF Direction
  <2>4. CASE f[i] = f[j]
    <3>1. t[i] = t[j] BY <2>2, <2>4
    <3>2. t[i].blk.id \in Nat
      BY <1>2, <1>4, MessageBlock DEF Block
    <3> QED BY <3>1, <3>2
  <2> QED BY <2>1, <2>3, <2>4
<1> QED BY <1>3, <1>4 DEF Direction

\* A control byte, or junk, is sent.
LEMMA DirectionByte ==
    ASSUME NEW w \in Seq(Message), NEW m \in Message, m.kind # "BLK",
           NEW l, NEW r, NEW c, NEW n, NEW s, Direction(w, l, r, c, n, s)
    PROVE  Direction(w \o <<m>>, l, r, c, n, s)
<1>1. /\ Len(w \o <<m>>) = Len(w) + 1 /\ w \o <<m>> \in Seq(Message)
      /\ \A i \in 1..Len(w) : (w \o <<m>>)[i] = w[i]
      /\ (w \o <<m>>)[Len(w) + 1] = m
  OBVIOUS
<1> DEFINE t == w \o <<m>>
<1> HIDE DEF t
<1>2. \A i \in DOMAIN t : t[i].kind = "BLK" => i \in DOMAIN w /\ t[i] = w[i]
  BY <1>1 DEF t
<1>3. Direction(t, l, r, c, n, s) BY <1>2 DEF Direction
<1> QED BY <1>3 DEF t

\* A block is sent: for the first time (c < d) or again (c = d).
LEMMA DirectionBlock ==
    ASSUME NEW w \in Seq(Message), NEW b \in Block,
           NEW l \in Nat, NEW r \in Nat, NEW c \in Nat, NEW s \in BOOLEAN,
           NEW n \in 0..(Wire - 1), Direction(w, l, r, c, n, s),
           c <= b.id, c = b.id => s, b.no = n
    PROVE  Direction(w \o <<Frame(b)>>, l, r, b.id, n, TRUE)
<1> DEFINE m == Frame(b)
           t == w \o <<m>>
<1>1. m \in Message /\ m.kind = "BLK" /\ m.blk = b BY DEF Message, Frame
<1> HIDE DEF m
<1>2. /\ Len(t) = Len(w) + 1 /\ t \in Seq(Message)
      /\ \A i \in 1..Len(w) : t[i] = w[i]
      /\ t[Len(w) + 1] = m
  BY <1>1
<1> HIDE DEF t
<1>3. b.id \in Nat /\ b.no \in Nat BY NumberAssumption DEF Block
<1>4. \A i \in DOMAIN w : w[i].kind = "BLK" => w[i].blk.id \in Nat /\ w[i].blk.no \in Nat
  <2> SUFFICES ASSUME NEW i \in DOMAIN w, w[i].kind = "BLK"
               PROVE  w[i].blk.id \in Nat /\ w[i].blk.no \in Nat
    OBVIOUS
  <2>1. w[i] \in Message OBVIOUS
  <2>2. w[i].blk \in Block BY <2>1, MessageBlock
  <2>3. \A e \in Block : e.id \in Nat /\ e.no \in Nat BY NumberAssumption DEF Block
  <2> QED BY <2>2, <2>3
<1>5. l <= b.id /\ (b.id = l => n # r) BY <1>3 DEF Direction
<1>6. ASSUME NEW i \in DOMAIN t, t[i].kind = "BLK"
      PROVE  /\ l <= t[i].blk.id /\ t[i].blk.id <= b.id
             /\ t[i].blk.id = l => t[i].blk.no # r
             /\ t[i].blk.id = b.id => t[i].blk.no = n
  <2>1. CASE i = Len(w) + 1 BY <1>1, <1>2, <1>3, <1>5, <2>1
  <2>2. CASE i \in DOMAIN w BY <1>2, <1>3, <1>4, <1>6, <2>2 DEF Direction
  <2> QED BY <1>2, <2>1, <2>2
<1>7. ASSUME NEW i \in DOMAIN t, NEW j \in DOMAIN t,
             i < j, t[i].kind = "BLK", t[j].kind = "BLK"
      PROVE  /\ t[i].blk.id <= t[j].blk.id
             /\ t[i].blk.id = t[j].blk.id => t[i].blk.no = t[j].blk.no
  <2>1. CASE j = Len(w) + 1 BY <1>1, <1>2, <1>6, <1>7, <2>1
  <2>2. CASE j \in DOMAIN w BY <1>2, <1>7, <2>2 DEF Direction
  <2> QED BY <1>2, <2>1, <2>2
<1>8. Direction(t, l, r, b.id, n, TRUE) BY <1>5, <1>6, <1>7 DEF Direction
<1> QED BY <1>1, <1>8 DEF t, m

\* A block is taken: it is newer than the one taken before, and its copies do
\* not carry the number that is expected next.
LEMMA DirectionTake ==
    ASSUME NEW w \in Seq(Message), w # <<>>, Head(w).kind = "BLK",
           NEW l \in Nat, NEW c \in Nat, NEW n \in Nat, NEW s \in BOOLEAN,
           NEW r \in 0..(UInt - 1), Direction(w, l, r, c, n, s),
           Head(w).blk.no = r
    PROVE  /\ l < Head(w).blk.id /\ Head(w).blk.id <= c
           /\ Direction(Tail(w), Head(w).blk.id, NextNo(r), c, n, s)
<1> DEFINE b == Head(w).blk
           t == Tail(w)
<1>1. 1 \in DOMAIN w /\ w[1] = Head(w) OBVIOUS
<1>2. /\ t \in Seq(Message)
      /\ \A i \in DOMAIN t : i + 1 \in DOMAIN w /\ t[i] = w[i + 1] /\ 1 < i + 1
      /\ \A i, j \in DOMAIN t : i < j => i + 1 < j + 1
  OBVIOUS
<1>3. b.id \in Nat /\ b.no = r BY <1>1, MessageBlock DEF Block
<1> HIDE DEF t, b
<1>4. NextNo(r) # r BY NumberAssumption DEF NextNo
<1>5. l < b.id /\ b.id <= c BY <1>1, <1>3 DEF Direction, b
<1>6. s /\ c = b.id => n = r BY <1>1, <1>3 DEF Direction, b
<1>7. ASSUME NEW i \in DOMAIN t, t[i].kind = "BLK"
      PROVE  /\ b.id <= t[i].blk.id /\ t[i].blk.id <= c
             /\ t[i].blk.id = b.id => t[i].blk.no # NextNo(r)
             /\ s /\ t[i].blk.id = c => t[i].blk.no = n
  <2>1. /\ b.id <= t[i].blk.id
        /\ t[i].blk.id = b.id => t[i].blk.no = r
    BY <1>1, <1>2, <1>3, <1>7 DEF Direction, b
  <2>2. /\ t[i].blk.id <= c
        /\ s /\ t[i].blk.id = c => t[i].blk.no = n
    BY <1>2, <1>7 DEF Direction
  <2> QED BY <1>4, <2>1, <2>2
<1>8. ASSUME NEW i \in DOMAIN t, NEW j \in DOMAIN t,
             i < j, t[i].kind = "BLK", t[j].kind = "BLK"
      PROVE  /\ t[i].blk.id <= t[j].blk.id
             /\ t[i].blk.id = t[j].blk.id => t[i].blk.no = t[j].blk.no
  BY <1>2, <1>8 DEF Direction
<1>9. Direction(t, b.id, NextNo(r), c, n, s)
  BY <1>4, <1>5, <1>6, <1>7, <1>8 DEF Direction
<1> QED BY <1>5, <1>9 DEF b, t

\* The sender stops sending its block; the number it will use next is free.
LEMMA DirectionStop ==
    ASSUME NEW w, NEW l, NEW r, NEW c, NEW n, NEW s, NEW m,
           Direction(w, l, r, c, n, s)
    PROVE  Direction(w, l, r, c, m, FALSE)
BY DEF Direction

-----------------------------------------------------------------------------
(* Types of what the actions are made of.                                  *)

LEMMA PeerFacts ==
    ASSUME NEW p \in Peer
    PROVE  Other(p) \in Peer /\ Other(p) # p /\ Other(Other(p)) = p
           /\ Peer = {p, Other(p)}
BY DEF Peer, Other

LEMMA ByteMessage ==
    ASSUME NEW c \in Ctl
    PROVE  Byte(c) \in Message /\ Byte(c).kind # "BLK"
BY DEF Byte, Message, Ctl

LEMMA Counts ==
    ASSUME NEW n \in 0..(MAX_ERRORS + 1), NEW k \in 0..(UInt - 1)
    PROVE  OneMore(n) \in 0..(MAX_ERRORS + 1) /\ NextNo(k) \in 0..(UInt - 1)
BY NumberAssumption, BoundAssumption DEF OneMore, NextNo

LEMMA WireNo ==
    ASSUME NEW k \in 0..(UInt - 1)
    PROVE  k % Wire \in 0..(Wire - 1)
BY NumberAssumption

LEMMA NewBlockMessage ==
    ASSUME TypeOK, NEW p \in Peer, NEW id \in 1..MaxPut,
           NEW err \in 0..(MAX_ERRORS + 1), NEW wanted \in BOOLEAN
    PROVE  \E b \in Block : /\ NewBlock(p, id, err, wanted) = Frame(b)
                            /\ b.id = id /\ b.no = SendBlkNo[p] % Wire
                            /\ Frame(b) \in Message
<1> DEFINE b == [id |-> id, no |-> SendBlkNo[p] % Wire, err |-> err,
                 reply |-> p = "client" /\ wanted]
<1>1. SendBlkNo[p] % Wire \in 0..(Wire - 1) BY WireNo DEF TypeOK
<1>2. (p = "client" /\ wanted) \in BOOLEAN OBVIOUS
<1>3. b \in Block BY <1>1, <1>2 DEF Block
<1>4. Frame(b) \in Message BY <1>3 DEF Message
<1> QED BY <1>3, <1>4 DEF NewBlock

LEMMA ExchangeWire ==
    ASSUME wire \in [Peer -> Seq(Message)], NEW p \in Peer,
           NEW rest \in Seq(Message), NEW out \in Seq(Message),
           Exchange(p, rest, out)
    PROVE  /\ wire' \in [Peer -> Seq(Message)]
           /\ wire'[p] = rest
           /\ wire'[Other(p)] = wire[Other(p)] \o out
<1>1. wire[Other(p)] \o out \in Seq(Message) BY PeerFacts
<1> QED BY <1>1, PeerFacts DEF Exchange

\* The last of what was taken.
LEMMA LastFacts ==
    /\ Last(<<>>) = 0
    /\ \A s \in Seq(1..MaxPut) : /\ Last(s) \in 0..MaxPut
                                 /\ \A n \in 1..MaxPut : Last(Append(s, n)) = n
<1>1. Last(<<>>) = 0 BY DEF Last
<1>2. ASSUME NEW s \in Seq(1..MaxPut) PROVE Last(s) \in 0..MaxPut
  <2>1. CASE s = <<>> BY <2>1, BoundAssumption DEF Last
  <2>2. CASE s # <<>>
    <3>1. Len(s) \in 1..Len(s) BY <2>2, EmptySeq
    <3>2. s[Len(s)] \in 1..MaxPut BY <3>1, ElementOfSeq
    <3> QED BY <2>2, <3>2, BoundAssumption DEF Last
  <2> QED BY <2>1, <2>2
<1>3. ASSUME NEW s \in Seq(1..MaxPut), NEW n \in 1..MaxPut
      PROVE  Last(Append(s, n)) = n
  <2>1. Append(s, n) # <<>> /\ Len(Append(s, n)) = Len(s) + 1
        /\ Append(s, n)[Len(s) + 1] = n
    OBVIOUS
  <2> QED BY <2>1 DEF Last
<1> QED BY <1>1, <1>2, <1>3

-----------------------------------------------------------------------------
(* Most actions of a side neither take a block nor put or confirm one: they *)
(* consume input, send at most a byte that is not a block, and perhaps stop *)
(* sending.                                                                 *)

Sends(out) == out = <<>> \/ \E m \in Message : m.kind # "BLK" /\ out = <<m>>

Quiet(p) ==
    /\ \E rest, out : Thin(rest, wire[p]) /\ Sends(out) /\ Exchange(p, rest, out)
    /\ UNCHANGED <<SendBlkNo, ReceiveBlkNo, after, cur, log>>
    /\ mode'[Other(p)] = mode[Other(p)]
    /\ mode'[p] \in {"put", "drain"} => mode[p] \in {"put", "drain"}
    /\ mode'[p] \notin {"busy", "resync"} \/ mode'[p] = mode[p]

LEMMA QuietSends ==
    ASSUME NEW out, Sends(out)
    PROVE  out \in Seq(Message)
<1>1. CASE out = <<>> BY <1>1
<1>2. CASE \E m \in Message : m.kind # "BLK" /\ out = <<m>> BY <1>2
<1> QED BY <1>1, <1>2 DEF Sends

LEMMA DirectionTypes ==
    ASSUME IInv, NEW q \in Peer
    PROVE  /\ Last(log[q]) \in 0..MaxPut /\ ReceiveBlkNo[q] \in 0..(UInt - 1)
           /\ ReceiveBlkNo[q] \in Nat
           /\ cur[q] \in Nat /\ cur[Other(q)] \in Nat /\ Last(log[q]) \in Nat
           /\ SendBlkNo[Other(q)] % Wire \in 0..(Wire - 1)
           /\ SendBlkNo[Other(q)] % Wire \in Nat
           /\ Sending(q) \in BOOLEAN /\ Sending(Other(q)) \in BOOLEAN
           /\ wire[q] \in Seq(Message)
<1>1. SendBlkNo[Other(q)] \in 0..(UInt - 1) BY PeerFacts DEF IInv, TypeOK
<1>2. SendBlkNo[Other(q)] % Wire \in 0..(Wire - 1) BY <1>1, WireNo
<1>3. Last(log[q]) \in 0..MaxPut BY LastFacts DEF IInv, TypeOK
<1> QED
  BY <1>2, <1>3, PeerFacts, NumberAssumption, BoundAssumption DEF IInv, TypeOK, Sending

\* The direction a side receives on, when it has consumed some input.
LEMMA DirectionRest ==
    ASSUME IInv, NEW p \in Peer, NEW rest, Thin(rest, wire[p])
    PROVE  Direction(rest, Last(log[p]), ReceiveBlkNo[p],
                     cur[Other(p)], SendBlkNo[Other(p)] % Wire, Sending(Other(p)))
<1> DEFINE l == Last(log[p])
           n == SendBlkNo[Other(p)] % Wire
           v == Sending(Other(p))
<1>1. Direction(wire[p], l, ReceiveBlkNo[p], cur[Other(p)], n, v)
  BY DEF IInv, DirectionTo
<1>2. /\ l \in Nat /\ ReceiveBlkNo[p] \in Nat /\ cur[Other(p)] \in Nat
      /\ n \in Nat /\ v \in BOOLEAN /\ wire[p] \in Seq(Message)
  BY DirectionTypes
<1> DEFINE r == ReceiveBlkNo[p]
           c == cur[Other(p)]
           w == wire[p]
<1> HIDE DEF l, n, v, r, c, w
<1>3. Direction(rest, l, r, c, n, v)
  <2>1. Thin(rest, w) /\ w \in Seq(Message) BY <1>2 DEF w
  <2>2. l \in Nat /\ r \in Nat /\ c \in Nat /\ n \in Nat /\ v \in BOOLEAN
    BY <1>2 DEF r, c
  <2>3. Direction(w, l, r, c, n, v) BY <1>1 DEF w, r, c
  <2> QED BY ONLY <2>1, <2>2, <2>3, DirectionThin
<1> QED BY <1>3 DEF l, n, v, r, c

\* The direction a side sends on, when it sends a byte that is not a block.
LEMMA DirectionOut ==
    ASSUME IInv, NEW p \in Peer, NEW m \in Message, m.kind # "BLK"
    PROVE  Direction(wire[Other(p)] \o <<m>>, Last(log[Other(p)]), ReceiveBlkNo[Other(p)],
                     cur[p], SendBlkNo[p] % Wire, Sending(p))
<1> DEFINE o == Other(p)
           l == Last(log[o])
           n == SendBlkNo[p] % Wire
           v == Sending(p)
<1>1. o \in Peer /\ Other(o) = p BY PeerFacts
<1>2. Direction(wire[o], l, ReceiveBlkNo[o], cur[p], n, v) /\ wire[o] \in Seq(Message)
  BY <1>1, DirectionTypes DEF IInv, DirectionTo
<1> HIDE DEF l, n, v, o
<1>3. Direction(wire[o] \o <<m>>, l, ReceiveBlkNo[o], cur[p], n, v)
  BY <1>2, DirectionByte
<1> QED BY <1>3 DEF o, l, n, v

LEMMA QuietStep ==
    ASSUME IInv, NEW p \in Peer, Quiet(p)
    PROVE  /\ wire' \in [Peer -> Seq(Message)]
           /\ InOrderOnce' /\ Modes' /\ Answering'
           /\ \A q \in Peer : DirectionTo(q)'
<1>1. PICK rest, out : Thin(rest, wire[p]) /\ Sends(out) /\ Exchange(p, rest, out)
  BY DEF Quiet
<1>2. rest \in Seq(Message) /\ out \in Seq(Message) BY <1>1, QuietSends DEF Thin
<1>3. /\ wire' \in [Peer -> Seq(Message)]
      /\ wire'[p] = rest
      /\ wire'[Other(p)] = wire[Other(p)] \o out
  BY <1>1, <1>2, ExchangeWire DEF IInv, TypeOK
<1>4. InOrderOnce' BY DEF Quiet, IInv, InOrderOnce
<1>5. Modes'
  BY PeerFacts DEF Quiet, IInv, Modes, Sending
<1>6. Serving' => Serving
  BY PeerFacts DEF Quiet, Serving, Peer
<1>7. Answering' BY <1>6 DEF Quiet, IInv, Answering
<1>8. ASSUME NEW q \in Peer
      PROVE  wire[q] \in Seq(Message)
  BY DirectionTypes
<1>9. DirectionTo(p)'
  <2>1. Direction(rest, Last(log[p]), ReceiveBlkNo[p],
                  cur[Other(p)], SendBlkNo[Other(p)] % Wire, Sending(Other(p)))
    BY <1>1, DirectionRest
  <2>2. Sending(Other(p))' = Sending(Other(p)) BY DEF Quiet, Sending
  <2> QED BY <1>3, <2>1, <2>2 DEF Quiet, DirectionTo
<1>10. DirectionTo(Other(p))'
  <2> DEFINE o == Other(p)
             n == SendBlkNo[p] % Wire
  <2>1. Direction(wire[o], Last(log[o]), ReceiveBlkNo[o], cur[p], n, Sending(p))
    BY PeerFacts DEF IInv, DirectionTo
  <2>2. Direction(wire'[o], Last(log[o]), ReceiveBlkNo[o], cur[p], n, Sending(p))
    <3>1. CASE out = <<>>
      <4>1. wire'[o] = wire[o] BY <1>3, <1>8, <3>1, PeerFacts, ConcatEmptySeq
      <4> QED BY <2>1, <4>1
    <3>2. CASE \E m \in Message : m.kind # "BLK" /\ out = <<m>>
      BY <1>3, <3>2, DirectionOut
    <3> QED BY <1>1, <3>1, <3>2 DEF Sends
  <2>3. Sending(p)' => Sending(p) BY DEF Quiet, Sending
  <2>4. Direction(wire'[o], Last(log[o]), ReceiveBlkNo[o], cur[p], n, Sending(p)')
    <3>1. CASE Sending(p)'
      <4>1. Sending(p)' = Sending(p) BY <2>3, <3>1 DEF Sending
      <4> QED BY <2>2, <4>1
    <3>2. CASE ~Sending(p)'
      <4>1. Sending(p)' = FALSE BY <3>2 DEF Sending
      <4> QED BY <2>2, <4>1, DirectionStop
    <3> QED BY <3>1, <3>2
  <2> QED BY <2>4, PeerFacts DEF Quiet, DirectionTo
<1> QED BY <1>3, <1>4, <1>5, <1>7, <1>9, <1>10, PeerFacts

\* Doing nothing to the line, in the terms of Exchange.
LEMMA ExchangeNothing ==
    ASSUME wire \in [Peer -> Seq(Message)], NEW p \in Peer, UNCHANGED wire
    PROVE  Exchange(p, wire[p], <<>>)
<1>1. wire[Other(p)] \o <<>> = wire[Other(p)] BY PeerFacts, ConcatEmptySeq
<1> QED BY <1>1, PeerFacts DEF Exchange

LEMMA QuietMessages ==
    /\ Sends(<<>>) /\ Sends(<<Junk>>)
    /\ \A c \in Ctl : Sends(<<Byte(c)>>)
BY ByteMessage, JunkMessage DEF Sends

\* The events of a link, by what they consume: nothing, the first message, or
\* what ClearCom throws away as well.
LEMMA Consumed ==
    ASSUME wire \in [Peer -> Seq(Message)], NEW p \in Peer
    PROVE  /\ Thin(wire[p], wire[p])
           /\ wire[p] # <<>> => Thin(Tail(wire[p]), wire[p])
           /\ wire[p] # <<>> => \A t \in Remains(Tail(wire[p])) : Thin(t, wire[p])
<1>1. wire[p] \in Seq(Message) OBVIOUS
<1>2. ASSUME wire[p] # <<>>, NEW t \in Remains(Tail(wire[p]))
      PROVE  Thin(t, wire[p])
  <2>1. Tail(wire[p]) \in Seq(Message) BY <1>1, <1>2, HeadTailProperties
  <2>2. Thin(t, Tail(wire[p])) BY <1>2, <2>1, ThinRemains
  <2>3. Thin(Tail(wire[p]), wire[p]) BY <1>1, <1>2, ThinTail
  <2> QED BY <2>2, <2>3, ThinThin
<1> QED BY <1>1, <1>2, ThinSame, ThinTail

LEMMA QuietActions ==
    ASSUME TypeOK, NEW p \in Peer,
           \/ PutOther(p) \/ Discard(p) \/ Discarded(p) \/ PutSilence(p)
           \/ PutTimeout(p) \/ GetWrongNumber(p) \/ GetDamaged(p)
           \/ GetTooLong(p) \/ GetRlr(p) \/ GetOther(p) \/ ReSyncRead(p)
           \/ p = "client" /\ ReSyncHi
           \/ p = "server" /\ NoReply
    PROVE  Quiet(p)
<1> DEFINE A == \E rest, out : Thin(rest, wire[p]) /\ Sends(out) /\ Exchange(p, rest, out)
<1>1. wire \in [Peer -> Seq(Message)] /\ mode \in [Peer -> Mode] BY DEF TypeOK
<1>2. /\ Thin(wire[p], wire[p])
      /\ wire[p] # <<>> => Thin(Tail(wire[p]), wire[p])
      /\ wire[p] # <<>> => \A t \in Remains(Tail(wire[p])) : Thin(t, wire[p])
  BY <1>1, Consumed
<1>3. /\ Sends(<<>>) /\ Sends(<<Junk>>) /\ Sends(<<Byte("ACK")>>)
      /\ Sends(<<Byte("NAK")>>) /\ Sends(<<Byte("RLR")>>)
  BY QuietMessages DEF Ctl
<1>4. A
  <2>1. CASE PutOther(p) \/ Discard(p) \/ GetOther(p) \/ ReSyncRead(p)
    BY <1>2, <1>3, <2>1 DEF PutOther, Discard, GetOther, ReSyncRead
  <2>2. CASE Discarded(p) \/ PutSilence(p)
    BY <1>2, <1>3, <2>2 DEF Discarded, PutSilence
  <2>3. CASE GetDamaged(p) \/ GetRlr(p)
    BY <1>2, <1>3, <2>3 DEF GetDamaged, GetRlr
  <2>4. CASE GetWrongNumber(p) \/ GetTooLong(p)
    BY <1>2, <1>3, <2>4 DEF GetWrongNumber, GetTooLong
  <2>5. CASE PutTimeout(p) \/ (p = "server" /\ NoReply)
    <3>1. Exchange(p, wire[p], <<>>)
      BY <1>1, <2>5, ExchangeNothing DEF PutTimeout, NoReply
    <3> QED BY <1>2, <1>3, <3>1
  <2>6. CASE p = "client" /\ ReSyncHi BY <1>2, <1>3, <2>6 DEF ReSyncHi
  <2> HIDE DEF A
  <2> QED BY <2>1, <2>2, <2>3, <2>4, <2>5, <2>6
<1>5. UNCHANGED <<SendBlkNo, ReceiveBlkNo, after, cur, log>>
  BY DEF PutOther, Discard, Discarded, PutSilence, PutTimeout, GetWrongNumber,
         GetDamaged, GetTooLong, GetRlr, GetOther, ReSyncRead, ReSyncHi, NoReply, link
<1>6. /\ mode'[Other(p)] = mode[Other(p)]
      /\ mode'[p] \in {"put", "drain"} => mode[p] \in {"put", "drain"}
      /\ mode'[p] \notin {"busy", "resync"} \/ mode'[p] = mode[p]
  <2>1. CASE UNCHANGED mode BY <2>1
  <2>2. CASE mode' = [mode EXCEPT ![p] = "drain"] /\ mode[p] = "put"
    BY <1>1, <2>2, PeerFacts
  <2>3. CASE mode' = [mode EXCEPT ![p] = "put"] /\ mode[p] = "drain"
    BY <1>1, <2>3, PeerFacts
  <2>4. CASE \E m \in {"idle", "get"} : mode' = [mode EXCEPT ![p] = m]
    BY <1>1, <2>4, PeerFacts
  <2> QED
    BY <2>1, <2>2, <2>3, <2>4
    DEF PutOther, Discard, Discarded, PutSilence, PutTimeout, GetWrongNumber,
        GetDamaged, GetTooLong, GetRlr, GetOther, ReSyncRead, ReSyncHi, NoReply, AfterPut
<1> QED BY <1>4, <1>5, <1>6 DEF Quiet

-----------------------------------------------------------------------------
(* The actions that put, confirm, repeat or take a block.                  *)

\* A block joins what a side sends.
LEMMA DirectionSent ==
    ASSUME IInv, NEW p \in Peer,
           NEW b \in Block, b.no = SendBlkNo[p] % Wire,
           cur[p] <= b.id, cur[p] = b.id => Sending(p),
           NEW w \in Seq(Message),
           Direction(w, Last(log[Other(p)]), ReceiveBlkNo[Other(p)],
                     cur[p], SendBlkNo[p] % Wire, Sending(p))
    PROVE  Direction(w \o <<Frame(b)>>, Last(log[Other(p)]), ReceiveBlkNo[Other(p)],
                     b.id, SendBlkNo[p] % Wire, TRUE)
<1> DEFINE o == Other(p)
           l == Last(log[o])
           n == SendBlkNo[p] % Wire
           s == Sending(p)
           r == ReceiveBlkNo[o]
           c == cur[p]
<1>1. o \in Peer /\ Other(o) = p BY PeerFacts
<1>2. l \in Nat /\ r \in Nat /\ c \in Nat /\ n \in 0..(Wire - 1) /\ s \in BOOLEAN
  BY <1>1, DirectionTypes
<1>3. Direction(w, l, r, c, n, s) /\ c <= b.id /\ (c = b.id => s) /\ b.no = n
  OBVIOUS
<1> HIDE DEF o, l, n, s, r, c
<1>4. Direction(w \o <<Frame(b)>>, l, r, b.id, n, TRUE)
  BY ONLY <1>2, <1>3, b \in Block, w \in Seq(Message), DirectionBlock
<1> QED BY <1>4 DEF o, l, n, r

LEMMA PutStep ==
    ASSUME IInv, NEW p \in Peer, NEW id \in 1..MaxPut, NEW wanted \in BOOLEAN,
           cur[p] < id, p = "server" => id = Last(log["server"]),
           RemotePut(p, id, wanted)
    PROVE  /\ wire' \in [Peer -> Seq(Message)]
           /\ InOrderOnce' /\ Modes' /\ Answering'
           /\ \A q \in Peer : DirectionTo(q)'
<1> DEFINE o == Other(p)
<1>0. TypeOK /\ p \in Peer /\ o \in Peer /\ o # p /\ Other(o) = p /\ Peer = {p, o}
  BY PeerFacts DEF IInv
<1>1. PICK rest \in Remains(wire[p]) :
          Exchange(p, rest, <<NewBlock(p, id, Errors[p], wanted)>>)
  BY DEF RemotePut
<1>2. PICK b \in Block : /\ NewBlock(p, id, Errors[p], wanted) = Frame(b)
                         /\ b.id = id /\ b.no = SendBlkNo[p] % Wire
                         /\ Frame(b) \in Message
  <2>1. Errors[p] \in 0..(MAX_ERRORS + 1) BY <1>0 DEF TypeOK
  <2> QED BY <1>0, <2>1, NewBlockMessage
<1>3. wire[p] \in Seq(Message) /\ wire[o] \in Seq(Message) BY <1>0 DEF TypeOK
<1>4. Thin(rest, wire[p]) BY <1>1, <1>3, ThinRemains
<1>5. /\ wire' \in [Peer -> Seq(Message)]
      /\ wire'[p] = rest /\ wire'[o] = wire[o] \o <<Frame(b)>>
  <2>1. rest \in Seq(Message) /\ <<Frame(b)>> \in Seq(Message) BY <1>2, <1>4 DEF Thin
  <2> QED BY <1>0, <1>1, <1>2, <2>1, ExchangeWire DEF TypeOK
<1>6. /\ cur'[p] = id /\ cur'[o] = cur[o]
      /\ mode'[p] = "put" /\ mode'[o] = mode[o]
      /\ UNCHANGED <<SendBlkNo, ReceiveBlkNo, after, log>>
  BY <1>0 DEF RemotePut, TypeOK
<1>7. InOrderOnce' BY <1>6 DEF IInv, InOrderOnce
<1>8. Modes' BY <1>0, <1>6 DEF IInv, Modes, Sending
<1>9. Answering'
  <2>1. CASE p = "client"
    <3>1. o = "server" BY <2>1 DEF Other
    <3> QED BY <1>6, <3>1 DEF IInv, Answering, Serving
  <2>2. CASE p = "server"
    BY <1>6, <2>2, DirectionTypes DEF Answering, Serving
  <2> QED BY <2>1, <2>2 DEF Peer
<1>10. DirectionTo(p)'
  <2>1. Sending(o)' = Sending(o) BY <1>6 DEF Sending
  <2>2. Direction(rest, Last(log[p]), ReceiveBlkNo[p], cur[o], SendBlkNo[o] % Wire, Sending(o))
    BY <1>4, DirectionRest
  <2> QED BY <1>5, <1>6, <2>1, <2>2 DEF DirectionTo
<1>11. DirectionTo(o)'
  <2>1. Sending(p)' = TRUE BY <1>6 DEF Sending
  <2>2. Direction(wire[o], Last(log[o]), ReceiveBlkNo[o], cur[p], SendBlkNo[p] % Wire, Sending(p))
    BY <1>0 DEF IInv, DirectionTo
  <2>3. cur[p] \in Nat BY DirectionTypes
  <2>4. Direction(wire'[o], Last(log[o]), ReceiveBlkNo[o], id, SendBlkNo[p] % Wire, TRUE)
    <3>1. cur[p] <= b.id /\ (cur[p] = b.id => Sending(p)) BY <1>2, <2>3
    <3>2. Direction(wire[o] \o <<Frame(b)>>, Last(log[o]), ReceiveBlkNo[o],
                    b.id, SendBlkNo[p] % Wire, TRUE)
      BY <1>2, <1>3, <2>2, <3>1, DirectionSent
    <3> QED BY <1>2, <1>5, <3>2
  <2> QED BY <1>0, <1>6, <2>1, <2>4 DEF DirectionTo
<1> QED BY <1>0, <1>5, <1>7, <1>8, <1>9, <1>10, <1>11

LEMMA AckStep ==
    ASSUME IInv, NEW p \in Peer, PutAck(p)
    PROVE  /\ wire' \in [Peer -> Seq(Message)]
           /\ InOrderOnce' /\ Modes' /\ Answering'
           /\ \A q \in Peer : DirectionTo(q)'
<1> DEFINE o == Other(p)
<1>0. TypeOK /\ p \in Peer /\ o \in Peer /\ o # p /\ Other(o) = p /\ Peer = {p, o}
  BY PeerFacts DEF IInv
<1>1. Exchange(p, Tail(wire[p]), <<>>) /\ wire[p] # <<>> BY DEF PutAck
<1>2. wire[p] \in Seq(Message) /\ wire[o] \in Seq(Message) BY <1>0 DEF TypeOK
<1>3. Thin(Tail(wire[p]), wire[p]) BY <1>1, <1>2, ThinTail
<1>4. /\ wire' \in [Peer -> Seq(Message)]
      /\ wire'[p] = Tail(wire[p]) /\ wire'[o] = wire[o]
  <2>1. Tail(wire[p]) \in Seq(Message) /\ <<>> \in Seq(Message) BY <1>3 DEF Thin
  <2>2. wire[o] \o <<>> = wire[o] BY <1>2, ConcatEmptySeq
  <2> QED BY <1>0, <1>1, <2>1, <2>2, ExchangeWire DEF TypeOK
<1>5. AfterPut(p, TRUE) \in {"idle", "get"} BY DEF AfterPut
<1>6. /\ mode'[p] \in {"idle", "get", "resync"} /\ mode'[o] = mode[o]
      /\ after'[p] \in {"idle", "get"} /\ after'[o] = after[o]
      /\ SendBlkNo'[o] = SendBlkNo[o]
      /\ UNCHANGED <<ReceiveBlkNo, cur, log>>
  BY <1>0, <1>5 DEF PutAck, TypeOK
<1>7. InOrderOnce' BY <1>6 DEF IInv, InOrderOnce
<1>8. Modes' BY <1>0, <1>6 DEF IInv, Modes, Sending
<1>9. Answering'
  <2>1. Serving' => Serving BY <1>0, <1>6 DEF Serving, Peer
  <2> QED BY <1>6, <2>1 DEF IInv, Answering
<1>10. DirectionTo(p)'
  <2>1. Sending(o)' = Sending(o) BY <1>6 DEF Sending
  <2>2. Direction(Tail(wire[p]), Last(log[p]), ReceiveBlkNo[p],
                  cur[o], SendBlkNo[o] % Wire, Sending(o))
    BY <1>3, DirectionRest
  <2> QED BY <1>4, <1>6, <2>1, <2>2 DEF DirectionTo
<1>11. DirectionTo(o)'
  <2>1. Sending(p)' = FALSE BY <1>6 DEF Sending
  <2>2. Direction(wire[o], Last(log[o]), ReceiveBlkNo[o], cur[p], SendBlkNo[p] % Wire, Sending(p))
    BY <1>0 DEF IInv, DirectionTo
  <2>3. Direction(wire[o], Last(log[o]), ReceiveBlkNo[o], cur[p], SendBlkNo'[p] % Wire, FALSE)
    BY <2>2, DirectionStop
  <2> QED BY <1>0, <1>4, <1>6, <2>1, <2>3 DEF DirectionTo
<1> QED BY <1>0, <1>4, <1>7, <1>8, <1>9, <1>10, <1>11

LEMMA ResendStep ==
    ASSUME IInv, NEW p \in Peer, PutNak(p) \/ PutRlr(p)
    PROVE  /\ wire' \in [Peer -> Seq(Message)]
           /\ InOrderOnce' /\ Modes' /\ Answering'
           /\ \A q \in Peer : DirectionTo(q)'
<1> DEFINE o == Other(p)
<1>0. TypeOK /\ p \in Peer /\ o \in Peer /\ o # p /\ Other(o) = p /\ Peer = {p, o}
  BY PeerFacts DEF IInv
<1>1. wire[p] # <<>> /\ Sending(p) /\ cur[p] \in 1..MaxPut
  <2>1. wire[p] # <<>> /\ mode[p] = "put" BY DEF PutNak, PutRlr
  <2>2. cur[p] >= 1 BY <2>1 DEF IInv, Modes, Sending
  <2>3. cur[p] \in 0..MaxPut BY <1>0 DEF TypeOK
  <2> QED BY <2>1, <2>2, <2>3, BoundAssumption DEF Sending
<1>2. PICK b \in Block : /\ Outgoing(p) = Frame(b)
                         /\ b.id = cur[p] /\ b.no = SendBlkNo[p] % Wire
                         /\ Frame(b) \in Message
  <2>1. PrevErrors[p] \in 0..(MAX_ERRORS + 1) /\ want[p] \in BOOLEAN BY <1>0 DEF TypeOK
  <2>2. \E b \in Block : /\ NewBlock(p, cur[p], PrevErrors[p], want[p]) = Frame(b)
                         /\ b.id = cur[p] /\ b.no = SendBlkNo[p] % Wire
                         /\ Frame(b) \in Message
    BY <1>0, <1>1, <2>1, NewBlockMessage
  <2> QED BY <2>2 DEF Outgoing
<1> DEFINE k == Byte(LastResponse[p])
<1>3. k \in Message /\ k.kind # "BLK"
  <2>1. LastResponse[p] \in Ctl BY <1>0 DEF TypeOK, Response, Ctl
  <2> QED BY <2>1, ByteMessage
<1>4. wire[p] \in Seq(Message) /\ wire[o] \in Seq(Message) BY <1>0 DEF TypeOK
<1>5. Thin(Tail(wire[p]), wire[p]) BY <1>1, <1>4, ThinTail
<1>6. PICK w \in Seq(Message) :
          /\ Direction(w, Last(log[o]), ReceiveBlkNo[o],
                       cur[p], SendBlkNo[p] % Wire, Sending(p))
          /\ wire' \in [Peer -> Seq(Message)]
          /\ wire'[p] = Tail(wire[p]) /\ wire'[o] = w \o <<Frame(b)>>
  <2>1. Tail(wire[p]) \in Seq(Message) BY <1>5 DEF Thin
  <2>2. CASE PutNak(p)
    <3>1. Direction(wire[o], Last(log[o]), ReceiveBlkNo[o],
                    cur[p], SendBlkNo[p] % Wire, Sending(p))
      BY <1>0 DEF IInv, DirectionTo
    <3>2. Exchange(p, Tail(wire[p]), <<Frame(b)>>) BY <1>2, <2>2 DEF PutNak
    <3>3. <<Frame(b)>> \in Seq(Message) BY <1>2
    <3> QED BY <1>0, <1>4, <2>1, <3>1, <3>2, <3>3, ExchangeWire DEF TypeOK
  <2>3. CASE PutRlr(p)
    <3>1. Direction(wire[o] \o <<k>>, Last(log[o]), ReceiveBlkNo[o],
                    cur[p], SendBlkNo[p] % Wire, Sending(p))
      BY <1>3, DirectionOut
    <3>2. Exchange(p, Tail(wire[p]), <<k, Frame(b)>>) BY <1>2, <2>3 DEF PutRlr
    <3> DEFINE f == Frame(b)
    <3>3. <<k>> \in Seq(Message) /\ <<f>> \in Seq(Message) /\ <<k, f>> \in Seq(Message)
          /\ <<k, f>> = <<k>> \o <<f>>
      <4>1. k \in Message /\ f \in Message BY <1>2, <1>3
      <4> HIDE DEF k, f
      <4> QED BY <4>1
    <3>4. wire[o] \o <<k>> \in Seq(Message) BY <1>4, <3>3, ConcatProperties
    <3>5. /\ wire' \in [Peer -> Seq(Message)]
          /\ wire'[p] = Tail(wire[p]) /\ wire'[o] = wire[o] \o <<k, f>>
      BY <1>0, <2>1, <3>2, <3>3, ExchangeWire DEF TypeOK
    <3>6. wire[o] \o <<k, f>> = (wire[o] \o <<k>>) \o <<f>>
      BY <1>4, <3>3, ConcatAssociative
    <3> QED BY <3>1, <3>4, <3>5, <3>6
  <2> QED BY <2>2, <2>3
<1>7. UNCHANGED <<mode, SendBlkNo, ReceiveBlkNo, after, cur, log>>
  BY DEF PutNak, PutRlr
<1>8. InOrderOnce' /\ Modes' /\ Answering'
  BY <1>7 DEF IInv, InOrderOnce, Modes, Sending, Answering, Serving
<1>9. DirectionTo(p)'
  <2>1. Direction(Tail(wire[p]), Last(log[p]), ReceiveBlkNo[p],
                  cur[o], SendBlkNo[o] % Wire, Sending(o))
    BY <1>5, DirectionRest
  <2> QED BY <1>6, <1>7, <2>1 DEF DirectionTo, Sending
<1>10. DirectionTo(o)'
  <2>1. cur[p] <= b.id /\ (cur[p] = b.id => Sending(p)) BY <1>1, <1>2
  <2>2. Direction(w \o <<Frame(b)>>, Last(log[o]), ReceiveBlkNo[o],
                  b.id, SendBlkNo[p] % Wire, TRUE)
    BY <1>2, <1>6, <2>1, DirectionSent
  <2>3. Sending(p)' = TRUE BY <1>1, <1>7 DEF Sending
  <2> QED BY <1>0, <1>2, <1>6, <1>7, <2>2, <2>3 DEF DirectionTo
<1> QED BY <1>0, <1>6, <1>8, <1>9, <1>10

\* The block a side takes is newer than the one it took before.
LEMMA TakeNewer ==
    ASSUME IInv, NEW p \in Peer, GetBlock(p)
    PROVE  /\ Last(log[p]) < Head(wire[p]).blk.id
           /\ Head(wire[p]).blk.id <= cur[Other(p)]
           /\ Direction(Tail(wire[p]), Head(wire[p]).blk.id, NextNo(ReceiveBlkNo[p]),
                        cur[Other(p)], SendBlkNo[Other(p)] % Wire, Sending(Other(p)))
<1> DEFINE w == wire[p]
           l == Last(log[p])
           n == SendBlkNo[Other(p)] % Wire
           r == ReceiveBlkNo[p]
           c == cur[Other(p)]
           s == Sending(Other(p))
<1>1. w # <<>> /\ Head(w).kind = "BLK" /\ Head(w).blk.no = r
  BY DEF GetBlock, Expected
<1>2. Direction(w, l, r, c, n, s) BY DEF IInv, DirectionTo
<1>3. /\ l \in Nat /\ r \in 0..(UInt - 1) /\ c \in Nat /\ n \in Nat
      /\ s \in BOOLEAN /\ w \in Seq(Message)
  BY DirectionTypes
<1> HIDE DEF w, l, r, c, n, s
<1>4. /\ l < Head(w).blk.id /\ Head(w).blk.id <= c
      /\ Direction(Tail(w), Head(w).blk.id, NextNo(r), c, n, s)
  BY ONLY <1>1, <1>2, <1>3, DirectionTake
<1> QED BY <1>4 DEF w, l, r, c, n, s

LEMMA TakeStep ==
    ASSUME IInv, NEW p \in Peer, GetBlock(p)
    PROVE  /\ wire' \in [Peer -> Seq(Message)]
           /\ log' \in [Peer -> Seq(1..MaxPut)]
           /\ InOrderOnce' /\ Modes' /\ Answering'
           /\ \A q \in Peer : DirectionTo(q)'
<1> DEFINE o == Other(p)
           w == wire[p]
           b == Head(w).blk
<1>0. TypeOK /\ p \in Peer /\ o \in Peer /\ o # p /\ Other(o) = p /\ Peer = {p, o}
  BY PeerFacts DEF IInv
<1>1. /\ w # <<>> /\ Head(w).kind = "BLK" /\ b.no = ReceiveBlkNo[p] /\ mode[p] = "get"
      /\ Exchange(p, Tail(w), <<Byte("ACK")>>)
      /\ log' = [log EXCEPT ![p] = Append(@, b.id)]
      /\ ReceiveBlkNo' = [ReceiveBlkNo EXCEPT ![p] = NextNo(@)]
      /\ after' = [after EXCEPT ![p] = AfterGet(p)]
      /\ mode' = [mode EXCEPT ![p] =
                      IF b.err > MAX_ERRORS THEN "resync" ELSE AfterGet(p)]
      /\ UNCHANGED <<SendBlkNo, cur>>
  BY DEF GetBlock, Expected
<1>2. w \in Seq(Message) /\ wire[o] \in Seq(Message) BY <1>0 DEF TypeOK
<1>3. b \in Block
  <2>1. Head(w) \in Message BY <1>1, <1>2, HeadTailProperties
  <2> QED BY <1>1, <2>1, MessageBlock
<1> DEFINE l == Last(log[p])
           n == SendBlkNo[o] % Wire
<1>4. /\ l < b.id /\ b.id <= cur[o]
      /\ Direction(Tail(w), b.id, NextNo(ReceiveBlkNo[p]), cur[o], n, Sending(o))
  BY TakeNewer
<1>5. /\ wire' \in [Peer -> Seq(Message)]
      /\ wire'[p] = Tail(w) /\ wire'[o] = wire[o] \o <<Byte("ACK")>>
  <2>1. Tail(w) \in Seq(Message) BY <1>1, <1>2, HeadTailProperties
  <2>2. <<Byte("ACK")>> \in Seq(Message) BY ByteMessage DEF Ctl
  <2> QED BY <1>0, <1>1, <2>1, <2>2, ExchangeWire DEF TypeOK
<1>6. b.id \in 1..MaxPut BY <1>3 DEF Block
<1>7. /\ log' \in [Peer -> Seq(1..MaxPut)]
      /\ log'[p] = Append(log[p], b.id) /\ log'[o] = log[o]
      /\ Last(log'[p]) = b.id
  <2>1. log[p] \in Seq(1..MaxPut) /\ log \in [Peer -> Seq(1..MaxPut)] BY <1>0 DEF TypeOK
  <2>2. Append(log[p], b.id) \in Seq(1..MaxPut) BY <1>6, <2>1, AppendProperties
  <2>3. Last(Append(log[p], b.id)) = b.id BY <1>6, <2>1, LastFacts
  <2> HIDE DEF b
  <2> QED BY <1>0, <1>1, <2>1, <2>2, <2>3
<1>8. /\ mode'[p] \in {"idle", "busy", "resync"} /\ mode'[o] = mode[o]
      /\ after'[p] \in {"idle", "busy"} /\ after'[o] = after[o]
      /\ ReceiveBlkNo'[p] = NextNo(ReceiveBlkNo[p]) /\ ReceiveBlkNo'[o] = ReceiveBlkNo[o]
  <2>1. AfterGet(p) \in {"idle", "busy"} BY DEF AfterGet
  <2> HIDE DEF b
  <2> QED BY <1>0, <1>1, <2>1 DEF TypeOK
<1> HIDE DEF b, w
<1>9. InOrderOnce'
  <2>1. ASSUME NEW i \in DOMAIN log'[p], NEW j \in DOMAIN log'[p], i < j
        PROVE  log'[p][i] < log'[p][j]
    <3>1. /\ log[p] \in Seq(1..MaxPut) /\ Len(log[p]) \in Nat
          /\ DOMAIN log[p] = 1..Len(log[p])
          /\ DOMAIN log'[p] = 1..(Len(log[p]) + 1)
          /\ \A k \in 1..Len(log[p]) : log'[p][k] = log[p][k]
          /\ log'[p][Len(log[p]) + 1] = b.id
      <4>1. log[p] \in Seq(1..MaxPut) BY <1>0 DEF TypeOK
      <4> QED BY <1>6, <1>7, <4>1, AppendProperties, LenProperties
    <3>2. CASE j <= Len(log[p])
      BY <1>0, <2>1, <3>1, <3>2 DEF IInv, InOrderOnce
    <3>3. CASE j = Len(log[p]) + 1
      <4>1. i \in DOMAIN log[p] /\ log'[p][i] = log[p][i] BY <2>1, <3>1, <3>3
      <4>2. log[p][i] <= l
        <5>1. l = log[p][Len(log[p])] /\ Len(log[p]) \in DOMAIN log[p]
          BY <3>1, <4>1, EmptySeq DEF Last
        <5>2. log[p][i] \in Nat
          <6>1. i \in 1..Len(log[p]) BY <3>1, <4>1
          <6>2. log[p][i] \in 1..MaxPut BY <3>1, <6>1, ElementOfSeq
          <6> QED BY <6>2
        <5>3. i < Len(log[p]) => log[p][i] < log[p][Len(log[p])]
          BY <4>1, <5>1 DEF IInv, InOrderOnce
        <5>4. log[p][Len(log[p])] \in Nat BY <5>1, DirectionTypes
        <5>5. CASE i < Len(log[p]) BY <5>1, <5>2, <5>3, <5>4, <5>5
        <5>6. CASE i = Len(log[p]) BY <5>1, <5>4, <5>6
        <5> QED BY <3>1, <4>1, <5>5, <5>6
      <4>3. log[p][i] \in Nat /\ l \in Nat
        <5>1. i \in 1..Len(log[p]) BY <3>1, <4>1
        <5>2. log[p][i] \in 1..MaxPut BY <3>1, <5>1, ElementOfSeq
        <5>3. l \in Nat BY DirectionTypes
        <5> QED BY <5>2, <5>3
      <4> HIDE DEF l
      <4> QED BY <1>4, <1>6, <3>1, <3>3, <4>1, <4>2, <4>3
    <3> QED BY <2>1, <3>1, <3>2, <3>3
  <2>2. ASSUME NEW i \in DOMAIN log'[o], NEW j \in DOMAIN log'[o], i < j
        PROVE  log'[o][i] < log'[o][j]
    BY <1>0, <1>7, <2>2 DEF IInv, InOrderOnce
  <2> QED BY <1>0, <2>1, <2>2 DEF InOrderOnce
<1>10. Modes' BY <1>0, <1>1, <1>8 DEF IInv, Modes, Sending
<1>11. Answering'
  <2>1. CASE p = "client"
    <3>1. o = "server" BY <2>1 DEF Other
    <3> QED BY <1>1, <1>7, <1>8, <3>1 DEF IInv, Answering, Serving
  <2>2. CASE p = "server"
    <3>1. cur["server"] <= l /\ cur["server"] \in Nat /\ l \in Nat
      BY <2>2, DirectionTypes DEF IInv, Answering
    <3>2. cur'["server"] = cur["server"] /\ Last(log'["server"]) = b.id
      BY <1>1, <1>7, <2>2
    <3> HIDE DEF l
    <3> QED BY <1>4, <1>6, <3>1, <3>2 DEF Answering
  <2> QED BY <2>1, <2>2 DEF Peer
<1>12. DirectionTo(p)'
  <2>1. Sending(o)' = Sending(o) BY <1>8 DEF Sending
  <2> QED BY <1>1, <1>4, <1>5, <1>7, <1>8, <2>1 DEF DirectionTo
<1>13. DirectionTo(o)'
  <2>1. Sending(p)' = FALSE /\ Sending(p) = FALSE BY <1>1, <1>8 DEF Sending
  <2>2. Byte("ACK") \in Message /\ Byte("ACK").kind # "BLK" BY ByteMessage DEF Ctl
  <2>3. Direction(wire[o] \o <<Byte("ACK")>>, Last(log[o]), ReceiveBlkNo[o],
                  cur[p], SendBlkNo[p] % Wire, Sending(p))
    BY <2>2, DirectionOut
  <2> QED BY <1>0, <1>1, <1>5, <1>7, <1>8, <2>1, <2>3 DEF DirectionTo
<1> QED BY <1>0, <1>5, <1>7, <1>9, <1>10, <1>11, <1>12, <1>13

LEMMA ReSyncStep ==
    ASSUME IInv, ReSync
    PROVE  /\ wire' \in [Peer -> Seq(Message)]
           /\ InOrderOnce' /\ Modes' /\ Answering'
           /\ \A q \in Peer : DirectionTo(q)'
<1>1. /\ mode' = after /\ wire' = [p \in Peer |-> <<>>]
      /\ \A p \in Peer : mode[p] = "resync"
      /\ UNCHANGED <<SendBlkNo, ReceiveBlkNo, after, cur, log>>
  BY DEF ReSync, link
<1>2. wire' \in [Peer -> Seq(Message)] BY <1>1, EmptySeq
<1>3. InOrderOnce' BY <1>1 DEF IInv, InOrderOnce
<1>4. \A p \in Peer : after[p] \in {"idle", "get", "busy"} BY DEF IInv, Modes
<1>5. Modes' BY <1>1, <1>4 DEF Modes, Sending
<1>6. Answering'
  <2>1. Serving' => Serving BY <1>1, <1>4 DEF Serving, Peer
  <2> QED BY <1>1, <2>1 DEF IInv, Answering
<1>7. ASSUME NEW q \in Peer PROVE DirectionTo(q)'
  <2>1. wire[q] \in Seq(Message) BY DirectionTypes
  <2>2. Direction(<<>>, Last(log[q]), ReceiveBlkNo[q],
                  cur[Other(q)], SendBlkNo[Other(q)] % Wire, Sending(Other(q)))
    BY <2>1, ThinEmpty, DirectionRest
  <2>3. Direction(<<>>, Last(log[q]), ReceiveBlkNo[q],
                  cur[Other(q)], SendBlkNo[Other(q)] % Wire, FALSE)
    BY <2>2, DirectionStop
  <2>4. Sending(Other(q))' = FALSE BY <1>1, <1>4, PeerFacts DEF Sending
  <2> QED BY <1>1, <2>3, <2>4 DEF DirectionTo
<1> QED BY <1>2, <1>3, <1>5, <1>6, <1>7

LEMMA FaultStep ==
    ASSUME IInv, Fault
    PROVE  /\ wire' \in [Peer -> Seq(Message)]
           /\ InOrderOnce' /\ Modes' /\ Answering'
           /\ \A q \in Peer : DirectionTo(q)'
<1>1. UNCHANGED <<mode, SendBlkNo, ReceiveBlkNo, after, cur, log>> BY DEF Fault, link
<1>2. wire \in [Peer -> Seq(Message)] BY DEF IInv, TypeOK
<1>3a. PICK p \in Peer : \E i \in DOMAIN wire[p] : Lose(p, i) \/ Damage(p, i) BY DEF Fault
<1>3. PICK i \in DOMAIN wire[p] : Lose(p, i) \/ Damage(p, i) BY <1>3a
<1>4. wire[p] \in Seq(Message) /\ i \in 1..Len(wire[p]) BY <1>2, <1>3
<1>5. \E t : Thin(t, wire[p]) /\ wire' = [wire EXCEPT ![p] = t]
  <2>1. CASE Lose(p, i) BY <1>4, <2>1, ThinLose DEF Lose
  <2>2. CASE Damage(p, i)
    <3>1. PICK n \in 1..MaxJunk :
              wire' = [wire EXCEPT ![p] = SubSeq(@, 1, i - 1) \o [k \in 1..n |-> Junk]
                                          \o SubSeq(@, i + 1, Len(@))]
      BY <2>2 DEF Damage
    <3> DEFINE u == [k \in 1..n |-> Junk]
    <3>2. u \in Seq(Message) /\ \A k \in DOMAIN u : u[k].kind # "BLK"
      <4>1. n \in Nat OBVIOUS
      <4>2. u \in [1..n -> Message] BY JunkMessage
      <4> QED BY <4>1, <4>2, JunkMessage, SeqDef
    <3> HIDE DEF u
    <3>3. Thin(SubSeq(wire[p], 1, i - 1) \o u \o SubSeq(wire[p], i + 1, Len(wire[p])), wire[p])
      BY <1>4, <3>2, ThinSplice
    <3> QED BY <1>2, <3>1, <3>3 DEF u
  <2> QED BY <1>3, <2>1, <2>2
<1>6. ASSUME NEW q \in Peer
      PROVE  Thin(wire'[q], wire[q])
  BY <1>2, <1>5, ThinSame
<1>7. wire' \in [Peer -> Seq(Message)]
  <2>1. PICK t : Thin(t, wire[p]) /\ wire' = [wire EXCEPT ![p] = t] BY <1>5
  <2> QED BY <1>2, <2>1 DEF Thin
<1>8. InOrderOnce' /\ Modes' /\ Answering'
  BY <1>1 DEF IInv, InOrderOnce, Modes, Sending, Answering, Serving
<1>9. ASSUME NEW q \in Peer PROVE DirectionTo(q)'
  <2>1. Direction(wire'[q], Last(log[q]), ReceiveBlkNo[q],
                  cur[Other(q)], SendBlkNo[Other(q)] % Wire, Sending(Other(q)))
    BY <1>6, DirectionRest
  <2> QED BY <1>1, <2>1 DEF DirectionTo, Sending
<1> QED BY <1>7, <1>8, <1>9

-----------------------------------------------------------------------------
(* The invariant is inductive.                                             *)

LEMMA Safety ==
    ASSUME IInv, Next
    PROVE  /\ wire' \in [Peer -> Seq(Message)]
           /\ log' \in [Peer -> Seq(1..MaxPut)]
           /\ InOrderOnce' /\ Modes' /\ Answering'
           /\ \A q \in Peer : DirectionTo(q)'
<1>0. TypeOK /\ log \in [Peer -> Seq(1..MaxPut)] BY DEF IInv, TypeOK
<1>1. ASSUME NEW p \in Peer, Quiet(p)
      PROVE  /\ wire' \in [Peer -> Seq(Message)]
             /\ log' \in [Peer -> Seq(1..MaxPut)]
             /\ InOrderOnce' /\ Modes' /\ Answering'
             /\ \A q \in Peer : DirectionTo(q)'
  <2>1. log' = log BY <1>1 DEF Quiet
  <2> QED BY <1>0, <1>1, <2>1, QuietStep
<1>2. CASE Request
  <2>1. PICK wanted \in BOOLEAN : RemotePut("client", cur["client"] + 1, wanted)
    BY <1>2 DEF Request
  <2>2. cur["client"] \in 0..MaxPut /\ cur["client"] < MaxPut /\ "client" \in Peer
    BY <1>0, <1>2 DEF Request, TypeOK, Peer
  <2>3. cur["client"] + 1 \in 1..MaxPut /\ cur["client"] < cur["client"] + 1
    BY <2>2, BoundAssumption
  <2>4. log' = log BY <2>1 DEF RemotePut
  <2> QED BY <1>0, <2>1, <2>2, <2>3, <2>4, PutStep
<1>3. CASE Reply
  <2>1. RemotePut("server", Last(log["server"]), TRUE) /\ mode["server"] = "busy"
    BY <1>3 DEF Reply
  <2>2. cur["server"] < Last(log["server"]) BY <2>1 DEF IInv, Answering, Serving
  <2>3. "server" \in Peer BY DEF Peer
  <2>4. Last(log["server"]) \in 1..MaxPut
    <3>1. cur["server"] \in Nat /\ Last(log["server"]) \in 0..MaxPut
      BY <2>3, DirectionTypes
    <3> QED BY <2>2, <3>1, BoundAssumption
  <2>5. log' = log BY <2>1 DEF RemotePut
  <2> QED BY <1>0, <2>1, <2>2, <2>3, <2>4, <2>5, PutStep
<1>4. CASE NoReply \/ ReSyncHi
  <2>1. Quiet("server") \/ Quiet("client") BY <1>0, <1>4, QuietActions DEF Peer
  <2> QED BY <1>1, <2>1 DEF Peer
<1>5. CASE ReSync
  <2>1. log' = log BY <1>5 DEF ReSync
  <2> QED BY <1>0, <1>5, <2>1, ReSyncStep
<1>6. CASE Fault
  <2>1. log' = log BY <1>6 DEF Fault
  <2> QED BY <1>0, <1>6, <2>1, FaultStep
<1>7. ASSUME NEW p \in Peer, BlockSend(p)
      PROVE  /\ wire' \in [Peer -> Seq(Message)]
             /\ log' \in [Peer -> Seq(1..MaxPut)]
             /\ InOrderOnce' /\ Modes' /\ Answering'
             /\ \A q \in Peer : DirectionTo(q)'
  <2>1. CASE PutAck(p)
    <3>1. log' = log BY <2>1 DEF PutAck
    <3> QED BY <1>0, <2>1, <3>1, AckStep
  <2>2. CASE PutNak(p) \/ PutRlr(p)
    <3>1. log' = log BY <2>2 DEF PutNak, PutRlr
    <3> QED BY <1>0, <2>2, <3>1, ResendStep
  <2>3. CASE PutOther(p) \/ Discard(p) \/ Discarded(p) \/ PutSilence(p) \/ PutTimeout(p)
    BY <1>0, <1>1, <2>3, QuietActions
  <2> QED BY <1>7, <2>1, <2>2, <2>3 DEF BlockSend
<1>8. ASSUME NEW p \in Peer, WaitReceive(p) \/ ReSyncRead(p)
      PROVE  /\ wire' \in [Peer -> Seq(Message)]
             /\ log' \in [Peer -> Seq(1..MaxPut)]
             /\ InOrderOnce' /\ Modes' /\ Answering'
             /\ \A q \in Peer : DirectionTo(q)'
  <2>1. CASE GetBlock(p) BY <2>1, TakeStep
  <2>2. CASE \/ GetWrongNumber(p) \/ GetDamaged(p) \/ GetTooLong(p)
             \/ GetRlr(p) \/ GetOther(p) \/ ReSyncRead(p)
    BY <1>0, <1>1, <2>2, QuietActions
  <2> QED BY <1>8, <2>1, <2>2 DEF WaitReceive
<1> QED BY <1>2, <1>3, <1>4, <1>5, <1>6, <1>7, <1>8 DEF Next, Carry

LEMMA Typing ==
    ASSUME TypeOK, Next, wire' \in [Peer -> Seq(Message)], log' \in [Peer -> Seq(1..MaxPut)],
           \A p \in Peer : /\ after[p] \in {"idle", "get", "busy"}
                           /\ cur[p] \in 1..MaxPut \/ ~Sending(p),
           Last(log["server"]) \in 0..MaxPut
    PROVE  TypeOK'
<1>1. ASSUME NEW p \in Peer, NEW id \in 0..MaxPut, NEW wanted \in BOOLEAN,
             RemotePut(p, id, wanted), faults' \in 0..MaxFault
      PROVE  TypeOK'
  <2>1. 0 \in 0..(MAX_ERRORS + 1) /\ 0 \in 0..MaxTries BY BoundAssumption
  <2>2. /\ Errors' \in [Peer -> 0..(MAX_ERRORS + 1)]
        /\ PrevErrors' \in [Peer -> 0..(MAX_ERRORS + 1)]
        /\ tries' \in [Peer -> 0..MaxTries]
    BY <1>1, <2>1 DEF RemotePut, TypeOK
  <2>3. cur' \in [Peer -> 0..MaxPut] /\ want' \in [Peer -> BOOLEAN]
    BY <1>1 DEF RemotePut, TypeOK
  <2>4. mode' \in [Peer -> Mode] BY <1>1 DEF RemotePut, TypeOK, Mode
  <2> QED BY <1>1, <2>2, <2>3, <2>4 DEF RemotePut, TypeOK
<1>2. CASE Request
  <2>1. PICK wanted \in BOOLEAN : RemotePut("client", cur["client"] + 1, wanted)
    BY <1>2 DEF Request
  <2>2. cur["client"] + 1 \in 0..MaxPut /\ "client" \in Peer
    <3>1. cur["client"] \in 0..MaxPut /\ cur["client"] < MaxPut
      BY <1>2 DEF Request, TypeOK, Peer
    <3> QED BY <3>1, BoundAssumption DEF Peer
  <2>3. faults' \in 0..MaxFault BY <1>2, BoundAssumption DEF Request, TypeOK
  <2> QED BY <1>1, <2>1, <2>2, <2>3
<1>3. CASE Reply BY <1>1, <1>3 DEF Reply, TypeOK, Peer
<1>4. CASE NoReply BY <1>4 DEF NoReply, TypeOK, link, Mode, Peer
<1>5. CASE ReSync
  <2>1. mode' \in [Peer -> Mode] BY <1>5 DEF ReSync, TypeOK
  <2> QED BY <1>5, <2>1 DEF ReSync, TypeOK, link
<1>6. CASE ReSyncHi BY <1>6 DEF ReSyncHi, TypeOK, link
<1>7. CASE Fault
  <2>1. faults' \in 0..MaxFault BY <1>7, BoundAssumption DEF Fault, TypeOK
  <2> QED BY <1>7, <2>1 DEF Fault, TypeOK, link
<1>8. ASSUME NEW p \in Peer, BlockSend(p) PROVE TypeOK'
  <2>0. /\ SendBlkNo[p] \in 0..(UInt - 1) /\ Errors[p] \in 0..(MAX_ERRORS + 1)
        /\ tries[p] \in 0..MaxTries
    BY DEF TypeOK
  <2>2. /\ OneMore(Errors[p]) \in 0..(MAX_ERRORS + 1)
        /\ NextNo(SendBlkNo[p]) \in 0..(UInt - 1)
    BY <2>0, Counts
  <2>9. 0 \in 0..MaxTries BY BoundAssumption
  <2>1. CASE PutAck(p)
    <3>1. AfterPut(p, TRUE) \in Mode BY DEF AfterPut, Mode
    <3>3. SendBlkNo' \in [Peer -> 0..(UInt - 1)] BY <2>1, <2>2 DEF PutAck, TypeOK
    <3>4. cur[p] \in 1..MaxPut BY <2>1 DEF PutAck, Sending
    <3>5. acked' \in [Peer -> SUBSET (1..MaxPut)] BY <2>1, <3>4 DEF PutAck, TypeOK
    <3>6. mode' \in [Peer -> Mode] /\ after' \in [Peer -> Mode]
      BY <2>1, <3>1 DEF PutAck, TypeOK, Mode
    <3> QED BY <2>1, <3>3, <3>5, <3>6 DEF PutAck, TypeOK
  <2>3. CASE PutNak(p) BY <2>2, <2>3, <2>9 DEF PutNak, TypeOK
  <2>4. CASE PutRlr(p) BY <2>4, <2>9 DEF PutRlr, TypeOK
  <2>5. CASE PutOther(p) \/ Discard(p)
    BY <2>5 DEF PutOther, Discard, TypeOK, link, Mode
  <2>6. CASE Discarded(p)
    <3>1. tries' \in [Peer -> 0..MaxTries] 
      <4>1. (IF tries[p] < MaxTries THEN tries[p] + 1 ELSE tries[p]) \in 0..MaxTries
        BY <2>0, BoundAssumption
      <4> QED BY <2>6, <4>1 DEF Discarded, TypeOK
    <3> QED BY <2>2, <2>6, <3>1 DEF Discarded, TypeOK, Mode
  <2>7. CASE PutSilence(p)
    <3>1. tries' \in [Peer -> 0..MaxTries] 
      <4>1. tries[p] + 1 \in 0..MaxTries BY <2>0, <2>7, BoundAssumption DEF PutSilence
      <4> QED BY <2>7, <4>1 DEF PutSilence, TypeOK
    <3> QED BY <2>2, <2>7, <3>1 DEF PutSilence, TypeOK
  <2>8. CASE PutTimeout(p)
    <3>1. AfterPut(p, FALSE) \in Mode BY DEF AfterPut, Mode
    <3>2. unheard' \in BOOLEAN BY <2>8 DEF PutTimeout, TypeOK
    <3> QED BY <2>8, <3>1, <3>2 DEF PutTimeout, TypeOK, link
  <2> QED BY <1>8, <2>1, <2>3, <2>4, <2>5, <2>6, <2>7, <2>8 DEF BlockSend
<1>9. ASSUME NEW p \in Peer, WaitReceive(p) PROVE TypeOK'
  <2>1. CASE GetBlock(p)
    <3> DEFINE b == Head(wire[p]).blk
    <3>1. b \in Block
      <4>1. wire[p] \in Seq(Message) /\ wire[p] # <<>> /\ Head(wire[p]).kind = "BLK"
        BY <2>1 DEF GetBlock, TypeOK
      <4>2. Head(wire[p]) \in Message BY <4>1, HeadTailProperties
      <4> QED BY <4>1, <4>2, MessageBlock
    <3>2. AfterGet(p) \in Mode BY DEF AfterGet, Mode
    <3>3. NextNo(ReceiveBlkNo[p]) \in 0..(UInt - 1)
      <4>1. ReceiveBlkNo[p] \in 0..(UInt - 1) BY DEF TypeOK
      <4> QED BY <4>1, NumberAssumption DEF NextNo
    <3>4. b.reply \in BOOLEAN BY <3>1 DEF Block
    <3> HIDE DEF b
    <3>5. /\ LastResponse' = [LastResponse EXCEPT ![p] = "ACK"]
          /\ ReceiveBlkNo' = [ReceiveBlkNo EXCEPT ![p] = NextNo(@)]
          /\ want' = IF p = "server" THEN [want EXCEPT ![p] = b.reply] ELSE want
          /\ after' = [after EXCEPT ![p] = AfterGet(p)]
          /\ mode' = [mode EXCEPT ![p] =
                          IF b.err > MAX_ERRORS THEN "resync" ELSE AfterGet(p)]
          /\ emptied' = [emptied EXCEPT ![p] =
                             @ \cup (IF b.err > MAX_ERRORS THEN {b.id} ELSE {})]
          /\ UNCHANGED <<SendBlkNo, Errors, PrevErrors, tries, cur, acked, unheard, faults>>
      BY <2>1 DEF GetBlock, Emptied, b
    <3>6. ReceiveBlkNo' \in [Peer -> 0..(UInt - 1)] BY <3>3, <3>5 DEF TypeOK
    <3>7. mode' \in [Peer -> Mode] /\ after' \in [Peer -> Mode]
      BY <3>2, <3>5 DEF TypeOK, Mode
    <3>8. want' \in [Peer -> BOOLEAN] BY <3>4, <3>5 DEF TypeOK
    <3>9. emptied' \in [Peer -> SUBSET (1..MaxPut)]
      <4>1. b.id \in 1..MaxPut BY <3>1 DEF b, Block
      <4> QED BY <3>5, <4>1 DEF TypeOK
    <3> QED BY <3>5, <3>6, <3>7, <3>8, <3>9 DEF TypeOK, Response
  <2>2. CASE GetWrongNumber(p) BY <2>2 DEF GetWrongNumber, TypeOK, Response
  <2>3. CASE GetDamaged(p) BY <2>3 DEF GetDamaged, TypeOK, Response
  <2>4. CASE GetTooLong(p) \/ GetRlr(p) \/ GetOther(p)
    BY <2>4 DEF GetTooLong, GetRlr, GetOther, TypeOK, link
  <2> QED BY <1>9, <2>1, <2>2, <2>3, <2>4 DEF WaitReceive
<1>10. ASSUME NEW p \in Peer, ReSyncRead(p) PROVE TypeOK'
  BY <1>10 DEF ReSyncRead, TypeOK, link
<1> QED BY <1>2, <1>3, <1>4, <1>5, <1>6, <1>7, <1>8, <1>9, <1>10 DEF Next, Carry

LEMMA InvInit == Init => IInv
<1> SUFFICES ASSUME Init PROVE IInv OBVIOUS
<1>1. \A p \in Peer : wire[p] = <<>> /\ log[p] = <<>> /\ cur[p] = 0 BY DEF Init
<1>2. TypeOK
  <2>1. <<>> \in Seq(Message) /\ <<>> \in Seq(1..MaxPut) OBVIOUS
  <2>2. /\ log \in [Peer -> Seq(1..MaxPut)] /\ emptied \in [Peer -> SUBSET (1..MaxPut)]
        /\ acked \in [Peer -> SUBSET (1..MaxPut)] /\ unheard \in BOOLEAN
    BY <2>1 DEF Init
  <2>3. mode \in [Peer -> Mode] /\ after \in [Peer -> Mode] BY DEF Init, Mode
  <2>4. wire \in [Peer -> Seq(Message)] BY <2>1 DEF Init
  <2> QED BY <2>2, <2>3, <2>4, NumberAssumption, BoundAssumption DEF Init, TypeOK, Response
<1>3. InOrderOnce /\ Modes /\ Answering
  BY <1>1, LastFacts DEF Init, InOrderOnce, Modes, Sending, Answering, Serving, Peer
<1>4. ASSUME NEW p \in Peer PROVE DirectionTo(p)
  <2>1. Sending(Other(p)) = FALSE BY PeerFacts DEF Init, Sending
  <2>2. Last(log[p]) = 0 /\ cur[Other(p)] = 0 /\ wire[p] = <<>>
    BY <1>1, LastFacts, PeerFacts
  <2> QED BY <2>1, <2>2 DEF DirectionTo, Direction
<1> QED BY <1>2, <1>3, <1>4 DEF IInv

LEMMA InvNext == IInv /\ [Next]_vars => IInv'
<1> SUFFICES ASSUME IInv, [Next]_vars PROVE IInv' OBVIOUS
<1>1. CASE Next
  <2>1. \A p \in Peer : /\ after[p] \in {"idle", "get", "busy"}
                        /\ cur[p] \in 1..MaxPut \/ ~Sending(p)
    BY BoundAssumption DEF IInv, Modes, TypeOK
  <2>2. Last(log["server"]) \in 0..MaxPut BY DirectionTypes DEF Peer
  <2>3. TypeOK' BY <1>1, <2>1, <2>2, Safety, Typing DEF IInv
  <2> QED BY <1>1, <2>3, Safety DEF IInv
<1>2. CASE UNCHANGED vars
  BY <1>2 DEF vars, link, IInv, TypeOK, InOrderOnce, Modes, Answering, Serving,
              Sending, DirectionTo
<1> QED BY <1>1, <1>2

THEOREM Invariance == Spec => []IInv
BY InvInit, InvNext, PTL DEF Spec

\* Every variable keeps its type: no counter leaves the range of its C type,
\* and no block is built that its header has no room for.
THEOREM TypeCorrect == Spec => []TypeOK
<1>1. IInv => TypeOK BY DEF IInv
<1> QED BY <1>1, Invariance, PTL

\* BlockReceive hands over each block at most once and in the order in which
\* they were put, for every width of the numbers, every error limit and every
\* number of faults.
THEOREM InOrder == Spec => []InOrderOnce
<1>1. IInv => InOrderOnce BY DEF IInv
<1> QED BY <1>1, Invariance, PTL

-----------------------------------------------------------------------------
(* SerLink implements the lossy channel.                                   *)

LEMMA ChannelInit == Init => Channel!Init
<1> SUFFICES ASSUME Init PROVE Channel!Init OBVIOUS
<1> DEFINE late(p) == PrevErrors[p] > MAX_ERRORS
<1>1. \A p \in Peer : late(p) = FALSE BY BoundAssumption DEF Init
<1>2. [p \in Peer |-> late(p)] = [p \in Peer |-> FALSE]
  <2> HIDE DEF late
  <2> QED BY <1>1
<1> QED BY <1>2 DEF Init, Channel!Init, Peer, Channel!Peer

\* Where the errors of the BlockSend before stay, so does what is due.
LEMMA DueSame ==
    ASSUME UNCHANGED <<cur, PrevErrors, log, emptied, acked, unheard>>
    PROVE  UNCHANGED Channel!vars
BY DEF Channel!vars

\* The put of a block, as a step of the channel.
LEMMA ChannelPuts ==
    ASSUME IInv, NEW p \in Peer, NEW id \in 1..MaxPut, cur[p] < id, NEW wanted,
           RemotePut(p, id, wanted)
    PROVE  Channel!Put(p, id)
<1> DEFINE due == [q \in Peer |-> PrevErrors[q] > MAX_ERRORS]
           late == Errors[p] > MAX_ERRORS
<1>1. cur[p] \in Nat BY DirectionTypes
<1>2. PrevErrors \in [Peer -> 0..(MAX_ERRORS + 1)] BY DEF IInv, TypeOK
<1>3. PrevErrors' = [PrevErrors EXCEPT ![p] = Errors[p]] BY DEF RemotePut
<1>4. late \in BOOLEAN OBVIOUS
<1>5. due' = [due EXCEPT ![p] = late]
  <2>1. \A q \in Peer : PrevErrors'[q] = IF q = p THEN Errors[p] ELSE PrevErrors[q]
    BY <1>2, <1>3
  <2>2. ASSUME NEW q \in Peer
        PROVE  (PrevErrors'[q] > MAX_ERRORS) = (IF q = p THEN late ELSE due[q])
    BY <2>1
  <2> HIDE DEF late
  <2>3. [due EXCEPT ![p] = late] = [q \in Peer |-> IF q = p THEN late ELSE due[q]]
    OBVIOUS
  <2>4. due' = [q \in Peer |-> PrevErrors'[q] > MAX_ERRORS] OBVIOUS
  <2> QED BY <2>2, <2>3, <2>4
<1> HIDE DEF due, late
<1>6. \E d \in BOOLEAN : due' = [due EXCEPT ![p] = d] BY <1>4, <1>5
<1>7. /\ cur' = [cur EXCEPT ![p] = id] /\ id > cur[p]
      /\ UNCHANGED <<log, emptied, acked, unheard>>
  BY <1>1 DEF RemotePut
<1> QED BY <1>6, <1>7 DEF Channel!Put, due

\* The taking of a block, as a step of the channel.
LEMMA ChannelTakes ==
    ASSUME IInv, NEW p \in Peer, GetBlock(p)
    PROVE  LET b == Head(wire[p]).blk IN
           /\ b \in Block
           /\ Channel!Take(p, b.id, b.err > MAX_ERRORS)
<1> DEFINE b == Head(wire[p]).blk
<1>1. Last(log[p]) < b.id /\ b.id <= cur[Other(p)] BY TakeNewer
<1>2. b \in Block
  <2>1. /\ wire[p] \in Seq(Message) /\ wire[p] # <<>>
        /\ Head(wire[p]).kind = "BLK"
    BY DEF GetBlock, IInv, TypeOK
  <2>2. Head(wire[p]) \in Message BY <2>1, HeadTailProperties
  <2> QED BY <2>1, <2>2, MessageBlock
<1>3. /\ log' = [log EXCEPT ![p] = Append(@, b.id)]
      /\ emptied' = [emptied EXCEPT ![p] =
                         @ \cup (IF b.err > MAX_ERRORS THEN {b.id} ELSE {})]
      /\ UNCHANGED <<cur, PrevErrors, acked, unheard>>
  BY DEF GetBlock, Emptied
<1> HIDE DEF b
<1>4. Channel!Last(log[p]) < b.id /\ b.id <= cur[Channel!Other(p)]
  BY <1>1 DEF Channel!Last, Last, Channel!Other, Other
<1>5. Channel!Take(p, b.id, b.err > MAX_ERRORS) BY <1>3, <1>4 DEF Channel!Take
<1> QED BY <1>2, <1>5 DEF b

\* Every other step but that which gives up.
LEMMA ChannelRests ==
    ASSUME TypeOK, Next, ~Request, ~Reply,
           \A p \in Peer : ~PutAck(p) /\ ~GetBlock(p)
    PROVE  UNCHANGED Channel!vars \/ Channel!GiveUp
<1>1. ASSUME NEW p \in Peer, PutTimeout(p) PROVE UNCHANGED Channel!vars \/ Channel!GiveUp
  <2>1. /\ UNCHANGED <<cur, PrevErrors, log, emptied, acked>>
        /\ unheard' = (unheard \/ mode[Other(p)] \notin Listening)
    BY <1>1 DEF PutTimeout, link
  <2>2. CASE mode[Other(p)] \in Listening
    <3>1. unheard' = unheard BY <2>1, <2>2 DEF TypeOK
    <3> QED BY <2>1, <3>1, DueSame
  <2>3. CASE mode[Other(p)] \notin Listening
    <3>1. unheard' = TRUE BY <2>1, <2>3
    <3>2. UNCHANGED [q \in Peer |-> PrevErrors[q] > MAX_ERRORS] BY <2>1
    <3> QED BY <2>1, <3>1, <3>2 DEF Channel!GiveUp
  <2> QED BY <2>2, <2>3
<1>2. ASSUME NEW p \in Peer, BlockSend(p), ~PutTimeout(p)
      PROVE  UNCHANGED <<cur, PrevErrors, log, emptied, acked, unheard>>
  BY <1>2 DEF BlockSend, PutNak, PutRlr, PutOther, Discard, Discarded, PutSilence, link
<1>3. ASSUME NEW p \in Peer, WaitReceive(p) \/ ReSyncRead(p)
      PROVE  UNCHANGED <<cur, PrevErrors, log, emptied, acked, unheard>>
  BY <1>3 DEF WaitReceive, GetWrongNumber, GetDamaged, GetTooLong, GetRlr, GetOther,
              ReSyncRead, link
<1>4. CASE NoReply \/ ReSyncHi \/ ReSync \/ Fault
  <2>1. UNCHANGED <<cur, PrevErrors, log, emptied, acked, unheard>>
    BY <1>4 DEF NoReply, ReSyncHi, ReSync, Fault, link
  <2> QED BY <2>1, DueSame
<1> QED BY <1>1, <1>2, <1>3, <1>4, DueSame DEF Next, Carry

LEMMA ChannelPut ==
    ASSUME IInv, NEW p \in Peer, NEW id \in 1..MaxPut, cur[p] < id, NEW wanted,
           RemotePut(p, id, wanted)
    PROVE  Channel!LossyNext
<1>1. Channel!Put(p, id) BY ChannelPuts
<1> QED BY <1>1 DEF Channel!LossyNext, Channel!Peer, Peer

LEMMA ChannelNext == IInv /\ [Next]_vars => [Channel!LossyNext]_(Channel!vars)
<1> SUFFICES ASSUME IInv, [Next]_vars
             PROVE  Channel!LossyNext \/ UNCHANGED Channel!vars
  OBVIOUS
<1>1. CASE Request
  <2>1. PICK wanted \in BOOLEAN : RemotePut("client", cur["client"] + 1, wanted)
    BY <1>1 DEF Request
  <2>2. cur["client"] < MaxPut /\ cur["client"] \in Nat
    BY <1>1, DirectionTypes DEF Request, Peer
  <2>3. cur["client"] + 1 \in 1..MaxPut /\ cur["client"] < cur["client"] + 1
    BY <2>2, BoundAssumption
  <2> QED BY <2>1, <2>3, ChannelPut DEF Peer
<1>2. CASE Reply
  <2>1. RemotePut("server", Last(log["server"]), TRUE) /\ mode["server"] = "busy"
    BY <1>2 DEF Reply
  <2>2. cur["server"] < Last(log["server"]) BY <2>1 DEF IInv, Answering, Serving
  <2>3. cur["server"] \in Nat /\ Last(log["server"]) \in 0..MaxPut
    BY DirectionTypes DEF Peer
  <2>4. Last(log["server"]) \in 1..MaxPut BY <2>2, <2>3, BoundAssumption
  <2> QED BY <2>1, <2>2, <2>4, ChannelPut DEF Peer
<1>3. ASSUME NEW p \in Peer, PutAck(p) PROVE Channel!LossyNext
  <2>1. Channel!Confirm(p) BY <1>3 DEF Channel!Confirm, PutAck
  <2> QED BY <2>1 DEF Channel!LossyNext, Channel!Peer, Peer
<1>4. ASSUME NEW p \in Peer, GetBlock(p) PROVE Channel!LossyNext
  <2> DEFINE b == Head(wire[p]).blk
             empty == b.err > MAX_ERRORS
  <2>1. b \in Block /\ Channel!Take(p, b.id, empty) BY <1>4, ChannelTakes
  <2>2. b.id \in 1..MaxPut BY <2>1 DEF Block
  <2>3. empty \in BOOLEAN OBVIOUS
  <2> HIDE DEF b, empty
  <2> QED BY <2>1, <2>2, <2>3 DEF Channel!LossyNext, Channel!Peer, Peer
<1>5. CASE Next /\ ~Request /\ ~Reply /\ \A p \in Peer : ~PutAck(p) /\ ~GetBlock(p)
  BY <1>5, ChannelRests DEF Channel!LossyNext, IInv
<1>6. CASE UNCHANGED vars
  <2>1. UNCHANGED <<cur, PrevErrors, log, emptied, acked, unheard>> BY <1>6 DEF vars, link
  <2> QED BY <2>1, DueSame
<1> QED BY <1>1, <1>2, <1>3, <1>4, <1>5, <1>6

\* RemotePut and RemoteGet implement the lossy channel: whatever the line does,
\* a side takes blocks the other side has put, in their order, none twice; what
\* it may do is lose them.
THEOREM Refinement == Spec => LossyChannel
<1>1. Spec => [][Channel!LossyNext]_(Channel!vars)
  BY Invariance, ChannelNext, PTL DEF Spec
<1>2. Spec => Channel!Init BY ChannelInit DEF Spec
<1> QED BY <1>1, <1>2 DEF LossyChannel, Channel!LossySpec

-----------------------------------------------------------------------------
(* Answers to the current request.  Where no wait is too short, a put that  *)
(* has run out of time leaves nothing on the line, and its errors make both *)
(* sides resynchronise before the debugger listens again.                   *)

Patient == ~Premature /\ MAX_ERRORS < MaxTries

Things(w) == {w[i] : i \in DOMAIN w}
NoBlock(w) == \A m \in Things(w) : m.kind # "BLK"
NoAck(w) == \A m \in Things(w) : m.kind # "ACK"

\* A copy of the current request is as it was put; an older one that the server may
\* still take wants no reply and no resynchronisation.
Asked(b) ==
    /\ b.id = cur["client"] => b.err = PrevErrors["client"] /\ b.reply = want["client"]
    /\ Last(log["server"]) < b.id /\ b.id < cur["client"] => b.err <= MAX_ERRORS /\ ~b.reply
Asking == \A m \in Things(wire["server"]) : m.kind = "BLK" => Asked(m.blk)

\* Why the server will not take the last request any more, or would not answer it.
Left ==
    mode["client"] = "idle" =>
        \/ NoBlock(wire["server"])
        \/ ~want["client"] /\ PrevErrors["client"] <= MAX_ERRORS
        \/ Last(log["server"]) = cur["client"]

\* The debugger listens, or will listen without a ReSync before.
Trusted ==
    \/ mode["client"] = "get"
    \/ Sending("client") /\ PrevErrors["client"] <= MAX_ERRORS
    \/ mode["client"] = "idle" /\ Errors["client"] <= MAX_ERRORS

\* An answer that has been taken, or that the debugger is to take.
Current(id) ==
    \/ id <= Last(log["client"])
    \/ mode["client"] # "idle" /\ id = cur["client"]

Trusting ==
    Trusted =>
        /\ \A m \in Things(wire["client"]) : m.kind = "BLK" => Current(m.blk.id)
        /\ Sending("server") => Current(cur["server"])
        /\ Serving /\ want["server"] =>
              mode["client"] # "idle" /\ Last(log["server"]) = cur["client"]

\* Only a request that wants an answer gets one.
Wanted ==
    /\ cur["server"] = cur["client"] /\ cur["client"] > 0 => want["client"]
    /\ Serving /\ Last(log["server"]) = cur["client"] => want["server"] = want["client"]

\* Who runs out of time has had too many errors.
Tired ==
    Sending("client") =>
        tries["client"] <= Errors["client"] \/ Errors["client"] > MAX_ERRORS

\* The server resynchronises with the request it has taken: the debugger meets it with
\* the same request, or not at all.
Meeting ==
    mode["server"] = "resync" /\ after["server"] = "busy" =>
        /\ mode["client"] = "idle" => NoAck(wire["client"])
        /\ cur["client"] # Last(log["server"]) =>
              mode["client"] \in {"idle", "put", "drain"} /\ NoAck(wire["client"])
        /\ cur["client"] = Last(log["server"]) => PrevErrors["client"] > MAX_ERRORS

Leaving ==
    mode["client"] = "resync" /\ after["client"] = "idle" =>
        ~want["client"] \/ cur["server"] = cur["client"]

Answers == Asking /\ Left /\ Trusting /\ Wanted /\ Tired /\ Meeting /\ Leaving

-----------------------------------------------------------------------------
(* What is on a line, whatever the order *)

LEMMA ThingsTail ==
    ASSUME NEW w \in Seq(Message), w # <<>>
    PROVE  Things(Tail(w)) \subseteq Things(w) /\ Head(w) \in Things(w)
<1>1. /\ DOMAIN w = 1..Len(w) /\ Len(w) \in Nat /\ Len(w) >= 1
      /\ Tail(w) \in Seq(Message) /\ Len(Tail(w)) = Len(w) - 1
      /\ Head(w) = w[1]
      /\ \A i \in 1..(Len(w) - 1) : Tail(w)[i] = w[i + 1]
  BY HeadTailProperties, EmptySeq, LenProperties
<1>2. DOMAIN Tail(w) = 1..(Len(w) - 1) BY <1>1, LenProperties
<1> QED BY <1>1, <1>2 DEF Things

LEMMA ThingsJoined ==
    ASSUME NEW a \in Seq(Message), NEW b \in Seq(Message)
    PROVE  Things(a \o b) = Things(a) \cup Things(b)
<1> DEFINE t == a \o b
<1>1. /\ t \in Seq(Message) /\ Len(t) = Len(a) + Len(b)
      /\ \A i \in 1..Len(a) : t[i] = a[i]
      /\ \A i \in (Len(a) + 1)..(Len(a) + Len(b)) : t[i] = b[i - Len(a)]
  BY Joined
<1>2. /\ Len(a) \in Nat /\ Len(b) \in Nat
      /\ DOMAIN a = 1..Len(a) /\ DOMAIN b = 1..Len(b) /\ DOMAIN t = 1..Len(t)
  BY <1>1, LenProperties
<1> HIDE DEF t
<1>3. ASSUME NEW i \in DOMAIN t PROVE t[i] \in Things(a) \cup Things(b)
  <2>1. CASE i \in 1..Len(a) BY <1>1, <1>2, <2>1 DEF Things
  <2>2. CASE i \in (Len(a) + 1)..(Len(a) + Len(b))
    <3>1. i - Len(a) \in DOMAIN b BY <1>2, <2>2
    <3> QED BY <1>1, <2>2, <3>1 DEF Things
  <2> QED BY <1>1, <1>2, <2>1, <2>2
<1>4. ASSUME NEW i \in DOMAIN a PROVE a[i] \in Things(t)
  <2>1. i \in DOMAIN t /\ t[i] = a[i] BY <1>1, <1>2
  <2> QED BY <2>1 DEF Things
<1>5. ASSUME NEW i \in DOMAIN b PROVE b[i] \in Things(t)
  <2>1. /\ i + Len(a) \in (Len(a) + 1)..(Len(a) + Len(b)) /\ i + Len(a) \in DOMAIN t
        /\ (i + Len(a)) - Len(a) = i
    BY <1>1, <1>2
  <2>2. t[i + Len(a)] = b[i] BY <1>1, <2>1
  <2> QED BY <2>1, <2>2 DEF Things
<1>6. Things(t) = Things(a) \cup Things(b) BY <1>3, <1>4, <1>5 DEF Things
<1> QED BY <1>6 DEF t

LEMMA ThingsBehind ==
    ASSUME NEW w \in Seq(Message), NEW k \in 0..Len(w)
    PROVE  Things(SubSeq(w, k + 1, Len(w))) \subseteq Things(w)
<1> DEFINE t == SubSeq(w, k + 1, Len(w))
<1>1. /\ t \in Seq(Message) /\ Len(t) = Len(w) - k
      /\ \A i \in 1..(Len(w) - k) : t[i] = w[i + k]
  BY Behind
<1>2. DOMAIN t = 1..(Len(w) - k) /\ DOMAIN w = 1..Len(w) /\ Len(w) \in Nat
  BY <1>1, LenProperties
<1> HIDE DEF t
<1>3. \A i \in DOMAIN t : i + k \in DOMAIN w /\ t[i] = w[i + k] BY <1>1, <1>2
<1>4. Things(t) \subseteq Things(w) BY <1>3 DEF Things
<1> QED BY <1>4 DEF t

LEMMA ThingsRemains ==
    ASSUME NEW w \in Seq(Message), NEW t \in Remains(w)
    PROVE  t \in Seq(Message) /\ Things(t) \subseteq Things(w) \cup {Junk}
<1>1. CASE \E k \in 0..Len(w) : t = SubSeq(w, k + 1, Len(w))
  BY <1>1, ThingsBehind, Behind
<1>2. CASE \E k \in 0..Len(w) : t = <<Junk>> \o SubSeq(w, k + 1, Len(w))
  <2>1. PICK k \in 0..Len(w) : t = <<Junk>> \o SubSeq(w, k + 1, Len(w)) BY <1>2
  <2> DEFINE u == SubSeq(w, k + 1, Len(w))
  <2>2. u \in Seq(Message) /\ Things(u) \subseteq Things(w) BY ThingsBehind, Behind
  <2>3. <<Junk>> \in Seq(Message) /\ Things(<<Junk>>) = {Junk}
    BY JunkMessage DEF Things
  <2> HIDE DEF u
  <2>4. t = <<Junk>> \o u BY <2>1 DEF u
  <2> QED BY <2>2, <2>3, <2>4, ThingsJoined, Joined
<1>3. {j \in 1..Len(w) : w[j].kind = "BLK"} \subseteq 0..Len(w) BY LenProperties
<1> QED BY <1>1, <1>2, <1>3 DEF Remains

\* What a side consumes, and what it sends.
LEMMA ThingsSent ==
    ASSUME wire \in [Peer -> Seq(Message)], NEW p \in Peer,
           NEW rest \in Seq(Message), NEW out \in Seq(Message), Exchange(p, rest, out)
    PROVE  /\ wire' \in [Peer -> Seq(Message)] /\ wire'[p] = rest
           /\ Things(wire'[Other(p)]) = Things(wire[Other(p)]) \cup Things(out)
<1>1. wire[Other(p)] \in Seq(Message) BY PeerFacts
<1>2. /\ wire' \in [Peer -> Seq(Message)] /\ wire'[p] = rest
      /\ wire'[Other(p)] = wire[Other(p)] \o out
  BY ExchangeWire
<1>3. Things(wire[Other(p)] \o out) = Things(wire[Other(p)]) \cup Things(out)
  BY <1>1, ThingsJoined
<1> QED BY <1>2, <1>3

LEMMA ThingsOne ==
    ASSUME NEW m \in Message
    PROVE  <<m>> \in Seq(Message) /\ Things(<<m>>) = {m}
BY DEF Things

LEMMA ThingsTwo ==
    ASSUME NEW m \in Message, NEW n \in Message
    PROVE  <<m, n>> \in Seq(Message) /\ Things(<<m, n>>) = {m, n}
<1>1. DOMAIN <<m, n>> = {1, 2} OBVIOUS
<1> QED BY <1>1 DEF Things

LEMMA ThingsNone == <<>> \in Seq(Message) /\ \A A : Things(<<>>) \subseteq A
BY DEF Things
-----------------------------------------------------------------------------
(* Most steps of a side change neither what it has put nor what it has taken, and leave *)
(* it where it was, except that BlockSend waits or discards *)

Noises == {Byte(c) : c \in Ctl}

\* What p may leave of its input, and what it may send.
Rests(p) == {t \in Seq(Message) : Things(t) \subseteq Things(wire[p]) \cup {Junk}}
Says(p) ==
    {Junk} \cup (IF Sending(p) THEN {Outgoing(p)} ELSE {})
           \cup (IF mode[p] = "resync" THEN {} ELSE Noises)

Hears(p) ==
    /\ Things(wire'[p]) \subseteq Things(wire[p]) \cup {Junk}
    /\ Things(wire'[Other(p)]) \subseteq Things(wire[Other(p)]) \cup Says(p)

Chats(p) ==
    /\ Hears(p)
    /\ UNCHANGED <<cur, log, want, after, PrevErrors>>
    /\ \/ mode' = mode
       \/ \E to \in {"put", "drain"} : Sending(p) /\ mode' = [mode EXCEPT ![p] = to]
    /\ \A q \in Peer : Sending(q) \/ Errors'[q] = Errors[q]

LEMMA OutgoingMessage ==
    ASSUME TypeOK, NEW p \in Peer, cur[p] >= 1
    PROVE  Outgoing(p) \in Message
<1>1. /\ cur[p] \in 1..MaxPut /\ PrevErrors[p] \in 0..(MAX_ERRORS + 1)
      /\ want[p] \in BOOLEAN
  BY BoundAssumption DEF TypeOK
<1> QED BY <1>1, NewBlockMessage DEF Outgoing

LEMMA NoisesMessage ==
    /\ \A c \in Ctl : Byte(c) \in Message /\ Byte(c) \in Noises
    /\ Junk \in Message
BY ByteMessage, JunkMessage DEF Noises

LEMMA ChatWire ==
    ASSUME wire \in [Peer -> Seq(Message)], NEW p \in Peer, NEW rest \in Rests(p),
           NEW out \in Seq(Message), Things(out) \subseteq Says(p), Exchange(p, rest, out)
    PROVE  Hears(p)
<1>1. rest \in Seq(Message) /\ Things(rest) \subseteq Things(wire[p]) \cup {Junk} BY DEF Rests
<1>2. /\ wire' \in [Peer -> Seq(Message)] /\ wire'[p] = rest
      /\ Things(wire'[Other(p)]) = Things(wire[Other(p)]) \cup Things(out)
  BY <1>1, ThingsSent
<1>3. Things(wire'[p]) \subseteq Things(wire[p]) \cup {Junk} BY <1>1, <1>2
<1> QED BY <1>2, <1>3 DEF Hears

LEMMA ChatRests ==
    ASSUME wire \in [Peer -> Seq(Message)], NEW p \in Peer
    PROVE  /\ wire[p] \in Rests(p)
           /\ wire[p] # <<>> => Tail(wire[p]) \in Rests(p)
           /\ wire[p] # <<>> => Remains(Tail(wire[p])) \subseteq Rests(p)
<1>1. wire[p] \in Seq(Message) OBVIOUS
<1>2. ASSUME wire[p] # <<>>
      PROVE  /\ Tail(wire[p]) \in Seq(Message)
             /\ Things(Tail(wire[p])) \subseteq Things(wire[p])
  BY <1>1, <1>2, ThingsTail, HeadTailProperties
<1>3. ASSUME wire[p] # <<>>, NEW t \in Remains(Tail(wire[p])) PROVE t \in Rests(p)
  BY <1>2, <1>3, ThingsRemains DEF Rests
<1> QED BY <1>1, <1>2, <1>3 DEF Rests

LEMMA PutChats ==
    ASSUME IInv, NEW p \in Peer,
           \/ PutNak(p) \/ PutRlr(p) \/ PutOther(p) \/ Discard(p) \/ Discarded(p) \/ PutSilence(p)
    PROVE  Chats(p)
<1>1. TypeOK /\ wire \in [Peer -> Seq(Message)] /\ mode \in [Peer -> Mode]
  BY DEF IInv, TypeOK
<1>2. Sending(p) /\ mode[p] # "resync" /\ Says(p) = {Junk, Outgoing(p)} \cup Noises
  BY DEF Sending, Says, PutNak, PutRlr, PutOther, Discard, Discarded, PutSilence
<1>3. Outgoing(p) \in Message BY <1>1, <1>2, OutgoingMessage DEF IInv, Modes
<1>4. LastResponse[p] \in Ctl BY <1>1 DEF TypeOK, Response, Ctl
<1>5. Hears(p)
  <2>1. CASE PutNak(p)
    <3>1. wire[p] # <<>> /\ Exchange(p, Tail(wire[p]), <<Outgoing(p)>>) BY <2>1 DEF PutNak
    <3>2. <<Outgoing(p)>> \in Seq(Message) /\ Things(<<Outgoing(p)>>) \subseteq Says(p)
      BY <1>2, <1>3, ThingsOne
    <3>3. Tail(wire[p]) \in Rests(p) BY <1>1, <3>1, ChatRests
    <3> QED BY <1>1, <3>1, <3>2, <3>3, ChatWire
  <2>2. CASE PutRlr(p)
    <3>1. /\ wire[p] # <<>>
          /\ Exchange(p, Tail(wire[p]), <<Byte(LastResponse[p]), Outgoing(p)>>)
      BY <2>2 DEF PutRlr
    <3>2. Byte(LastResponse[p]) \in Message /\ Byte(LastResponse[p]) \in Noises
      BY <1>4, NoisesMessage
    <3> DEFINE out == <<Byte(LastResponse[p]), Outgoing(p)>>
    <3>3. out \in Seq(Message) /\ Things(out) \subseteq Says(p)
      BY <1>2, <1>3, <3>2, ThingsTwo
    <3>4. Tail(wire[p]) \in Rests(p) BY <1>1, <3>1, ChatRests
    <3>5. Exchange(p, Tail(wire[p]), out) BY <3>1
    <3> HIDE DEF out
    <3> QED BY <1>1, <3>3, <3>4, <3>5, ChatWire
  <2>3. CASE PutOther(p) \/ Discard(p)
    <3>1. wire[p] # <<>> /\ Exchange(p, Tail(wire[p]), <<>>) BY <2>3 DEF PutOther, Discard
    <3>2. Tail(wire[p]) \in Rests(p) BY <1>1, <3>1, ChatRests
    <3> QED BY <1>1, <3>1, <3>2, ChatWire, ThingsNone
  <2>4. CASE Discarded(p) \/ PutSilence(p)
    <3>1. Exchange(p, wire[p], <<Byte("RLR")>>) BY <2>4 DEF Discarded, PutSilence
    <3>2. Byte("RLR") \in Message /\ Byte("RLR") \in Noises BY NoisesMessage DEF Ctl
    <3>3. <<Byte("RLR")>> \in Seq(Message) /\ Things(<<Byte("RLR")>>) \subseteq Says(p)
      BY <1>2, <3>2, ThingsOne
    <3>4. wire[p] \in Rests(p) BY <1>1, ChatRests
    <3> QED BY <1>1, <3>1, <3>3, <3>4, ChatWire
  <2> QED BY <2>1, <2>2, <2>3, <2>4
<1>6. UNCHANGED <<cur, log, want, after, PrevErrors>>
  BY DEF PutNak, PutRlr, PutOther, Discard, Discarded, PutSilence, link
<1>7. \/ mode' = mode
      \/ \E to \in {"put", "drain"} : mode' = [mode EXCEPT ![p] = to]
  BY DEF PutNak, PutRlr, PutOther, Discard, Discarded, PutSilence
<1>8. Errors' = Errors \/ Errors' = [Errors EXCEPT ![p] = OneMore(@)]
  BY DEF PutNak, PutRlr, PutOther, Discard, Discarded, PutSilence, link
<1>9. \A q \in Peer : Sending(q) \/ Errors'[q] = Errors[q]
  BY <1>1, <1>2, <1>8 DEF TypeOK
<1> QED BY <1>2, <1>5, <1>6, <1>7, <1>9 DEF Chats

LEMMA GetChats ==
    ASSUME IInv, NEW p \in Peer,
           \/ GetWrongNumber(p) \/ GetDamaged(p) \/ GetTooLong(p) \/ GetRlr(p) \/ GetOther(p)
           \/ ReSyncRead(p)
           \/ p = "client" /\ ReSyncHi
    PROVE  Chats(p)
<1>1. TypeOK /\ wire \in [Peer -> Seq(Message)] BY DEF IInv, TypeOK
<1>2. /\ Byte("ACK") \in Message /\ Byte("ACK") \in Noises
      /\ Byte("NAK") \in Message /\ Byte("NAK") \in Noises
      /\ Junk \in Message
  BY NoisesMessage DEF Ctl
<1>3. /\ Junk \in Says(p)
      /\ mode[p] # "resync" => Byte("ACK") \in Says(p) /\ Byte("NAK") \in Says(p)
  BY <1>2 DEF Says
<1>5. Hears(p)
  <2>1. CASE GetWrongNumber(p)
    <3>1. PICK rest \in Remains(Tail(wire[p])) : Exchange(p, rest, <<Byte("ACK")>>)
      BY <2>1 DEF GetWrongNumber
    <3>2. wire[p] # <<>> /\ mode[p] # "resync" BY <2>1 DEF GetWrongNumber
    <3>3. rest \in Rests(p) BY <1>1, <3>2, ChatRests
    <3>4. <<Byte("ACK")>> \in Seq(Message) /\ Things(<<Byte("ACK")>>) = {Byte("ACK")}
      BY <1>2, ThingsOne
    <3>5. {Byte("ACK")} \subseteq Says(p) BY <1>3, <3>2
    <3> QED BY <1>1, <3>1, <3>3, <3>4, <3>5, ChatWire
  <2>2. CASE GetTooLong(p)
    <3>1. PICK rest \in Remains(Tail(wire[p])) : Exchange(p, rest, <<>>)
      BY <2>2 DEF GetTooLong
    <3>2. wire[p] # <<>> BY <2>2 DEF GetTooLong
    <3>3. rest \in Rests(p) BY <1>1, <3>2, ChatRests
    <3> QED BY <1>1, <3>1, <3>3, ChatWire, ThingsNone
  <2>3. CASE GetDamaged(p) \/ GetRlr(p)
    <3>1. Exchange(p, Tail(wire[p]), <<Byte("NAK")>>) /\ wire[p] # <<>> /\ mode[p] # "resync"
      BY <2>3 DEF GetDamaged, GetRlr
    <3>2. Tail(wire[p]) \in Rests(p) BY <1>1, <3>1, ChatRests
    <3>3. <<Byte("NAK")>> \in Seq(Message) /\ Things(<<Byte("NAK")>>) = {Byte("NAK")}
      BY <1>2, ThingsOne
    <3>4. {Byte("NAK")} \subseteq Says(p) BY <1>3, <3>1
    <3> QED BY <1>1, <3>1, <3>2, <3>3, <3>4, ChatWire
  <2>4. CASE GetOther(p) \/ ReSyncRead(p)
    <3>1. wire[p] # <<>> /\ Exchange(p, Tail(wire[p]), <<>>) BY <2>4 DEF GetOther, ReSyncRead
    <3>2. Tail(wire[p]) \in Rests(p) BY <1>1, <3>1, ChatRests
    <3> QED BY <1>1, <3>1, <3>2, ChatWire, ThingsNone
  <2>5. CASE p = "client" /\ ReSyncHi
    <3>1. Exchange(p, wire[p], <<Junk>>) BY <2>5 DEF ReSyncHi
    <3> QED BY <1>1, <1>2, <1>3, <3>1, ChatRests, ChatWire, ThingsOne
  <2> QED BY <2>1, <2>2, <2>3, <2>4, <2>5
<1>6. UNCHANGED <<cur, log, want, after, PrevErrors, Errors, mode>>
  BY DEF GetWrongNumber, GetDamaged, GetTooLong, GetRlr, GetOther, ReSyncRead, ReSyncHi, link
<1> QED BY <1>5, <1>6 DEF Chats

LEMMA FaultChats ==
    ASSUME IInv, Fault
    PROVE  Chats("client")
<1>1. wire \in [Peer -> Seq(Message)] /\ "client" \in Peer BY DEF IInv, TypeOK, Peer
<1>2. UNCHANGED <<cur, log, want, after, PrevErrors, Errors, mode>> BY DEF Fault, link
<1>3a. PICK p \in Peer : \E i \in DOMAIN wire[p] : Lose(p, i) \/ Damage(p, i) BY DEF Fault
<1>3. PICK i \in DOMAIN wire[p] : Lose(p, i) \/ Damage(p, i) BY <1>3a
<1>4. wire[p] \in Seq(Message) /\ i \in 1..Len(wire[p]) BY <1>1, <1>3
<1> DEFINE w == wire[p]
           u == SubSeq(w, 1, i - 1)
           v == SubSeq(w, i + 1, Len(w))
<1>5. /\ v \in Seq(Message) /\ Things(v) \subseteq Things(w)
      /\ u \in Seq(Message) /\ Things(u) \subseteq Things(w)
  <2>1. i \in 0..Len(w) BY <1>4
  <2>2. v \in Seq(Message) /\ Things(v) \subseteq Things(w)
    BY <1>4, <2>1, Behind, ThingsBehind
  <2>3. /\ u \in Seq(Message) /\ Len(u) = i - 1
        /\ \A j \in 1..(i - 1) : u[j] = w[j]
    <3>1. 1 \in 1..Len(w) + 1 /\ i - 1 \in 0..Len(w) BY <1>4
    <3> HIDE DEF w
    <3>2. w \in Seq(Message) BY <1>4 DEF w
    <3> QED BY <1>4, <3>1, <3>2, SMTT(30) DEF w
  <2>4. DOMAIN u = 1..(i - 1) /\ DOMAIN w = 1..Len(w) /\ Len(w) \in Nat
    BY <1>4, <2>3, LenProperties
  <2>5. Things(u) \subseteq Things(w)
    <3> HIDE DEF u, w
    <3>1. \A j \in DOMAIN u : j \in DOMAIN w /\ u[j] = w[j] BY <1>4, <2>3, <2>4 DEF w
    <3> QED BY <3>1 DEF Things
  <2> QED BY <2>2, <2>3, <2>5
<1>6. \E t : Things(t) \subseteq Things(w) \cup {Junk} /\ wire' = [wire EXCEPT ![p] = t]
  <2>1. CASE Lose(p, i)
    <3>1. Things(u \o v) \subseteq Things(w) BY <1>5, ThingsJoined
    <3> QED BY <2>1, <3>1 DEF Lose
  <2>2. CASE Damage(p, i)
    <3>1. PICK n \in 1..MaxJunk : wire' = [wire EXCEPT ![p] = u \o [k \in 1..n |-> Junk] \o v]
      BY <2>2 DEF Damage
    <3> DEFINE x == [k \in 1..n |-> Junk]
    <3>2. x \in Seq(Message) /\ Things(x) \subseteq {Junk}
      <4>1. n \in Nat OBVIOUS
      <4>2. x \in [1..n -> Message] BY JunkMessage
      <4> QED BY <4>1, <4>2, JunkMessage, SeqDef DEF Things
    <3> HIDE DEF x, u, v, w
    <3>3. u \o x \in Seq(Message) BY <1>5, <3>2, Joined
    <3>4. Things(u \o x \o v) \subseteq Things(w) \cup {Junk}
      BY <1>5, <3>2, <3>3, ThingsJoined
    <3> QED BY <3>1, <3>4 DEF x
  <2> QED BY <1>3, <2>1, <2>2
<1> HIDE DEF u, v
<1>7. PICK t : Things(t) \subseteq Things(w) \cup {Junk} /\ wire' = [wire EXCEPT ![p] = t]
  BY <1>6
<1>8. \A q \in Peer : Things(wire'[q]) \subseteq Things(wire[q]) \cup {Junk}
  BY <1>1, <1>7
<1> QED BY <1>1, <1>2, <1>8, PeerFacts DEF Chats, Hears, Says

-----------------------------------------------------------------------------
(* What the steps that only chat leave true *)

\* What is asked is answered in its order: counts of requests.
LEMMA Counted ==
    ASSUME IInv
    PROVE  /\ Last(log["client"]) \in Nat /\ Last(log["server"]) \in Nat
           /\ cur["client"] \in Nat /\ cur["server"] \in Nat
           /\ Last(log["client"]) <= cur["server"]
           /\ cur["server"] <= Last(log["server"])
           /\ Last(log["server"]) <= cur["client"]
           /\ Serving => cur["server"] < Last(log["server"])
<1>1. "client" \in Peer /\ "server" \in Peer BY DEF Peer
<1>2. Other("client") = "server" /\ Other("server") = "client" BY DEF Other
<1> QED BY <1>1, <1>2, DirectionTypes DEF IInv, DirectionTo, Direction, Answering

LEMMA BlockBounds ==
    ASSUME IInv, NEW p \in Peer, NEW m \in Things(wire[p]), m.kind = "BLK"
    PROVE  /\ m.blk \in Block /\ m.blk.id \in Nat
           /\ Last(log[p]) <= m.blk.id /\ m.blk.id <= cur[Other(p)]
<1>1. wire[p] \in Seq(Message) BY DirectionTypes
<1>2. PICK i \in DOMAIN wire[p] : m = wire[p][i] BY DEF Things
<1>3. m \in Message BY <1>1, <1>2, ElementOfSeq
<1>4. m.blk \in Block BY <1>3, MessageBlock
<1>5. Last(log[p]) <= m.blk.id /\ m.blk.id <= cur[Other(p)]
  BY <1>2 DEF IInv, DirectionTo, Direction
<1>6. m.blk.id \in Nat BY <1>4 DEF Block
<1> QED BY <1>4, <1>5, <1>6

LEMMA OutgoingBlock ==
    ASSUME NEW p \in Peer
    PROVE  /\ Outgoing(p).kind = "BLK" /\ Outgoing(p).blk.id = cur[p]
           /\ Outgoing(p).blk.err = PrevErrors[p]
           /\ Outgoing(p).blk.reply <=> (p = "client" /\ want[p])
BY DEF Outgoing, NewBlock, Frame

LEMMA ChatNews ==
    ASSUME IInv, NEW p \in Peer, Chats(p)
    PROVE  /\ \A m \in Things(wire'["server"]) : m.kind = "BLK" =>
                  \/ m \in Things(wire["server"])
                  \/ Sending("client") /\ m = Outgoing("client")
           /\ \A m \in Things(wire'["client"]) : m.kind = "BLK" =>
                  \/ m \in Things(wire["client"])
                  \/ Sending("server") /\ m = Outgoing("server")
           /\ mode["server"] = "resync" /\ NoAck(wire["client"]) => NoAck(wire'["client"])
<1>1. /\ Junk.kind = "JUNK" /\ \A m \in Noises : m.kind # "BLK"
      /\ "client" \in Peer /\ "server" \in Peer
      /\ Other("client") = "server" /\ Other("server") = "client"
  BY DEF Junk, Noises, Byte, Ctl, Peer, Other
<1>2. /\ Things(wire'[p]) \subseteq Things(wire[p]) \cup {Junk}
      /\ Things(wire'[Other(p)]) \subseteq Things(wire[Other(p)]) \cup Says(p)
  BY DEF Chats, Hears
<1>3. \A m \in Says(p) : m.kind = "BLK" => Sending(p) /\ m = Outgoing(p)
  BY <1>1 DEF Says
<1>4. ASSUME mode["server"] = "resync", NoAck(wire["client"]) PROVE NoAck(wire'["client"])
  <2>1. CASE p = "server"
    <3>1. Says(p) = {Junk} BY <1>4, <2>1 DEF Says, Sending
    <3> QED BY <1>1, <1>2, <1>4, <2>1, <3>1 DEF NoAck
  <2>2. CASE p = "client" BY <1>1, <1>2, <1>4, <2>2 DEF NoAck
  <2> QED BY <2>1, <2>2 DEF Peer
<1>5. CASE p = "server" BY <1>1, <1>2, <1>3, <1>4, <1>5
<1>6. CASE p = "client" BY <1>1, <1>2, <1>3, <1>4, <1>6
<1> QED BY <1>5, <1>6 DEF Peer

LEMMA ChatModes ==
    ASSUME IInv, NEW p \in Peer, Chats(p)
    PROVE  /\ \A q \in Peer : /\ Sending(q)' <=> Sending(q)
                              /\ \/ mode'[q] = mode[q]
                                 \/ Sending(q) /\ mode'[q] \in {"put", "drain"}
           /\ Serving' <=> Serving
           /\ Trusted' <=> Trusted
<1>1. mode \in [Peer -> Mode] BY DEF IInv, TypeOK
<1>2. \A q \in Peer : \/ mode'[q] = mode[q]
                      \/ Sending(q) /\ mode'[q] \in {"put", "drain"}
  <2> SUFFICES ASSUME NEW q \in Peer
               PROVE  \/ mode'[q] = mode[q]
                      \/ Sending(q) /\ mode'[q] \in {"put", "drain"}
    OBVIOUS
  <2>1. CASE mode' = mode BY <2>1
  <2>2. CASE \E to \in {"put", "drain"} : Sending(p) /\ mode' = [mode EXCEPT ![p] = to]
    <3>1. PICK to \in {"put", "drain"} : Sending(p) /\ mode' = [mode EXCEPT ![p] = to]
      BY <2>2
    <3>2. CASE q = p BY <1>1, <3>1, <3>2
    <3>3. CASE q # p BY <1>1, <3>1, <3>3
    <3> QED BY <3>2, <3>3
  <2> QED BY <2>1, <2>2 DEF Chats
<1>3. \A q \in Peer : Sending(q)' <=> Sending(q) BY <1>2 DEF Sending
<1>4. "client" \in Peer /\ "server" \in Peer BY DEF Peer
<1>5. Serving' <=> Serving BY <1>2, <1>4 DEF Serving, Sending, Chats
<1>6. Sending("client") \/ Errors'["client"] = Errors["client"] BY <1>4 DEF Chats
<1>7. Trusted' <=> Trusted
  BY <1>2, <1>3, <1>4, <1>6 DEF Trusted, Sending, Chats
<1> QED BY <1>2, <1>3, <1>5, <1>7

LEMMA ChatKeeps ==
    ASSUME IInv, Answers, NEW p \in Peer, Chats(p)
    PROVE  Asking' /\ Left' /\ Trusting' /\ Wanted' /\ Meeting' /\ Leaving'
<1>1. UNCHANGED <<cur, log, want, after, PrevErrors>> BY DEF Chats
<1>2. "client" \in Peer /\ "server" \in Peer BY DEF Peer
<1>3. Asking'
  <2> SUFFICES ASSUME NEW m \in Things(wire'["server"]), m.kind = "BLK"
               PROVE  Asked(m.blk)'
    BY DEF Asking
  <2>1. Asked(m.blk)
    <3>1. CASE m \in Things(wire["server"]) BY <3>1 DEF Answers, Asking
    <3>2. CASE m = Outgoing("client")
      <4>1. cur["client"] \in Nat BY Counted
      <4>2. want["client"] \in BOOLEAN /\ m.blk.reply \in BOOLEAN
        BY <1>2, <3>2 DEF IInv, TypeOK, Outgoing, NewBlock, Frame
      <4> QED BY <1>2, <3>2, <4>1, <4>2, OutgoingBlock DEF Asked
    <3> QED BY <3>1, <3>2, ChatNews
  <2> QED BY <1>1, <2>1 DEF Asked
<1>4. Left'
  <2> SUFFICES ASSUME mode'["client"] = "idle", NoBlock(wire["server"])
               PROVE  NoBlock(wire'["server"])
    <3>1. mode'["client"] = "idle" => mode["client"] = "idle"
      BY <1>2, ChatModes DEF Sending
    <3> QED BY <1>1, <3>1 DEF Left, Answers
  <2>1. ~Sending("client") BY <1>2, ChatModes DEF Sending
  <2> QED BY <2>1, ChatNews DEF NoBlock
<1>5. Trusting'
  <2> SUFFICES ASSUME Trusted' PROVE Trusting' BY DEF Trusting
  <2>1. Trusted BY ChatModes
  <2>2. \A id : Current(id) => Current(id)'
    BY <1>1, <1>2, ChatModes DEF Current, Sending
  <2>3. ASSUME NEW m \in Things(wire'["client"]), m.kind = "BLK"
        PROVE  Current(m.blk.id)'
    <3>1. Current(m.blk.id)
      <4>1. CASE m \in Things(wire["client"]) BY <2>1, <2>3, <4>1 DEF Answers, Trusting
      <4>2. CASE Sending("server") /\ m = Outgoing("server")
        BY <1>2, <2>1, <4>2, OutgoingBlock DEF Answers, Trusting
      <4> QED BY <2>3, <4>1, <4>2, ChatNews
    <3> QED BY <2>2, <3>1
  <2>4. ASSUME Sending("server")' PROVE Current(cur["server"])'
    <3>1. Sending("server") BY <1>2, <2>4, ChatModes
    <3> QED BY <1>1, <2>1, <2>2, <3>1 DEF Answers, Trusting
  <2>5. ASSUME Serving', want'["server"]
        PROVE  mode'["client"] # "idle" /\ Last(log'["server"]) = cur'["client"]
    <3>1. Serving /\ want["server"] BY <1>1, <2>5, ChatModes
    <3> QED BY <1>1, <1>2, <2>1, <3>1, ChatModes DEF Answers, Trusting, Sending
  <2> QED BY <1>1, <2>3, <2>4, <2>5 DEF Trusting
<1>6. Wanted' BY <1>1, ChatModes DEF Answers, Wanted
<1>7. Meeting'
  <2> SUFFICES ASSUME mode'["server"] = "resync", after'["server"] = "busy"
               PROVE  Meeting'
    BY DEF Meeting
  <2>1. mode["server"] = "resync" /\ after["server"] = "busy"
    BY <1>1, <1>2, ChatModes
  <2>2. NoAck(wire["client"]) => NoAck(wire'["client"]) BY <2>1, ChatNews
  <2>3. \/ mode'["client"] = mode["client"]
        \/ mode["client"] \in {"put", "drain"} /\ mode'["client"] \in {"put", "drain"}
    BY <1>2, ChatModes DEF Sending
  <2> QED BY <1>1, <2>1, <2>2, <2>3 DEF Answers, Meeting
<1>8. Leaving'
  <2>1. mode'["client"] = "resync" => mode["client"] = "resync"
    BY <1>2, ChatModes DEF Sending
  <2> QED BY <1>1, <2>1 DEF Answers, Leaving
<1> QED BY <1>3, <1>4, <1>5, <1>6, <1>7, <1>8

-----------------------------------------------------------------------------
(* What the other steps of the two sides leave true *)

LEMMA TakenWire ==
    ASSUME IInv, NEW p \in Peer, wire[p] # <<>>, NEW out \in Seq(Message),
           Exchange(p, Tail(wire[p]), out)
    PROVE  /\ Head(wire[p]) \in Things(wire[p])
           /\ Things(wire'[p]) \subseteq Things(wire[p])
           /\ Things(wire'[Other(p)]) = Things(wire[Other(p)]) \cup Things(out)
<1>1. wire \in [Peer -> Seq(Message)] /\ wire[p] \in Seq(Message) BY DEF IInv, TypeOK
<1>2. Tail(wire[p]) \in Seq(Message) BY <1>1, HeadTailProperties
<1>3. /\ Things(Tail(wire[p])) \subseteq Things(wire[p])
      /\ Head(wire[p]) \in Things(wire[p])
  BY <1>1, ThingsTail
<1> QED BY <1>1, <1>2, <1>3, ThingsSent

\* A side puts a block: it throws away some of its input and sends the block.
LEMMA PutWire ==
    ASSUME IInv, NEW p \in Peer, NEW id \in 1..MaxPut, NEW wanted \in BOOLEAN,
           RemotePut(p, id, wanted)
    PROVE  /\ \A m \in Things(wire'[p]) : m \in Things(wire[p]) \/ m = Junk
           /\ \A m \in Things(wire'[Other(p)]) :
                 \/ m \in Things(wire[Other(p)])
                 \/ m = NewBlock(p, id, Errors[p], wanted)
<1>1. TypeOK /\ wire \in [Peer -> Seq(Message)] /\ wire[p] \in Seq(Message)
  BY DEF IInv, TypeOK
<1> DEFINE b == NewBlock(p, id, Errors[p], wanted)
<1>2. PICK rest \in Remains(wire[p]) : Exchange(p, rest, <<b>>) BY DEF RemotePut
<1>3. b \in Message
  <2>1. Errors[p] \in 0..(MAX_ERRORS + 1) BY <1>1 DEF TypeOK
  <2> QED BY <1>1, <2>1, NewBlockMessage
<1>4. rest \in Seq(Message) /\ Things(rest) \subseteq Things(wire[p]) \cup {Junk}
  BY <1>1, <1>2, ThingsRemains
<1>5. <<b>> \in Seq(Message) /\ Things(<<b>>) = {b} BY <1>3, ThingsOne
<1> DEFINE out == <<b>>
<1> HIDE DEF out
<1>6. /\ wire'[p] = rest
      /\ Things(wire'[Other(p)]) = Things(wire[Other(p)]) \cup Things(out)
  BY <1>1, <1>2, <1>4, <1>5, ThingsSent DEF out
<1> QED BY <1>4, <1>5, <1>6 DEF out

LEMMA BlockFields ==
    ASSUME NEW p \in Peer, NEW id, NEW err, NEW wanted \in BOOLEAN
    PROVE  /\ NewBlock(p, id, err, wanted).kind = "BLK"
           /\ NewBlock(p, id, err, wanted).blk.id = id
           /\ NewBlock(p, id, err, wanted).blk.err = err
           /\ p = "client" => NewBlock(p, id, err, wanted).blk.reply = wanted
BY DEF NewBlock, Frame

Kept == Asking /\ Left /\ Trusting /\ Wanted /\ Meeting /\ Leaving

LEMMA RequestKeeps ==
    ASSUME IInv, Answers, Request
    PROVE  Kept'
<1>1. "client" \in Peer /\ "server" \in Peer
      /\ Other("client") = "server" /\ Other("server") = "client"
  BY DEF Peer, Other
<1> DEFINE c == cur["client"]
           L == Last(log["server"])
<1>2. c \in Nat /\ L \in Nat /\ cur["server"] <= L /\ L <= c /\ cur["server"] \in Nat
  BY Counted
<1>3. PICK wanted \in BOOLEAN : RemotePut("client", c + 1, wanted) BY DEF Request
<1>4. mode["client"] = "idle" /\ c + 1 \in 1..MaxPut
  BY <1>2, BoundAssumption DEF Request
<1>5. /\ cur'["client"] = c + 1 /\ cur'["server"] = cur["server"]
      /\ want'["client"] = wanted /\ want'["server"] = want["server"]
      /\ PrevErrors'["client"] = Errors["client"]
      /\ mode'["client"] = "put" /\ mode'["server"] = mode["server"]
      /\ log' = log /\ after' = after
  BY <1>1, <1>3 DEF RemotePut, IInv, TypeOK
<1> DEFINE n == NewBlock("client", c + 1, Errors["client"], wanted)
<1>6. /\ \A m \in Things(wire'["client"]) : m \in Things(wire["client"]) \/ m = Junk
      /\ \A m \in Things(wire'["server"]) : m \in Things(wire["server"]) \/ m = n
  BY <1>1, <1>3, <1>4, PutWire
<1>7. n.blk.id = c + 1 /\ n.blk.err = Errors["client"] /\ n.blk.reply = wanted
  BY <1>1, BlockFields
<1>8. Junk.kind = "JUNK" BY DEF Junk
<1> HIDE DEF n, c, L
<1>9. Asking'
  <2> SUFFICES ASSUME NEW m \in Things(wire'["server"]), m.kind = "BLK"
               PROVE  Asked(m.blk)'
    BY DEF Asking
  <2>1. CASE m = n BY <1>2, <1>5, <1>7, <2>1 DEF Asked
  <2>2. CASE m \in Things(wire["server"])
    <3>1. m.blk.id \in Nat /\ m.blk.id <= c BY <1>1, <2>2, BlockBounds DEF c
    <3>2. Asked(m.blk) BY <2>2 DEF Answers, Asking
    <3>3. ASSUME L < m.blk.id PROVE m.blk.err <= MAX_ERRORS /\ ~m.blk.reply
      <4>1. CASE m.blk.id < c BY <3>2, <3>3, <4>1 DEF Asked, L, c
      <4>2. CASE m.blk.id = c
        <5>1. ~NoBlock(wire["server"]) BY <2>2 DEF NoBlock
        <5>2. ~want["client"] /\ PrevErrors["client"] <= MAX_ERRORS
          BY <1>2, <1>4, <3>3, <4>2, <5>1 DEF Answers, Left, L, c
        <5> QED BY <3>2, <4>2, <5>2 DEF Asked, c
      <4> QED BY <1>2, <3>1, <4>1, <4>2
    <3> QED BY <1>2, <1>5, <3>1, <3>3 DEF Asked, L
  <2> QED BY <1>6, <2>1, <2>2
<1>10. Left' BY <1>5 DEF Left
<1>11. Trusting'
  <2> SUFFICES ASSUME Trusted' PROVE Trusting' BY DEF Trusting
  <2>1. Trusted BY <1>4, <1>5 DEF Trusted, Sending
  <2>2. \A id : Current(id) => Current(id)' BY <1>4, <1>5 DEF Current
  <2>3. \A m \in Things(wire'["client"]) : m.kind = "BLK" => Current(m.blk.id)'
    <3> SUFFICES ASSUME NEW m \in Things(wire'["client"]), m.kind = "BLK"
                 PROVE  Current(m.blk.id)'
      OBVIOUS
    <3>1. m \in Things(wire["client"]) BY <1>6, <1>8
    <3>2. Current(m.blk.id) BY <2>1, <3>1 DEF Answers, Trusting
    <3> QED BY <2>2, <3>2
  <2>4. Sending("server")' => Current(cur["server"])'
    <3>1. Sending("server")' => Sending("server") BY <1>5 DEF Sending
    <3>2. Sending("server") => Current(cur["server"]) BY <2>1 DEF Answers, Trusting
    <3> QED BY <1>5, <2>2, <3>1, <3>2 DEF Current
  <2>5. ~(Serving' /\ want'["server"])
    <3>1. ~(Serving /\ want["server"]) BY <1>4, <2>1 DEF Answers, Trusting
    <3> QED BY <1>5, <3>1 DEF Serving
  <2> QED BY <2>3, <2>4, <2>5 DEF Trusting
<1>12. Wanted' BY <1>2, <1>5 DEF Wanted, L
<1>13. Meeting'
  <2> SUFFICES ASSUME mode["server"] = "resync", after["server"] = "busy" PROVE Meeting'
    BY <1>5 DEF Meeting
  <2>1. NoAck(wire["client"]) BY <1>4 DEF Answers, Meeting
  <2>2. NoAck(wire'["client"]) BY <1>6, <1>8, <2>1 DEF NoAck
  <2>3. cur'["client"] # Last(log'["server"]) BY <1>2, <1>5 DEF L
  <2> QED BY <1>5, <2>2, <2>3 DEF Meeting
<1>14. Leaving' BY <1>5 DEF Leaving
<1> QED BY <1>9, <1>10, <1>11, <1>12, <1>13, <1>14 DEF Kept

LEMMA ReplyKeeps ==
    ASSUME IInv, Answers, Reply
    PROVE  Kept'
<1>1. "client" \in Peer /\ "server" \in Peer
      /\ Other("client") = "server" /\ Other("server") = "client"
  BY DEF Peer, Other
<1> DEFINE c == cur["client"]
           L == Last(log["server"])
<1>2. mode["server"] = "busy" /\ Serving /\ want["server"] BY DEF Reply, Serving
<1>3. /\ c \in Nat /\ L \in Nat /\ cur["server"] < L /\ L <= c /\ cur["server"] \in Nat
      /\ L \in 1..MaxPut
  <2>1. L \in 0..MaxPut BY <1>1, DirectionTypes
  <2> QED BY <1>2, <2>1, Counted
<1>4. RemotePut("server", L, TRUE) BY DEF Reply
<1>5. /\ cur'["server"] = L /\ cur'["client"] = c
      /\ want'["client"] = want["client"]
      /\ PrevErrors'["client"] = PrevErrors["client"]
      /\ Errors'["client"] = Errors["client"]
      /\ mode'["server"] = "put" /\ mode'["client"] = mode["client"]
      /\ log' = log /\ after' = after
  BY <1>1, <1>4 DEF RemotePut, IInv, TypeOK
<1> DEFINE n == NewBlock("server", L, Errors["server"], TRUE)
<1>6. /\ \A m \in Things(wire'["server"]) : m \in Things(wire["server"]) \/ m = Junk
      /\ \A m \in Things(wire'["client"]) : m \in Things(wire["client"]) \/ m = n
  BY <1>1, <1>3, <1>4, PutWire
<1>7. n.blk.id = L BY DEF NewBlock, Frame
<1>8. Junk.kind = "JUNK" BY DEF Junk
<1>20. ~Serving' BY <1>5 DEF Serving
<1> HIDE DEF n, c, L
<1>9. Asking'
  <2> SUFFICES ASSUME NEW m \in Things(wire'["server"]), m.kind = "BLK"
               PROVE  Asked(m.blk)'
    BY DEF Asking
  <2>1. m \in Things(wire["server"]) BY <1>6, <1>8
  <2>2. Asked(m.blk) BY <2>1 DEF Answers, Asking
  <2> QED BY <1>5, <2>2 DEF Asked, c
<1>10. Left'
  <2>1. NoBlock(wire["server"]) => NoBlock(wire'["server"]) BY <1>6, <1>8 DEF NoBlock
  <2> QED BY <1>5, <2>1 DEF Answers, Left, c
<1>11. Trusting'
  <2> SUFFICES ASSUME Trusted' PROVE Trusting' BY DEF Trusting
  <2>1. Trusted BY <1>5 DEF Trusted, Sending
  <2>2. \A id : Current(id) => Current(id)' BY <1>5 DEF Current, c
  <2>3. mode["client"] # "idle" /\ L = c BY <1>2, <2>1 DEF Answers, Trusting, L, c
  <2>4. Current(L) BY <2>3 DEF Current, c
  <2>5. \A m \in Things(wire'["client"]) : m.kind = "BLK" => Current(m.blk.id)'
    <3> SUFFICES ASSUME NEW m \in Things(wire'["client"]), m.kind = "BLK"
                 PROVE  Current(m.blk.id)'
      OBVIOUS
    <3>1. CASE m \in Things(wire["client"])
      <4>1. Current(m.blk.id) BY <2>1, <3>1 DEF Answers, Trusting
      <4> QED BY <2>2, <4>1
    <3>2. CASE m = n BY <1>7, <2>2, <2>4, <3>2
    <3> QED BY <1>6, <3>1, <3>2
  <2>6. Current(cur["server"])' BY <1>5, <2>3 DEF Current, c
  <2> QED BY <1>20, <2>5, <2>6 DEF Trusting
<1>12. Wanted'
  <2>1. L = c => want["client"] BY <1>2 DEF Answers, Wanted, L, c
  <2> QED BY <1>5, <1>20, <2>1 DEF Wanted
<1>13. Meeting' BY <1>5 DEF Meeting
<1>14. Leaving' BY <1>3, <1>5 DEF Answers, Leaving, c
<1> QED BY <1>9, <1>10, <1>11, <1>12, <1>13, <1>14 DEF Kept

\* The server stops sending, or has nothing to send: nothing new for the debugger.
LEMMA ServerRests ==
    ASSUME IInv, Answers, ~Serving', ~Sending("server")',
           UNCHANGED <<cur, log, PrevErrors, Errors>>,
           want'["client"] = want["client"], after'["client"] = after["client"],
           mode'["client"] = mode["client"],
           Things(wire'["client"]) = Things(wire["client"]),
           Things(wire'["server"]) \subseteq Things(wire["server"])
    PROVE  Kept'
<1>1. Asking' BY DEF Answers, Asking, Asked
<1>2. Left' BY DEF Answers, Left, NoBlock
<1>3. Trusting'
  <2>1. Trusted' => Trusted BY DEF Trusted, Sending
  <2>2. \A id : Current(id) => Current(id)' BY DEF Current
  <2> QED BY <2>1, <2>2 DEF Answers, Trusting
<1>4. Wanted' BY DEF Answers, Wanted
<1>5. Meeting' BY DEF Meeting, Serving
<1>6. Leaving' BY DEF Answers, Leaving
<1> QED BY <1>1, <1>2, <1>3, <1>4, <1>5, <1>6 DEF Kept

LEMMA ServerRestsSteps ==
    ASSUME IInv, Answers, NoReply \/ PutAck("server") \/ PutTimeout("server")
    PROVE  Kept'
<1>1. /\ "client" \in Peer /\ "server" \in Peer
      /\ Other("client") = "server" /\ Other("server") = "client"
      /\ mode \in [Peer -> Mode] /\ after \in [Peer -> Mode]
  BY DEF Peer, Other, IInv, TypeOK
<1>2. CASE NoReply
  <2>1. /\ mode' = [mode EXCEPT !["server"] = "get"]
        /\ UNCHANGED <<wire, cur, log, PrevErrors, Errors, want, after>>
    BY <1>2 DEF NoReply, link
  <2>2. mode'["server"] = "get" /\ mode'["client"] = mode["client"] BY <1>1, <2>1
  <2> QED BY <2>1, <2>2, ServerRests DEF Serving, Sending
<1>3. CASE PutTimeout("server")
  <2>1. /\ mode' = [mode EXCEPT !["server"] = "get"]
        /\ UNCHANGED <<wire, cur, log, PrevErrors, Errors, want, after>>
    BY <1>3 DEF PutTimeout, AfterPut, link
  <2>2. mode'["server"] = "get" /\ mode'["client"] = mode["client"] BY <1>1, <2>1
  <2> QED BY <2>1, <2>2, ServerRests DEF Serving, Sending
<1>4. CASE PutAck("server")
  <2>1. /\ after' = [after EXCEPT !["server"] = "get"]
        /\ \E to \in {"resync", "get"} : mode' = [mode EXCEPT !["server"] = to]
        /\ UNCHANGED <<cur, log, PrevErrors, Errors, want>>
        /\ wire["server"] # <<>>
        /\ Exchange("server", Tail(wire["server"]), <<>>)
    BY <1>4 DEF PutAck, AfterPut
  <2>2. /\ mode'["server"] \in {"resync", "get"} /\ mode'["client"] = mode["client"]
        /\ after'["server"] = "get" /\ after'["client"] = after["client"]
    BY <1>1, <2>1
  <2>3. <<>> \in Seq(Message) /\ Things(<<>>) = {} BY ThingsNone DEF Things
  <2>4. /\ Things(wire'["server"]) \subseteq Things(wire["server"])
        /\ Things(wire'["client"]) = Things(wire["client"])
    <3> DEFINE out == <<>>
    <3>1. out \in Seq(Message) /\ Things(out) = {} BY <2>3
    <3>2. Exchange("server", Tail(wire["server"]), out) BY <2>1
    <3> HIDE DEF out
    <3>3. Things(wire'["client"]) = Things(wire["client"]) \cup Things(out)
      BY <1>1, <2>1, <3>1, <3>2, TakenWire
    <3>4. Things(wire'["server"]) \subseteq Things(wire["server"])
      BY <1>1, <2>1, <3>1, <3>2, TakenWire
    <3> QED BY <3>1, <3>3, <3>4
  <2> QED BY <2>1, <2>2, <2>4, ServerRests DEF Serving, Sending
<1> QED BY <1>2, <1>3, <1>4

LEMMA ClientAckKeeps ==
    ASSUME IInv, Answers, PutAck("client")
    PROVE  Kept'
<1>1. /\ "client" \in Peer /\ "server" \in Peer
      /\ Other("client") = "server" /\ Other("server") = "client"
      /\ mode \in [Peer -> Mode] /\ after \in [Peer -> Mode]
  BY DEF Peer, Other, IInv, TypeOK
<1> DEFINE c == cur["client"]
           L == Last(log["server"])
           to == IF want["client"] THEN "get" ELSE "idle"
<1>2. /\ c \in Nat /\ L \in Nat /\ cur["server"] \in Nat
      /\ cur["server"] <= L /\ L <= c
      /\ Serving => cur["server"] < L
  BY Counted
<1>3. /\ mode["client"] = "put" /\ wire["client"] # <<>>
      /\ "ACK" \in Reads(Head(wire["client"]))
      /\ Exchange("client", Tail(wire["client"]), <<>>)
      /\ UNCHANGED <<cur, log, PrevErrors, Errors, want>>
      /\ after' = [after EXCEPT !["client"] = to]
      /\ mode' = [mode EXCEPT !["client"] =
                      IF PrevErrors["client"] > MAX_ERRORS THEN "resync" ELSE to]
  BY DEF PutAck, AfterPut
<1>4. /\ after'["client"] = to /\ after'["server"] = after["server"]
      /\ mode'["client"] = (IF PrevErrors["client"] > MAX_ERRORS THEN "resync" ELSE to)
      /\ mode'["server"] = mode["server"]
  BY <1>1, <1>3
<1>5. <<>> \in Seq(Message) /\ Things(<<>>) = {} BY ThingsNone DEF Things
<1>6. /\ Head(wire["client"]) \in Things(wire["client"])
      /\ Things(wire'["client"]) \subseteq Things(wire["client"])
      /\ Things(wire'["server"]) = Things(wire["server"])
  BY <1>1, <1>3, <1>5, TakenWire
<1>7. ~NoAck(wire["client"])
  <2>1. Head(wire["client"]).kind = "ACK"
    BY <1>3, BoundAssumption DEF Reads
  <2> QED BY <1>6, <2>1 DEF NoAck
<1>8. c > 0
  <2>1. Sending("client") BY <1>3 DEF Sending
  <2>2. c >= 1 BY <1>1, <2>1 DEF IInv, Modes
  <2> QED BY <1>2, <2>2
<1>9. want["client"] \in BOOLEAN BY <1>1 DEF IInv, TypeOK
<1> HIDE DEF c, L, to
<1>10. Asking' BY <1>3, <1>6 DEF Answers, Asking, Asked
<1>11. PrevErrors["client"] \in Int BY <1>1, BoundAssumption DEF IInv, TypeOK
<1>12. Left'
  <2> SUFFICES ASSUME mode'["client"] = "idle"
               PROVE  ~want["client"] /\ PrevErrors["client"] <= MAX_ERRORS
    BY <1>3 DEF Left
  <2>1. ~(PrevErrors["client"] > MAX_ERRORS) /\ to = "idle" BY <1>4
  <2> QED BY <1>11, <2>1, BoundAssumption DEF to
<1>13. Trusting'
  <2> SUFFICES ASSUME Trusted' PROVE Trusting' BY DEF Trusting
  <2>1. ~(PrevErrors["client"] > MAX_ERRORS) /\ mode'["client"] = to
    BY <1>4 DEF Trusted, Sending
  <2>2. Trusted BY <1>3, <1>11, <2>1, BoundAssumption DEF Trusted, Sending
  <2>3. /\ \A m \in Things(wire["client"]) : m.kind = "BLK" => Current(m.blk.id)
        /\ Sending("server") => Current(cur["server"])
        /\ Serving /\ want["server"] => L = c
    BY <2>2 DEF Answers, Trusting, L, c
  <2>4. Serving' <=> Serving BY <1>4 DEF Serving
  <2>5. Sending("server")' <=> Sending("server") BY <1>4 DEF Sending
  <2>6. CASE want["client"]
    <3>1. mode'["client"] # "idle" BY <2>1, <2>6 DEF to
    <3>2. \A id : Current(id) => Current(id)' BY <1>3, <3>1 DEF Current
    <3> QED BY <1>3, <1>6, <2>3, <2>4, <2>5, <3>1, <3>2 DEF Trusting, L, c
  <2>7. CASE ~want["client"]
    <3>1. cur["server"] # c BY <1>8, <2>7 DEF Answers, Wanted, c
    <3>2. \A id : Current(id) /\ id # c => Current(id)' BY <1>3 DEF Current, c
    <3>3. ASSUME NEW m \in Things(wire'["client"]), m.kind = "BLK"
          PROVE  Current(m.blk.id)'
      <4>1. m \in Things(wire["client"]) BY <1>6
      <4>2. m.blk.id \in Nat /\ m.blk.id <= cur["server"]
        BY <1>1, <3>3, <4>1, BlockBounds
      <4>3. m.blk.id # c BY <1>2, <3>1, <4>2
      <4> QED BY <2>3, <3>2, <3>3, <4>1, <4>3
    <3>4. Sending("server")' => Current(cur["server"])'
      <4>1. Current(cur["server"]) => Current(cur["server"])'
        BY <1>3, <3>1 DEF Current, c
      <4> QED BY <2>3, <2>5, <4>1
    <3>5. ~(Serving' /\ want'["server"])
      <4>1. Serving /\ L = c => want["server"] = want["client"]
        BY DEF Answers, Wanted, L, c
      <4> QED BY <1>3, <2>3, <2>4, <2>7, <4>1
    <3> QED BY <3>3, <3>4, <3>5 DEF Trusting
  <2> QED BY <2>6, <2>7
<1>14. Wanted' BY <1>3, <1>4 DEF Answers, Wanted, Serving
<1>15. Meeting'
  <2> SUFFICES ASSUME mode["server"] = "resync", after["server"] = "busy" PROVE Meeting'
    BY <1>4 DEF Meeting
  <2>1. c = L BY <1>7 DEF Answers, Meeting, c, L
  <2>2. PrevErrors["client"] > MAX_ERRORS BY <2>1 DEF Answers, Meeting, c, L
  <2>3. mode'["client"] = "resync" BY <1>4, <2>2
  <2> QED BY <1>3, <2>1, <2>2, <2>3 DEF Meeting, c, L
<1>16. Leaving'
  <2>1. after'["client"] = "idle" => ~want["client"] BY <1>4 DEF to
  <2> QED BY <1>3, <2>1 DEF Leaving
<1> QED BY <1>10, <1>12, <1>13, <1>14, <1>15, <1>16 DEF Kept

\* BlockSend has run out of time: the line is silent, and it has had so many errors that
\* both sides resynchronise with the next request.
LEMMA ClientTimeoutKeeps ==
    ASSUME Patient, IInv, Answers, PutTimeout("client"), ~unheard'
    PROVE  Kept'
<1>1. /\ "client" \in Peer /\ "server" \in Peer
      /\ Other("client") = "server" /\ Other("server") = "client"
      /\ mode \in [Peer -> Mode]
  BY DEF Peer, Other, IInv, TypeOK
<1>2. /\ mode["client"] = "put" /\ tries["client"] = MaxTries
      /\ mode' = [mode EXCEPT !["client"] = "idle"]
      /\ UNCHANGED <<wire, cur, log, PrevErrors, Errors, want, after>>
  BY DEF PutTimeout, AfterPut, link
<1>3. mode'["client"] = "idle" /\ mode'["server"] = mode["server"] BY <1>1, <1>2
<1>4. wire["client"] = <<>> /\ wire["server"] = <<>>
  BY <1>1 DEF PutTimeout, NoAnswer, NoData, Patient
<1>5. NoBlock(wire["server"]) /\ NoAck(wire["client"])
  BY <1>4 DEF NoBlock, NoAck, Things
<1>6. Errors["client"] > MAX_ERRORS
  <2>1. Sending("client") BY <1>2 DEF Sending
  <2>2. Errors["client"] \in Int /\ MaxTries \in Int /\ MAX_ERRORS \in Int
    BY <1>1, BoundAssumption DEF IInv, TypeOK
  <2> QED BY <1>2, <2>1, <2>2 DEF Answers, Tired, Patient
<1>7. Asking' BY <1>2 DEF Answers, Asking, Asked
<1>8. Left' BY <1>2, <1>5 DEF Left
<1>9. Trusting'
  <2>1. Errors["client"] \in Int BY <1>1, BoundAssumption DEF IInv, TypeOK
  <2>2. ~Trusted' BY <1>2, <1>3, <1>6, <2>1, BoundAssumption DEF Trusted, Sending
  <2> QED BY <2>2 DEF Trusting
<1>10. Wanted' BY <1>2, <1>3 DEF Answers, Wanted, Serving
<1>11. Meeting' BY <1>2, <1>3, <1>5 DEF Answers, Meeting
<1>12. Leaving' BY <1>3 DEF Leaving
<1> QED BY <1>7, <1>8, <1>9, <1>10, <1>11, <1>12 DEF Kept

\* The server takes a request: the last one, unless that wants neither an answer nor a
\* resynchronisation.
LEMMA ServerTakeKeeps ==
    ASSUME IInv, Answers, GetBlock("server")
    PROVE  Kept'
<1>1. /\ "client" \in Peer /\ "server" \in Peer
      /\ Other("client") = "server" /\ Other("server") = "client"
      /\ mode \in [Peer -> Mode] /\ after \in [Peer -> Mode] /\ want \in [Peer -> BOOLEAN]
  BY DEF Peer, Other, IInv, TypeOK
<1> DEFINE c == cur["client"]
           L == Last(log["server"])
           h == Head(wire["server"])
           b == h.blk
<1>2. /\ mode["server"] = "get" /\ wire["server"] # <<>> /\ h.kind = "BLK"
      /\ Exchange("server", Tail(wire["server"]), <<Byte("ACK")>>)
      /\ log' = [log EXCEPT !["server"] = Append(@, b.id)]
      /\ want' = [want EXCEPT !["server"] = b.reply]
      /\ after' = [after EXCEPT !["server"] = "busy"]
      /\ mode' = [mode EXCEPT !["server"] =
                      IF b.err > MAX_ERRORS THEN "resync" ELSE "busy"]
      /\ UNCHANGED <<cur, PrevErrors, Errors>>
  BY DEF GetBlock, AfterGet
<1>3. /\ Byte("ACK") \in Message /\ Byte("ACK").kind # "BLK"
      /\ <<Byte("ACK")>> \in Seq(Message) /\ Things(<<Byte("ACK")>>) = {Byte("ACK")}
  <2>1. Byte("ACK") \in Message /\ Byte("ACK").kind # "BLK" BY ByteMessage DEF Ctl
  <2> QED BY <2>1, ThingsOne
<1>4. /\ h \in Things(wire["server"])
      /\ Things(wire'["server"]) \subseteq Things(wire["server"])
      /\ Things(wire'["client"]) = Things(wire["client"]) \cup {Byte("ACK")}
  <2> DEFINE out == <<Byte("ACK")>>
  <2>1. out \in Seq(Message) /\ Things(out) = {Byte("ACK")} BY <1>3
  <2>2. Exchange("server", Tail(wire["server"]), out) BY <1>2
  <2> HIDE DEF out
  <2>3. /\ h \in Things(wire["server"])
        /\ Things(wire'["server"]) \subseteq Things(wire["server"])
        /\ Things(wire'["client"]) = Things(wire["client"]) \cup Things(out)
    BY <1>1, <1>2, <2>1, <2>2, TakenWire
  <2> QED BY <2>1, <2>3
<1>5. /\ b \in Block /\ b.id \in Nat /\ b.id \in 1..MaxPut
      /\ L < b.id /\ b.id <= c /\ L \in Nat /\ c \in Nat
  <2>1. b \in Block BY <1>1, <1>2, <1>4, BlockBounds
  <2>2. L < b.id /\ b.id <= c BY <1>1, TakeNewer
  <2> QED BY <2>1, <2>2, Counted DEF Block
<1>6. b.reply \in BOOLEAN /\ b.err \in Int BY <1>5, BoundAssumption DEF Block
<1>7. Asked(b) BY <1>2, <1>4 DEF Answers, Asking
<1>8. ~NoBlock(wire["server"]) BY <1>2, <1>4 DEF NoBlock
<1>9. Last(log'["server"]) = b.id /\ log'["client"] = log["client"]
  <2>1. log \in [Peer -> Seq(1..MaxPut)] BY DEF IInv, TypeOK
  <2>2. log'["server"] = Append(log["server"], b.id) /\ log'["client"] = log["client"]
    BY <1>1, <1>2, <2>1
  <2> QED BY <1>1, <1>5, <2>1, <2>2, LastFacts
<1>10. /\ want'["server"] = b.reply /\ want'["client"] = want["client"]
       /\ after'["server"] = "busy" /\ after'["client"] = after["client"]
       /\ mode'["client"] = mode["client"]
       /\ mode'["server"] = (IF b.err > MAX_ERRORS THEN "resync" ELSE "busy")
  BY <1>1, <1>2
<1> HIDE DEF c, L, h, b
<1>11. b.reply \/ b.err > MAX_ERRORS =>
          b.id = c /\ b.err = PrevErrors["client"] /\ b.reply = want["client"]
  BY <1>5, <1>6, <1>7, BoundAssumption DEF Asked, c, L
<1>12. mode["client"] = "idle" => ~want["client"] /\ PrevErrors["client"] <= MAX_ERRORS
  BY <1>5, <1>8 DEF Answers, Left, L, c
<1>13. Asking'
  <2> SUFFICES ASSUME NEW m \in Things(wire'["server"]), m.kind = "BLK"
               PROVE  Asked(m.blk)'
    BY DEF Asking
  <2>1. m \in Things(wire["server"]) BY <1>4
  <2>2. Asked(m.blk) BY <2>1 DEF Answers, Asking
  <2>3. m.blk.id \in Nat BY <1>1, <2>1, BlockBounds
  <2>4. b.id < m.blk.id => L < m.blk.id BY <1>5, <2>3
  <2> QED BY <1>2, <1>9, <1>10, <2>2, <2>4 DEF Asked, L
<1>14. Left' BY <1>2, <1>10, <1>12 DEF Left
<1>15. Trusting'
  <2> SUFFICES ASSUME Trusted' PROVE Trusting' BY DEF Trusting
  <2>1. Trusted BY <1>2, <1>10 DEF Trusted, Sending
  <2>2. \A id : Current(id) => Current(id)' BY <1>2, <1>9, <1>10 DEF Current
  <2>3. \A m \in Things(wire'["client"]) : m.kind = "BLK" => Current(m.blk.id)'
    BY <1>3, <1>4, <2>1, <2>2 DEF Answers, Trusting
  <2>4. ~Sending("server")' BY <1>10 DEF Sending
  <2>5. want'["server"] => mode'["client"] # "idle" /\ Last(log'["server"]) = cur'["client"]
    BY <1>2, <1>9, <1>10, <1>11, <1>12 DEF c
  <2> QED BY <2>3, <2>4, <2>5 DEF Trusting
<1>16. Wanted'
  <2>1. b.id = c => b.reply = want["client"] BY <1>7 DEF Asked, c
  <2> QED BY <1>2, <1>9, <1>10, <2>1 DEF Answers, Wanted, c
<1>17. Meeting'
  <2> SUFFICES ASSUME mode'["server"] = "resync" PROVE Meeting' BY DEF Meeting
  <2>1. b.err > MAX_ERRORS BY <1>10
  <2>2. mode["client"] # "idle"
    <3>1. PrevErrors["client"] > MAX_ERRORS BY <1>11, <2>1
    <3>2. PrevErrors["client"] \in Int BY <1>1, BoundAssumption DEF IInv, TypeOK
    <3> QED BY <1>12, <3>1, <3>2, BoundAssumption
  <2> QED BY <1>2, <1>9, <1>10, <1>11, <2>1, <2>2 DEF Meeting, c
<1>18. Leaving' BY <1>2, <1>10 DEF Answers, Leaving
<1> QED BY <1>13, <1>14, <1>15, <1>16, <1>17, <1>18 DEF Kept

\* The debugger takes an answer: it is the answer to the request it has put last, and the
\* server has nothing more to answer.
LEMMA ClientTakes ==
    ASSUME IInv, Answers, GetBlock("client")
    PROVE  /\ Head(wire["client"]).blk.id = cur["client"]
           /\ Last(log'["client"]) = cur["client"] /\ log'["server"] = log["server"]
           /\ cur["server"] = cur["client"] /\ Last(log["server"]) = cur["client"]
<1>1. /\ "client" \in Peer /\ "server" \in Peer
      /\ Other("client") = "server" /\ Other("server") = "client"
      /\ log \in [Peer -> Seq(1..MaxPut)]
  BY DEF Peer, Other, IInv, TypeOK
<1> DEFINE h == Head(wire["client"])
           b == h.blk
<1>2. /\ mode["client"] = "get" /\ wire["client"] # <<>> /\ h.kind = "BLK"
      /\ log' = [log EXCEPT !["client"] = Append(@, b.id)]
  BY DEF GetBlock
<1>3. h \in Things(wire["client"])
  <2>1. wire["client"] \in Seq(Message) BY <1>1, DirectionTypes
  <2> QED BY <1>2, <2>1, ThingsTail
<1>4. b \in Block /\ b.id \in Nat BY <1>1, <1>2, <1>3, BlockBounds
<1>5. Last(log["client"]) < b.id /\ b.id <= cur["server"] BY <1>1, TakeNewer
<1>6. log'["client"] = Append(log["client"], b.id) /\ log'["server"] = log["server"]
  BY <1>1, <1>2
<1>7. b.id \in 1..MaxPut BY <1>4 DEF Block
<1>8. Last(log'["client"]) = b.id BY <1>1, <1>6, <1>7, LastFacts
<1>9. Trusted BY <1>2 DEF Trusted
<1>10. Current(b.id) BY <1>2, <1>3, <1>9 DEF Answers, Trusting
<1>11. Last(log["client"]) \in Nat BY Counted
<1> HIDE DEF h, b
<1>12. b.id = cur["client"] BY <1>4, <1>5, <1>10, <1>11 DEF Current
<1>13. cur["server"] = cur["client"] /\ Last(log["server"]) = cur["client"]
  BY <1>5, <1>12, Counted
<1> QED BY <1>6, <1>8, <1>12, <1>13 DEF h, b

LEMMA ClientTakeKeeps ==
    ASSUME IInv, Answers, GetBlock("client")
    PROVE  Kept'
<1>1. /\ "client" \in Peer /\ "server" \in Peer
      /\ Other("client") = "server" /\ Other("server") = "client"
      /\ mode \in [Peer -> Mode] /\ after \in [Peer -> Mode]
  BY DEF Peer, Other, IInv, TypeOK
<1>2. /\ Last(log'["client"]) = cur["client"] /\ log'["server"] = log["server"]
      /\ cur["server"] = cur["client"] /\ Last(log["server"]) = cur["client"]
  BY ClientTakes
<1>3. /\ wire["client"] # <<>>
      /\ Exchange("client", Tail(wire["client"]), <<Byte("ACK")>>)
      /\ \E to \in Mode : mode' = [mode EXCEPT !["client"] = to]
      /\ after' = [after EXCEPT !["client"] = "idle"]
      /\ UNCHANGED <<cur, PrevErrors, Errors, want>>
  BY DEF GetBlock, AfterGet, Mode
<1>4. mode'["server"] = mode["server"] /\ after'["server"] = after["server"]
  BY <1>1, <1>3
<1>5. /\ <<Byte("ACK")>> \in Seq(Message) /\ Things(<<Byte("ACK")>>) = {Byte("ACK")}
      /\ Byte("ACK").kind # "BLK"
  <2>1. Byte("ACK") \in Message /\ Byte("ACK").kind # "BLK" BY ByteMessage DEF Ctl
  <2> QED BY <2>1, ThingsOne
<1>6. /\ Things(wire'["client"]) \subseteq Things(wire["client"])
      /\ Things(wire'["server"]) = Things(wire["server"]) \cup {Byte("ACK")}
  <2> DEFINE out == <<Byte("ACK")>>
  <2>1. out \in Seq(Message) /\ Things(out) = {Byte("ACK")} BY <1>5
  <2>2. Exchange("client", Tail(wire["client"]), out) BY <1>3
  <2> HIDE DEF out
  <2>3. /\ Things(wire'["client"]) \subseteq Things(wire["client"])
        /\ Things(wire'["server"]) = Things(wire["server"]) \cup Things(out)
    BY <1>1, <1>3, <2>1, <2>2, TakenWire
  <2> QED BY <2>1, <2>3
<1>7. ~Serving /\ ~Serving' /\ cur["server"] \in Nat
  <2>1. ~Serving /\ cur["server"] \in Nat BY <1>2, Counted
  <2> QED BY <1>4, <2>1 DEF Serving
<1>8. Asking'
  <2> SUFFICES ASSUME NEW m \in Things(wire'["server"]), m.kind = "BLK"
               PROVE  Asked(m.blk)'
    BY DEF Asking
  <2>1. m \in Things(wire["server"]) BY <1>5, <1>6
  <2>2. Asked(m.blk) BY <2>1 DEF Answers, Asking
  <2> QED BY <1>2, <1>3, <2>2 DEF Asked
<1>9. Left' BY <1>2, <1>3 DEF Left
<1>10. Trusting'
  <2>1. \A m \in Things(wire'["client"]) : m.kind = "BLK" => Current(m.blk.id)'
    <3> SUFFICES ASSUME NEW m \in Things(wire'["client"]), m.kind = "BLK"
                 PROVE  Current(m.blk.id)'
      OBVIOUS
    <3>1. m.blk.id <= cur["server"] BY <1>1, <1>6, BlockBounds
    <3> QED BY <1>2, <3>1 DEF Current
  <2>2. Current(cur["server"])' BY <1>2, <1>3, <1>7 DEF Current
  <2> QED BY <1>7, <2>1, <2>2 DEF Trusting
<1>11. Wanted' BY <1>3, <1>7 DEF Answers, Wanted
<1>12. Meeting' BY <1>7 DEF Meeting, Serving
<1>13. Leaving' BY <1>2, <1>3 DEF Leaving
<1> QED BY <1>8, <1>9, <1>10, <1>11, <1>12, <1>13 DEF Kept

\* Both sides meet in ReSync, and nothing of the time before is left on the line.
LEMMA ReSyncKeeps ==
    ASSUME IInv, Answers, ReSync
    PROVE  Kept'
<1>1. "client" \in Peer /\ "server" \in Peer BY DEF Peer
<1>2. /\ mode["client"] = "resync" /\ mode["server"] = "resync" /\ mode' = after
      /\ wire'["client"] = <<>> /\ wire'["server"] = <<>>
      /\ UNCHANGED <<cur, log, PrevErrors, Errors, want, after>>
  BY <1>1 DEF ReSync, link
<1>3. Things(wire'["client"]) = {} /\ Things(wire'["server"]) = {} BY <1>2 DEF Things
<1>4. after["client"] \in {"idle", "get", "busy"} /\ after["server"] \in {"idle", "get", "busy"}
  BY <1>1 DEF IInv, Modes
<1>5. Asking' BY <1>3 DEF Asking
<1>6. Left' BY <1>3 DEF Left, NoBlock
<1>7. Serving' => after["server"] = "busy" BY <1>2, <1>4 DEF Serving
<1>8. after["server"] = "busy" =>
          Serving /\ Last(log["server"]) = cur["client"] /\ cur["server"] # cur["client"]
  <2> SUFFICES ASSUME after["server"] = "busy"
               PROVE  /\ Serving /\ Last(log["server"]) = cur["client"]
                      /\ cur["server"] # cur["client"]
    OBVIOUS
  <2>1. Serving BY <1>2 DEF Serving
  <2>2. Last(log["server"]) = cur["client"] BY <1>2 DEF Answers, Meeting
  <2> QED BY <2>1, <2>2, Counted
<1>9. Trusting'
  <2>1. ~Sending("server")' BY <1>2, <1>4 DEF Sending
  <2>2. ASSUME Serving', want'["server"]
        PROVE  mode'["client"] # "idle" /\ Last(log'["server"]) = cur'["client"]
    <3>1. /\ Serving /\ Last(log["server"]) = cur["client"]
          /\ cur["server"] # cur["client"]
      BY <1>7, <1>8, <2>2
    <3>2. want["client"] BY <1>2, <2>2, <3>1 DEF Answers, Wanted
    <3>3. after["client"] # "idle" BY <1>2, <3>1, <3>2 DEF Answers, Leaving
    <3> QED BY <1>2, <3>1, <3>3
  <2> QED BY <1>3, <2>1, <2>2 DEF Trusting
<1>10. Wanted' BY <1>2, <1>7, <1>8 DEF Answers, Wanted
<1>11. Meeting' BY <1>2, <1>4 DEF Meeting
<1>12. Leaving' BY <1>2, <1>4 DEF Leaving
<1> QED BY <1>5, <1>6, <1>9, <1>10, <1>11, <1>12 DEF Kept

-----------------------------------------------------------------------------
(* The whole system *)

\* While a side sends, every silent wait is one more error.
LEMMA TiredStep ==
    ASSUME IInv, Tired, Next
    PROVE  Tired'
<1>1. /\ "client" \in Peer /\ "server" \in Peer
      /\ Other("client") = "server" /\ Other("server") = "client"
      /\ mode \in [Peer -> Mode] /\ after["client"] \in {"idle", "get", "busy"}
      /\ Errors \in [Peer -> 0..(MAX_ERRORS + 1)] /\ tries \in [Peer -> 0..MaxTries]
      /\ MAX_ERRORS \in Nat /\ MaxTries \in Nat
  BY BoundAssumption DEF Peer, Other, IInv, TypeOK, Modes
<1>2. Errors["client"] \in Nat /\ tries["client"] \in Nat BY <1>1
<1>3. SUFFICES ASSUME Sending("client")'
               PROVE  tries'["client"] <= Errors'["client"] \/ Errors'["client"] > MAX_ERRORS
  BY DEF Tired
<1>4. CASE /\ Sending("client")
           /\ tries'["client"] = tries["client"] /\ Errors'["client"] = Errors["client"]
  BY <1>4 DEF Tired
<1>5. CASE tries'["client"] = 0 /\ Errors'["client"] \in Nat BY <1>5
<1>6. CASE /\ Sending("client") /\ Errors'["client"] = OneMore(Errors["client"])
           /\ tries'["client"] \in Nat /\ tries'["client"] <= tries["client"] + 1
  BY <1>1, <1>2, <1>6 DEF Tired, OneMore
<1>7. OneMore(Errors["client"]) \in Nat BY <1>1, <1>2 DEF OneMore
<1>8. CASE Request BY <1>1, <1>5, <1>8 DEF Request, RemotePut
<1>9. CASE \/ Reply \/ NoReply \/ ReSyncHi \/ Fault
           \/ \E p \in Peer : WaitReceive(p) \/ ReSyncRead(p)
  <2>1. /\ tries'["client"] = tries["client"] /\ Errors'["client"] = Errors["client"]
    BY <1>1, <1>9 DEF Reply, RemotePut, NoReply, ReSyncHi, Fault, WaitReceive, GetBlock,
       GetWrongNumber, GetDamaged, GetTooLong, GetRlr, GetOther, ReSyncRead, link
  <2>2. mode'["client"] \in {mode["client"], "idle", "resync"}
    BY <1>1, <1>9 DEF Reply, RemotePut, NoReply, ReSyncHi, Fault, WaitReceive, GetBlock,
       GetWrongNumber, GetDamaged, GetTooLong, GetRlr, GetOther, ReSyncRead, link, AfterGet
  <2> QED BY <1>3, <1>4, <2>1, <2>2 DEF Sending
<1>10. CASE ReSync BY <1>1, <1>3, <1>10 DEF ReSync, Sending
<1>11. CASE BlockSend("server")
  <2>1. /\ tries'["client"] = tries["client"] /\ Errors'["client"] = Errors["client"]
        /\ mode'["client"] = mode["client"]
    BY <1>1, <1>11 DEF BlockSend, PutAck, PutNak, PutRlr, PutOther, Discard, Discarded,
       PutSilence, PutTimeout, link
  <2> QED BY <1>3, <1>4, <2>1 DEF Sending
<1>12. CASE BlockSend("client")
  <2>1. CASE PutAck("client") \/ PutTimeout("client")
    <3>1. ~Sending("client")'
      BY <1>1, <2>1 DEF PutAck, PutTimeout, AfterPut, Sending
    <3> QED BY <1>3, <3>1
  <2>2. CASE PutNak("client") BY <1>1, <1>5, <1>7, <2>2 DEF PutNak
  <2>3. CASE PutRlr("client") BY <1>1, <1>2, <1>5, <2>3 DEF PutRlr
  <2>4. CASE PutOther("client") \/ Discard("client")
    BY <1>1, <1>4, <2>4 DEF PutOther, Discard, Sending, link
  <2>5. CASE Discarded("client")
    <3>1. Sending("client") /\ Errors'["client"] = OneMore(Errors["client"])
      BY <1>1, <2>5 DEF Discarded, Sending
    <3>2. \/ tries'["client"] = tries["client"]
          \/ tries'["client"] = tries["client"] + 1
      BY <1>1, <2>5 DEF Discarded
    <3> QED BY <1>2, <1>6, <3>1, <3>2
  <2>6. CASE PutSilence("client")
    <3>1. /\ Sending("client") /\ Errors'["client"] = OneMore(Errors["client"])
          /\ tries'["client"] = tries["client"] + 1
      BY <1>1, <2>6 DEF PutSilence, Sending
    <3> QED BY <1>2, <1>6, <3>1
  <2> QED BY <1>12, <2>1, <2>2, <2>3, <2>4, <2>5, <2>6 DEF BlockSend
<1> QED BY <1>8, <1>9, <1>10, <1>11, <1>12 DEF Next, Carry, Peer

LEMMA KeptStep ==
    ASSUME Patient, IInv, Answers, Next, ~unheard'
    PROVE  Kept'
<1>1. ASSUME NEW p \in Peer, Chats(p) PROVE Kept' BY <1>1, ChatKeeps DEF Kept
<1>2. CASE Request BY <1>2, RequestKeeps
<1>3. CASE Reply BY <1>3, ReplyKeeps
<1>4. CASE NoReply BY <1>4, ServerRestsSteps
<1>5. CASE ReSyncHi
  <2>1. Chats("client") BY <1>5, GetChats DEF Peer
  <2> QED BY <1>1, <2>1 DEF Peer
<1>6. CASE ReSync BY <1>6, ReSyncKeeps
<1>7. CASE Fault BY <1>1, <1>7, FaultChats DEF Peer
<1>8. ASSUME NEW p \in Peer, BlockSend(p) PROVE Kept'
  <2>1. CASE PutAck(p) \/ PutTimeout(p)
    BY <2>1, ServerRestsSteps, ClientAckKeeps, ClientTimeoutKeeps DEF Peer
  <2>2. CASE \/ PutNak(p) \/ PutRlr(p) \/ PutOther(p) \/ Discard(p) \/ Discarded(p)
             \/ PutSilence(p)
    BY <1>1, <2>2, PutChats
  <2> QED BY <1>8, <2>1, <2>2 DEF BlockSend
<1>9. ASSUME NEW p \in Peer, WaitReceive(p) \/ ReSyncRead(p) PROVE Kept'
  <2>1. CASE GetBlock(p) BY <2>1, ServerTakeKeeps, ClientTakeKeeps DEF Peer
  <2>2. CASE \/ GetWrongNumber(p) \/ GetDamaged(p) \/ GetTooLong(p) \/ GetRlr(p)
             \/ GetOther(p) \/ ReSyncRead(p)
    BY <1>1, <2>2, GetChats
  <2> QED BY <1>9, <2>1, <2>2 DEF WaitReceive
<1> QED BY <1>2, <1>3, <1>4, <1>5, <1>6, <1>7, <1>8, <1>9 DEF Next, Carry

LEMMA AnswersInit == Init => Answers
<1> SUFFICES ASSUME Init PROVE Answers OBVIOUS
<1>1. /\ mode["client"] = "idle" /\ mode["server"] = "get"
      /\ wire["client"] = <<>> /\ wire["server"] = <<>>
      /\ cur["client"] = 0 /\ want["server"] = FALSE
  BY DEF Init, Peer
<1>2. Things(wire["client"]) = {} /\ Things(wire["server"]) = {} BY <1>1 DEF Things
<1>3. ~Serving /\ ~Sending("client") /\ ~Sending("server")
  BY <1>1 DEF Serving, Sending
<1> QED
  BY <1>1, <1>2, <1>3 DEF Answers, Asking, Left, NoBlock, Trusting, Wanted, Tired, Meeting,
     Leaving

\* What a put has given up stays given up.
LEMMA UnheardStays == [Next]_vars => (unheard => unheard')
<1> SUFFICES ASSUME [Next]_vars, unheard PROVE unheard' OBVIOUS
<1>1. ASSUME NEW p \in Peer, BlockSend(p) PROVE unheard'
  BY <1>1 DEF BlockSend, PutAck, PutNak, PutRlr, PutOther, Discard, Discarded, PutSilence,
              PutTimeout
<1>2. ASSUME NEW p \in Peer, WaitReceive(p) \/ ReSyncRead(p) PROVE unheard'
  BY <1>2 DEF WaitReceive, GetBlock, GetWrongNumber, GetDamaged, GetTooLong, GetRlr,
              GetOther, ReSyncRead
<1>3. CASE Request \/ Reply \/ NoReply \/ ReSyncHi \/ ReSync \/ Fault \/ UNCHANGED vars
  BY <1>3 DEF Request, Reply, RemotePut, NoReply, ReSyncHi, ReSync, Fault, vars
<1> QED BY <1>1, <1>2, <1>3 DEF Next, Carry

LEMMA AnswersNext ==
    Patient /\ IInv /\ Answers /\ [Next]_vars => unheard' \/ Answers'
<1> SUFFICES ASSUME Patient, IInv, Answers, [Next]_vars, ~unheard' PROVE Answers' OBVIOUS
<1>1. CASE Next
  <2>1. Kept' BY <1>1, KeptStep
  <2>2. Tired' BY <1>1, TiredStep DEF Answers
  <2> QED BY <2>1, <2>2 DEF Answers, Kept
<1>2. CASE UNCHANGED vars
  BY <1>2 DEF vars, link, Answers, Asking, Asked, Left, NoBlock, Trusting, Trusted, Current,
     Wanted, Tired, Meeting, NoAck, Leaving, Serving, Sending
<1> QED BY <1>1, <1>2

LEMMA AnswersStep ==
    IInv /\ Answers /\ [Next]_vars =>
        (log'["client"] # log["client"] => Last(log'["client"]) = cur["client"])
<1> SUFFICES ASSUME IInv, Answers, [Next]_vars, log'["client"] # log["client"]
             PROVE  Last(log'["client"]) = cur["client"]
  OBVIOUS
<1>1. log \in [Peer -> Seq(1..MaxPut)] BY DEF IInv, TypeOK
<1>2. ASSUME Request \/ Reply \/ NoReply \/ ReSyncHi \/ ReSync \/ Fault \/ UNCHANGED vars
      PROVE  log' = log
  BY <1>2 DEF vars, Request, Reply, NoReply, RemotePut, ReSyncHi, ReSync, Fault
<1>3. ASSUME NEW p \in Peer, BlockSend(p) PROVE log' = log
  BY <1>3 DEF BlockSend, PutAck, PutNak, PutRlr, PutOther, Discard, Discarded, PutSilence,
              PutTimeout
<1>4. ASSUME NEW p \in Peer, WaitReceive(p) \/ ReSyncRead(p), ~GetBlock(p) PROVE log' = log
  BY <1>4 DEF WaitReceive, GetWrongNumber, GetDamaged, GetTooLong, GetRlr, GetOther,
              ReSyncRead
<1>5. ASSUME GetBlock("server") PROVE log'["client"] = log["client"]
  BY <1>1, <1>5 DEF GetBlock, Peer
<1>6. GetBlock("client")
  <2>1. log' # log OBVIOUS
  <2>2. PICK p \in Peer : BlockSend(p) \/ WaitReceive(p) \/ ReSyncRead(p)
    BY <1>2, <2>1 DEF Next, Carry
  <2>3. GetBlock(p) BY <1>3, <1>4, <2>1, <2>2
  <2> QED BY <1>5, <2>3 DEF Peer
<1> QED BY <1>6, ClientTakes

\* remote.c DoRequest: whatever the line loses or damages, and however often a block is
\* sent again, the answer the debugger reads is the answer to the request it has just put,
\* as long as no side has given up a put while the other one was outside of the link, if
\* no side stops waiting while an answer is on its way, and if a put that runs out of time
\* has had enough errors for a resynchronisation.
THEOREM AnswersAreCurrent == Patient => (Spec => AnswersCurrent)
<1> SUFFICES ASSUME Patient PROVE Spec => AnswersCurrent OBVIOUS
<1>1. Init => unheard \/ Answers BY AnswersInit
<1>2. IInv /\ (unheard \/ Answers) /\ [Next]_vars => (unheard \/ Answers)'
  BY AnswersNext, UnheardStays
<1>3. IInv /\ (unheard \/ Answers) /\ [Next]_vars =>
          [log'["client"] # log["client"] /\ ~unheard =>
              Last(log'["client"]) = cur["client"]]_vars
  BY AnswersStep
<1> QED BY <1>1, <1>2, <1>3, Invariance, PTL DEF Spec, AnswersCurrent
-----------------------------------------------------------------------------
(* The reliable channel.  One fault between two rests of the line: at each  *)
(* place of the two sides it is known what may be on the way.  p is the     *)
(* side whose block is on its way or was taken last, o the other one.       *)

\* One fault, no wait that is too short, and numbers that do not run away from
\* what the header has room for.
OneFault ==
    /\ MaxFault <= 1 /\ MaxTries >= 1
    /\ Noise = {} /\ ~OneWay /\ ~Premature
    /\ UInt = Wire \/ MaxPut < Wire

Spent == faults = MaxFault

\* What is on the way: what is left of earlier blocks, the answers NAK and what
\* follows them.
Leftover == {m \in Message : m.kind \in {"BLK", "JUNK"}}
Nak == Byte("NAK")
Ack == Byte("ACK")
Rlr == Byte("RLR")
NaksThen(w, t) == \E n \in Seq({Nak}) : w = n \o t

\* The last block of p was taken and p knows; it is on its way; or it was taken
\* and p does not know.
Settled(p, o) ==
    /\ cur[p] = Last(log[o]) /\ ReceiveBlkNo[o] = SendBlkNo[p]
    /\ UInt = Wire \/ SendBlkNo[p] = cur[p] + 1
    /\ p = "client" /\ cur[p] # 0 => want[p] /\ want[o]
Pending(p, o) ==
    /\ Last(log[o]) < cur[p] /\ ReceiveBlkNo[o] = SendBlkNo[p]
    /\ UInt = Wire \/ SendBlkNo[p] = cur[p]
    /\ p = "client" => want[p]
Unconfirmed(p, o) ==
    /\ cur[p] = Last(log[o]) /\ ReceiveBlkNo[o] = NextNo(SendBlkNo[p])
    /\ UInt = Wire \/ SendBlkNo[p] = cur[p]
    /\ p = "client" => want[p] /\ want[o]

\* p has put last.
PutLast(p) == cur["client"] = cur["server"] + (IF p = "client" THEN 1 ELSE 0)

\* It is p's turn to put a block, and o waits for it.
Turn(p, o) ==
    /\ mode[p] = AfterGet(p) /\ mode[o] = "get"
    /\ Settled(p, o) /\ Settled(o, p) /\ PutLast(o)
    /\ wire[o] = <<>> /\ wire[p] \in Seq(Leftover)
    /\ wire[p] # <<>> => Spent /\ Errors[p] <= MAX_ERRORS

\* p's block is on its way, as it was put ...
Coming(p, o) ==
    /\ mode[p] \in {"put", "drain"} /\ mode[o] = "get"
    /\ Pending(p, o) /\ Settled(o, p) /\ PutLast(p)
    /\ wire[o] = <<Outgoing(p)>> /\ wire[p] \in Seq(Leftover)
    /\ wire[p] # <<>> \/ mode[p] = "drain" => Spent /\ PrevErrors[p] <= MAX_ERRORS
    /\ tries[p] = 0

\* ... or it was lost or damaged, and is asked for and sent again.
Repair(p, o) ==
    /\ mode[p] = "put" /\ mode[o] = "get"
    /\ Pending(p, o) /\ Settled(o, p) /\ PutLast(p)
    /\ Spent /\ PrevErrors[p] <= MAX_ERRORS /\ Errors[o] <= MAX_ERRORS
    /\ \/ /\ wire[o] \in Seq({Junk, Outgoing(p)}) /\ wire[p] \in Seq({Nak})
          /\ wire[p] # <<>> \/ tries[p] < MaxTries
       \/ wire[o] = <<Rlr>> /\ wire[p] = <<>>

\* o has taken the block.  The ACK is on its way, behind NAKs perhaps; it will
\* not be heard because of what is before it; it is lost and p asks for it; or
\* p throws away what comes in.
AckComes(p, o) ==
    /\ mode[p] = "put"
    /\ NaksThen(wire[p], <<Ack>>) /\ wire[o] \in Seq(Leftover)
    /\ wire[p] # <<Ack>> \/ wire[o] # <<>> => Spent /\ Errors[o] <= MAX_ERRORS
AckBuried(p, o) ==
    /\ mode[p] = "put" /\ Spent
    /\ wire[p] # <<>> /\ Head(wire[p]) \in Leftover /\ wire[o] = <<>>
AckLost(p, o) ==
    /\ mode[p] = "put" /\ Spent
    /\ wire[p] = <<>> /\ wire[o] \in Seq({Rlr})
AckDrained(p, o) == mode[p] = "drain" /\ Spent /\ wire[o] = <<>>

Taken(p, o) ==
    /\ mode[o] = AfterGet(o)
    /\ Unconfirmed(p, o) /\ Settled(o, p) /\ PutLast(p)
    /\ LastResponse[o] = "ACK" /\ PrevErrors[p] <= MAX_ERRORS
    /\ AckComes(p, o) \/ AckBuried(p, o) \/ AckLost(p, o) \/ AckDrained(p, o)

\* o has gone on and put its own block, while p still waits.
BothComing(p, o) ==
    /\ mode[p] = "put" /\ Sending(o)
    /\ NaksThen(wire[p], <<Ack, Outgoing(o)>>) /\ wire[o] \in Seq(Leftover)
    /\ wire[p] # <<Ack, Outgoing(o)>> \/ wire[o] # <<>> \/ mode[o] = "drain" =>
          Spent /\ PrevErrors[o] <= MAX_ERRORS
BothHurt(p, o) ==
    /\ mode[p] = "put" /\ mode[o] = "put" /\ Spent
    /\ Errors[p] <= MAX_ERRORS /\ PrevErrors[o] <= MAX_ERRORS
    /\ \E j \in Seq({Junk}) : wire[p] = <<Ack>> \o j
    /\ wire[o] = <<>>
BothBuried(p, o) ==
    /\ mode[p] = "put" /\ mode[o] = "put" /\ Spent
    /\ wire[p] # <<>> /\ Head(wire[p]) \in Leftover
    /\ wire[o] \in Seq({Rlr})
BothAsking(p, o) ==
    /\ mode[p] = "put" /\ mode[o] = "put" /\ Spent
    /\ wire[p] = <<>> /\ wire[o] = <<Rlr>>
BothDrained(p, o) ==
    /\ mode[p] = "drain" /\ mode[o] = "put" /\ Spent
    /\ wire[o] \in Seq({Rlr})

Crossed(p, o) ==
    /\ Unconfirmed(p, o) /\ Pending(o, p) /\ PutLast(o)
    /\ LastResponse[o] = "ACK" /\ PrevErrors[p] <= MAX_ERRORS
    /\ tries[o] = 0
    /\ BothComing(p, o) \/ BothHurt(p, o) \/ BothBuried(p, o) \/ BothAsking(p, o)
       \/ BothDrained(p, o)

\* The error count of p makes both sides resynchronise: o first, then p.
HalfSync(p, o) ==
    /\ mode[p] = "put" /\ mode[o] = "resync" /\ after[o] = AfterGet(o)
    /\ Unconfirmed(p, o) /\ Settled(o, p) /\ PutLast(p)
    /\ PrevErrors[p] > MAX_ERRORS
    /\ wire[p] = <<Ack>> /\ wire[o] = <<>> /\ Spent
FullSync(p, o) ==
    /\ mode[p] = "resync" /\ mode[o] = "resync"
    /\ after[p] = "get" /\ after[o] = AfterGet(o)
    /\ Settled(p, o) /\ Settled(o, p) /\ PutLast(p)
    /\ wire[p] = <<>> /\ wire[o] = <<>>

Stage(p, o) ==
    \/ Turn(p, o) \/ Coming(p, o) \/ Repair(p, o) \/ Taken(p, o)
    \/ Crossed(p, o) \/ HalfSync(p, o) \/ FullSync(p, o)

\* Too many errors take a fault.
Blamed == \A q \in Peer :
             /\ Errors[q] > MAX_ERRORS => Spent
             /\ Sending(q) /\ PrevErrors[q] > MAX_ERRORS => Spent

Single == Blamed /\ \E p, o \in Peer : p # o /\ Stage(p, o)

-----------------------------------------------------------------------------
(* Sequences of messages of some kinds, what is left of them, and what they *)
(* are read as                                                             *)

LEMMA KindFacts ==
    /\ Ack \in Message /\ Nak \in Message /\ Rlr \in Message /\ Junk \in Message
    /\ Ack.kind = "ACK" /\ Nak.kind = "NAK" /\ Rlr.kind = "RLR" /\ Junk.kind = "JUNK"
    /\ Junk \in Leftover /\ Ack \notin Leftover /\ Nak \notin Leftover /\ Rlr \notin Leftover
    /\ Byte("ACK") = Ack /\ Byte("NAK") = Nak /\ Byte("RLR") = Rlr
    /\ Leftover \subseteq Message
BY DEF Ack, Nak, Rlr, Byte, Junk, Message, Ctl, Leftover

\* What the first byte of a message is taken for, where junk is no control byte.
LEMMA ReadFacts ==
    ASSUME OneFault, NEW m \in Message
    PROVE  /\ "ACK" \in Reads(m) <=> m = Ack
           /\ "NAK" \in Reads(m) <=> m = Nak
           /\ "RLR" \in Reads(m) <=> m = Rlr
           /\ Reads(m) \cap {"STX", "OTHER"} # {} <=> m \in Leftover
           /\ m \in Leftover <=> m.kind = "BLK" \/ m = Junk
<1>1. \/ \E c \in Ctl : m = Byte(c)
      \/ \E b \in Block : m = Frame(b)
      \/ m = Junk
  BY DEF Message
<1>2. CASE \E c \in Ctl : m = Byte(c)
  <2>1. PICK c \in {"ACK", "NAK", "RLR"} : m = Byte(c) BY <1>2 DEF Ctl
  <2>2. m.kind = c /\ Reads(m) = {c} BY <2>1 DEF Byte, Reads
  <2>3. \A d \in {"ACK", "NAK", "RLR"} : m = Byte(d) <=> c = d BY <2>1 DEF Byte
  <2> QED BY <2>1, <2>2, <2>3, KindFacts DEF Leftover
<1>3. CASE \E b \in Block : m = Frame(b)
  <2>1. m.kind = "BLK" /\ Reads(m) = {"STX"} BY <1>3 DEF Frame, Reads
  <2> QED BY <2>1, KindFacts DEF Leftover
<1>4. CASE m = Junk
  <2>1. m.kind = "JUNK" /\ Reads(m) = {"STX", "OTHER"}
    BY <1>4, KindFacts DEF Reads, OneFault
  <2> QED BY <1>4, <2>1, KindFacts DEF Leftover
<1> QED BY <1>1, <1>2, <1>3, <1>4

LEMMA SeqRest ==
    ASSUME NEW S, NEW w \in Seq(S), w # <<>>
    PROVE  Head(w) \in S /\ Tail(w) \in Seq(S)
BY HeadTailProperties

LEMMA SeqMore ==
    ASSUME NEW S, NEW w \in Seq(S), NEW m \in S
    PROVE  w \o <<m>> \in Seq(S) /\ w \o <<m>> # <<>>
<1>1. <<m>> \in Seq(S) /\ Len(<<m>>) = 1 OBVIOUS
<1>2. w \o <<m>> \in Seq(S) /\ Len(w \o <<m>>) = Len(w) + 1 BY <1>1, ConcatProperties
<1>3. Len(w) \in Nat /\ Len(<<>>) = 0 BY LenProperties
<1> QED BY <1>2, <1>3

LEMMA SeqLarger ==
    ASSUME NEW S, NEW T, S \subseteq T, NEW w \in Seq(S)
    PROVE  w \in Seq(T)
<1>1. Len(w) \in Nat /\ w \in [1..Len(w) -> S] BY LenProperties, SeqDef
<1>2. w \in [1..Len(w) -> T] BY <1>1
<1> QED BY <1>1, <1>2, SeqDef

\* What ClearCom leaves of messages of the kinds S.
LEMMA SeqRemains ==
    ASSUME NEW S, S \subseteq Message, NEW w \in Seq(S), NEW t \in Remains(w)
    PROVE  /\ t \in Seq(S \cup {Junk}) /\ t \in Seq(Message)
           /\ (\A m \in S : m.kind # "BLK") => t \in Seq(S)
           /\ w = <<>> => t = <<>>
<1>1. Len(w) \in Nat /\ w \in [1..Len(w) -> S] /\ DOMAIN w = 1..Len(w)
  BY LenProperties, SeqDef
<1>2. \A k \in 0..Len(w) : SubSeq(w, k + 1, Len(w)) \in Seq(S)
  <2> SUFFICES ASSUME NEW k \in 0..Len(w) PROVE SubSeq(w, k + 1, Len(w)) \in Seq(S)
    OBVIOUS
  <2>1. \A i \in (k + 1)..Len(w) : w[i] \in S BY <1>1
  <2>2. k + 1 \in 1..(Len(w) + 1) /\ Len(w) \in (k + 1 - 1)..Len(w) BY <1>1
  <2> QED BY <2>1, <2>2, SubSeqProperties, <1>1
<1> DEFINE T == S \cup {Junk}
<1>3. \A k \in 0..Len(w) : SubSeq(w, k + 1, Len(w)) \in Seq(T) BY <1>2, SeqLarger
<1>4. <<Junk>> \in Seq(T) OBVIOUS
<1> HIDE DEF T
<1>5. \A k \in 0..Len(w) : <<Junk>> \o SubSeq(w, k + 1, Len(w)) \in Seq(T)
  BY <1>3, <1>4, ConcatProperties
<1>6. \/ \E k \in 0..Len(w) : t = SubSeq(w, k + 1, Len(w))
      \/ \E k \in 1..Len(w) : w[k].kind = "BLK" /\ t = <<Junk>> \o SubSeq(w, k + 1, Len(w))
  BY DEF Remains
<1>6a. 1..Len(w) \subseteq 0..Len(w) BY <1>1
<1>7. t \in Seq(T)
  <2>1. CASE \E k \in 0..Len(w) : t = SubSeq(w, k + 1, Len(w)) BY <1>3, <2>1
  <2>2. CASE \E k \in 1..Len(w) : w[k].kind = "BLK" /\ t = <<Junk>> \o SubSeq(w, k + 1, Len(w))
    BY <1>5, <1>6a, <2>2
  <2> QED BY <1>6, <2>1, <2>2
<1>8. t \in Seq(Message)
  <2>1. T \subseteq Message BY KindFacts DEF T
  <2> QED BY <1>7, <2>1, SeqLarger
<1>9. (\A m \in S : m.kind # "BLK") => t \in Seq(S) BY <1>1, <1>2, <1>6
<1>10. ASSUME w = <<>> PROVE t = <<>>
  <2>1. Len(w) = 0 BY <1>10
  <2>2. t = SubSeq(w, 1, 0) BY <1>6, <2>1
  <2> QED BY <1>10, <2>2
<1> QED BY <1>7, <1>8, <1>9, <1>10 DEF T

\* NAKs, and what follows them.
LEMMA NaksNone ==
    ASSUME NEW t \in Seq(Message)
    PROVE  NaksThen(t, t)
<1>1. <<>> \in Seq({Nak}) /\ <<>> \o t = t BY ConcatEmptySeq
<1> QED BY <1>1 DEF NaksThen

\* The first message of two sequences one after the other.
LEMMA TailJoined ==
    ASSUME NEW a \in Seq(Message), NEW b \in Seq(Message), a # <<>>
    PROVE  a \o b # <<>> /\ Head(a \o b) = Head(a) /\ Tail(a \o b) = Tail(a) \o b
<1> DEFINE x == a \o b
           z == Tail(a)
           y == z \o b
<1>1. /\ Len(a) \in Nat /\ Len(a) >= 1 /\ Len(b) \in Nat
      /\ Head(a) = a[1]
      /\ z \in Seq(Message) /\ Len(z) = Len(a) - 1
      /\ \A i \in 1..(Len(a) - 1) : z[i] = a[i + 1]
  BY HeadTailProperties, EmptySeq, LenProperties
<1>2. /\ x \in Seq(Message) /\ Len(x) = Len(a) + Len(b)
      /\ \A i \in 1..Len(a) : x[i] = a[i]
      /\ \A i \in (Len(a) + 1)..(Len(a) + Len(b)) : x[i] = b[i - Len(a)]
  BY Joined
<1>3. /\ y \in Seq(Message) /\ Len(y) = Len(z) + Len(b)
      /\ \A i \in 1..Len(z) : y[i] = z[i]
      /\ \A i \in (Len(z) + 1)..(Len(z) + Len(b)) : y[i] = b[i - Len(z)]
  BY <1>1, Joined
<1> HIDE DEF x, y, z
<1>4. Len(x) >= 1 /\ Len(x) \in Nat BY <1>1, <1>2
<1>5. x # <<>> BY <1>4, EmptySeq
<1>6. /\ Tail(x) \in Seq(Message) /\ Len(Tail(x)) = Len(x) - 1 /\ Head(x) = x[1]
      /\ \A i \in 1..Len(Tail(x)) : Tail(x)[i] = x[i + 1]
  BY <1>2, <1>5, HeadTailProperties
<1>7. Len(Tail(x)) = Len(y) BY <1>1, <1>2, <1>3, <1>6
<1>8. ASSUME NEW i \in 1..Len(y) PROVE Tail(x)[i] = y[i]
  <2>1. i \in Nat /\ i >= 1 /\ i <= Len(a) - 1 + Len(b) BY <1>1, <1>3
  <2>2. Tail(x)[i] = x[i + 1] BY <1>6, <1>7
  <2>3. CASE i <= Len(a) - 1
    <3>1. y[i] = a[i + 1] BY <1>1, <1>3, <2>1, <2>3
    <3>2. x[i + 1] = a[i + 1] BY <1>1, <1>2, <2>1, <2>3
    <3> QED BY <2>2, <3>1, <3>2
  <2>4. CASE i > Len(a) - 1
    <3>1. y[i] = b[i - Len(z)] BY <1>1, <1>3, <2>1, <2>4
    <3>2. x[i + 1] = b[i + 1 - Len(a)]
      <4>1. i + 1 \in (Len(a) + 1)..(Len(a) + Len(b)) BY <1>1, <2>1, <2>4
      <4> QED BY <1>2, <4>1
    <3>3. i - Len(z) = i + 1 - Len(a) BY <1>1, <2>1
    <3> QED BY <2>2, <3>1, <3>2, <3>3
  <2>5. i <= Len(a) - 1 \/ i > Len(a) - 1 BY <1>1, <2>1
  <2> QED BY <2>3, <2>4, <2>5
<1>9. Tail(x) = y BY <1>3, <1>6, <1>7, <1>8, SeqEqual
<1>10. Head(x) = Head(a) BY <1>1, <1>2, <1>6
<1> QED BY <1>5, <1>9, <1>10 DEF x, y, z

LEMMA NaksFirst ==
    ASSUME NEW t \in Seq(Message), NEW w, NaksThen(w, t), w # t
    PROVE  w # <<>> /\ Head(w) = Nak /\ NaksThen(Tail(w), t)
<1>1. PICK n \in Seq({Nak}) : w = n \o t BY DEF NaksThen
<1>2. n # <<>>
  <2>1. <<>> \o t = t BY ConcatEmptySeq
  <2> QED BY <1>1, <2>1
<1>3. n \in Seq(Message) BY SeqLarger, KindFacts
<1>4. Head(n) = Nak /\ Tail(n) \in Seq({Nak}) BY <1>2, SeqRest
<1>5. w # <<>> /\ Head(w) = Nak /\ Tail(w) = Tail(n) \o t
  BY <1>1, <1>2, <1>3, <1>4, TailJoined
<1> QED BY <1>4, <1>5 DEF NaksThen

LEMMA NaksMore ==
    ASSUME NEW t \in Seq(Message), NEW u \in Seq(Message), NEW w, NaksThen(w, t)
    PROVE  NaksThen(w \o u, t \o u) /\ w \in Seq(Message)
<1>1. PICK n \in Seq({Nak}) : w = n \o t BY DEF NaksThen
<1>2. n \in Seq(Message) BY SeqLarger, KindFacts
<1>3. w \o u = n \o (t \o u) BY <1>1, <1>2, ConcatAssociative
<1>4. w \in Seq(Message) BY <1>1, <1>2, ConcatProperties
<1> QED BY <1>3, <1>4 DEF NaksThen

-----------------------------------------------------------------------------
(* What a side may do, by what it is doing and what it reads.              *)

\* What most steps leave alone.
Still == UNCHANGED <<cur, log, acked, SendBlkNo, ReceiveBlkNo, want, after, PrevErrors,
                     faults>>

LEMMA Wires ==
    ASSUME TypeOK, NEW q \in Peer
    PROVE  /\ wire \in [Peer -> Seq(Message)] /\ wire[q] \in Seq(Message)
           /\ wire[q] # <<>> => /\ Head(wire[q]) \in Message
                                /\ Tail(wire[q]) \in Seq(Message)
<1>1. wire[q] \in Seq(Message) BY DEF TypeOK
<1> QED BY <1>1, SeqRest DEF TypeOK

\* BlockSend waits.
LEMMA PutMoves ==
    ASSUME OneFault, TypeOK, NEW q \in Peer, NEW r \in Peer, r # q,
           mode[q] = "put", BlockSend(q), ~unheard'
    PROVE  \/ wire[q] # <<>> /\ Head(wire[q]) = Ack /\ PutAck(q)
           \/ wire[q] # <<>> /\ Head(wire[q]) = Nak /\ PutNak(q)
           \/ wire[q] # <<>> /\ Head(wire[q]) = Rlr /\ PutRlr(q)
           \/ wire[q] # <<>> /\ Head(wire[q]) \in Leftover /\ PutOther(q)
           \/ /\ wire[q] = <<>> /\ (wire[r] = <<>> \/ mode[r] \notin Listening)
              /\ mode[r] # "drain"
              /\ \/ PutSilence(q)
                 \/ PutTimeout(q) /\ mode[r] \in Listening /\ tries[q] = MaxTries
<1>1. r = Other(q) BY DEF Peer, Other
<1>2. ~Discard(q) /\ ~Discarded(q) BY DEF Discard, Discarded
<1>3. wire[q] # <<>> => Head(wire[q]) \in Message BY Wires
<1>4. CASE PutAck(q) \/ PutNak(q) \/ PutRlr(q) \/ PutOther(q)
  <2>1. wire[q] # <<>> BY <1>4 DEF PutAck, PutNak, PutRlr, PutOther
  <2>2. Head(wire[q]) \in Message BY <1>3, <2>1
  <2> QED BY <1>4, <2>1, <2>2, ReadFacts DEF PutAck, PutNak, PutRlr, PutOther
<1>5. CASE PutSilence(q) \/ PutTimeout(q)
  <2>1. NoAnswer(q) BY <1>5 DEF PutSilence, PutTimeout
  <2>2. /\ wire[q] = <<>> /\ (wire[r] = <<>> \/ mode[r] \notin Listening)
        /\ mode[r] # "drain"
    BY <1>1, <2>1 DEF NoAnswer, NoData, OneFault
  <2>3. PutTimeout(q) => mode[r] \in Listening /\ tries[q] = MaxTries
    BY <1>1 DEF PutTimeout, OneFault
  <2> QED BY <1>5, <2>2, <2>3
<1> QED BY <1>2, <1>4, <1>5 DEF BlockSend

\* BlockSend discards.
LEMMA DrainMoves ==
    ASSUME OneFault, TypeOK, NEW q \in Peer, NEW r \in Peer, r # q,
           mode[q] = "drain", BlockSend(q)
    PROVE  \/ wire[q] # <<>> /\ Discard(q)
           \/ wire[q] = <<>> /\ (wire[r] = <<>> \/ mode[r] \notin Listening) /\ Discarded(q)
<1>1. r = Other(q) BY DEF Peer, Other
<1> QED BY <1>1 DEF BlockSend, PutAck, PutNak, PutRlr, PutOther, PutSilence, PutTimeout,
                    Discard, Discarded, NoData, OneFault

\* WaitReceive.
LEMMA GetMoves ==
    ASSUME OneFault, TypeOK, NEW q \in Peer, WaitReceive(q)
    PROVE  /\ wire[q] # <<>> /\ mode[q] = "get"
           /\ \/ Head(wire[q]).kind = "BLK" /\ (GetBlock(q) \/ GetWrongNumber(q))
              \/ Head(wire[q]) = Junk /\ (GetDamaged(q) \/ GetTooLong(q) \/ GetOther(q))
              \/ Head(wire[q]) = Rlr /\ GetRlr(q)
              \/ Head(wire[q]) \in {Ack, Nak} /\ GetOther(q)
<1>1. wire[q] # <<>> /\ mode[q] = "get"
  BY DEF WaitReceive, GetBlock, GetWrongNumber, GetDamaged, GetTooLong, GetRlr, GetOther
<1>2. Head(wire[q]) \in Message BY <1>1, Wires
<1>3. GetRlr(q) => Head(wire[q]) = Rlr BY <1>2, ReadFacts DEF GetRlr
<1>4. ASSUME GetOther(q)
      PROVE  Head(wire[q]) \in {Ack, Nak} \/ Head(wire[q]) = Junk
  <2>1. Reads(Head(wire[q])) \cap {"ACK", "NAK", "OTHER"} # {} BY <1>4 DEF GetOther
  <2>2. Head(wire[q]).kind = "BLK" => Reads(Head(wire[q])) = {"STX"} BY DEF Reads
  <2> QED BY <1>2, <2>1, <2>2, ReadFacts
<1> QED BY <1>1, <1>3, <1>4
        DEF WaitReceive, GetBlock, GetWrongNumber, GetDamaged, GetTooLong

-----------------------------------------------------------------------------
(* What the steps do.                                                      *)

LEMMA Moved ==
    ASSUME TypeOK, NEW q \in Peer, NEW r \in Peer, r # q, NEW rest, NEW out,
           Exchange(q, rest, out)
    PROVE  /\ wire'[q] = rest /\ wire'[r] = wire[r] \o out
           /\ out = <<>> => wire'[r] = wire[r]
<1>1. r = Other(q) BY DEF Peer, Other
<1>2. wire \in [Peer -> Seq(Message)] /\ wire[r] \in Seq(Message) BY Wires
<1>3. wire'[q] = rest /\ wire'[r] = wire[r] \o out BY <1>1, <1>2 DEF Exchange
<1>4. wire[r] \o <<>> = wire[r] BY <1>2, ConcatEmptySeq
<1> QED BY <1>3, <1>4

\* BlockSend, where it only repeats, asks or discards.
LEMMA PutEffects ==
    ASSUME TypeOK, NEW q \in Peer, NEW r \in Peer, r # q,
           \/ PutNak(q) \/ PutRlr(q) \/ PutOther(q)
           \/ Discard(q) \/ Discarded(q) \/ PutSilence(q)
    PROVE  /\ Still /\ UNCHANGED LastResponse
           /\ mode'[r] = mode[r] /\ tries'[r] = tries[r] /\ Errors'[r] = Errors[r]
           /\ PutOther(q) \/ Discard(q) => UNCHANGED <<Errors, tries>>
           /\ mode'[q] = IF PutOther(q) THEN "drain" ELSE IF Discarded(q) THEN "put" ELSE mode[q]
           /\ PutNak(q) \/ PutRlr(q) => tries'[q] = 0
           /\ PutNak(q) => wire'[q] = Tail(wire[q]) /\ wire'[r] = wire[r] \o <<Outgoing(q)>>
           /\ PutRlr(q) => /\ wire'[q] = Tail(wire[q])
                           /\ wire'[r] = wire[r] \o <<Byte(LastResponse[q]), Outgoing(q)>>
           /\ PutOther(q) \/ Discard(q) =>
                 wire'[q] = Tail(wire[q]) /\ wire'[r] = wire[r]
           /\ Discarded(q) \/ PutSilence(q) =>
                 wire'[q] = wire[q] /\ wire'[r] = wire[r] \o <<Rlr>>
<1>1. Still /\ UNCHANGED LastResponse
  BY DEF Still, PutNak, PutRlr, PutOther, Discard, Discarded, PutSilence, link
<1>2. /\ mode \in [Peer -> Mode] /\ tries \in [Peer -> 0..MaxTries]
      /\ Errors \in [Peer -> 0..(MAX_ERRORS + 1)]
  BY DEF TypeOK
<1>3. /\ mode'[r] = mode[r]
      /\ mode'[q] = IF PutOther(q) THEN "drain" ELSE IF Discarded(q) THEN "put" ELSE mode[q]
  BY <1>2 DEF PutNak, PutRlr, PutOther, Discard, Discarded, PutSilence
<1>4. Errors'[r] = Errors[r]
  BY <1>2 DEF PutNak, PutRlr, PutOther, Discard, Discarded, PutSilence, link
<1>5. PutOther(q) \/ Discard(q) => UNCHANGED <<Errors, tries>> BY DEF PutOther, Discard, link
<1>6. tries'[r] = tries[r] /\ (PutNak(q) \/ PutRlr(q) => tries'[q] = 0)
  <2>1. CASE PutNak(q) \/ PutRlr(q) BY <1>2, <2>1 DEF PutNak, PutRlr
  <2>2. CASE PutSilence(q) BY <1>2, <2>2 DEF PutSilence, PutNak, PutRlr, NoAnswer, NoData
  <2>3. CASE PutOther(q) \/ Discard(q) BY <1>2, <1>5, <2>3 DEF PutOther, Discard, PutNak, PutRlr, link
  <2>4. CASE Discarded(q)
    <3>1. ~PutNak(q) /\ ~PutRlr(q) BY <2>4 DEF Discarded, PutNak, PutRlr
    <3>2. tries' = tries \/ \E v : tries' = [tries EXCEPT ![q] = v] BY <2>4 DEF Discarded
    <3> QED BY <1>2, <3>1, <3>2
  <2>5. tries'[r] = tries[r]
    <3>1. tries' = tries \/ \E v : tries' = [tries EXCEPT ![q] = v]
      BY DEF PutNak, PutRlr, PutOther, Discard, Discarded, PutSilence, link
    <3> QED BY <1>2, <3>1
  <2>6. PutNak(q) \/ PutRlr(q) => tries'[q] = 0 BY <2>1
  <2> QED BY <2>5, <2>6
<1>7. ASSUME PutNak(q)
      PROVE  wire'[q] = Tail(wire[q]) /\ wire'[r] = wire[r] \o <<Outgoing(q)>>
  <2>1. Exchange(q, Tail(wire[q]), <<Outgoing(q)>>) BY <1>7 DEF PutNak
  <2> QED BY ONLY TypeOK, q \in Peer, r \in Peer, r # q, <2>1, Moved
<1>8. ASSUME PutRlr(q)
      PROVE  /\ wire'[q] = Tail(wire[q])
             /\ wire'[r] = wire[r] \o <<Byte(LastResponse[q]), Outgoing(q)>>
  <2> DEFINE out == <<Byte(LastResponse[q]), Outgoing(q)>>
  <2>1. Exchange(q, Tail(wire[q]), out) BY <1>8 DEF PutRlr
  <2> HIDE DEF out
  <2>2. wire'[q] = Tail(wire[q]) /\ wire'[r] = wire[r] \o out BY <2>1, Moved
  <2> QED BY <2>2 DEF out
<1>9. ASSUME PutOther(q) \/ Discard(q)
      PROVE  wire'[q] = Tail(wire[q]) /\ wire'[r] = wire[r]
  <2>1. Exchange(q, Tail(wire[q]), <<>>) BY <1>9 DEF PutOther, Discard
  <2> QED BY ONLY TypeOK, q \in Peer, r \in Peer, r # q, <2>1, Moved
<1>10. ASSUME Discarded(q) \/ PutSilence(q)
       PROVE  wire'[q] = wire[q] /\ wire'[r] = wire[r] \o <<Rlr>>
  <2>1. Exchange(q, wire[q], <<Rlr>>) BY <1>10 DEF Discarded, PutSilence, Rlr
  <2> QED BY ONLY TypeOK, q \in Peer, r \in Peer, r # q, <2>1, Moved
<1> QED BY <1>1, <1>3, <1>4, <1>5, <1>6, <1>7, <1>8, <1>9, <1>10

\* WaitReceive, where it takes nothing and answers at most NAK.
LEMMA GetEffects ==
    ASSUME TypeOK, NEW q \in Peer, NEW r \in Peer, r # q,
           GetDamaged(q) \/ GetTooLong(q) \/ GetRlr(q) \/ GetOther(q)
    PROVE  /\ Still /\ UNCHANGED <<mode, Errors, tries>>
           /\ LastResponse'[r] = LastResponse[r]
           /\ GetDamaged(q) \/ GetRlr(q) =>
                 wire'[q] = Tail(wire[q]) /\ wire'[r] = wire[r] \o <<Nak>>
           /\ GetTooLong(q) => wire'[q] \in Remains(Tail(wire[q])) /\ wire'[r] = wire[r]
           /\ GetOther(q) => wire'[q] = Tail(wire[q]) /\ wire'[r] = wire[r]
<1>1. Still /\ UNCHANGED <<mode, Errors, tries>>
  BY DEF Still, GetDamaged, GetTooLong, GetRlr, GetOther, link
<1>2. LastResponse \in [Peer -> Response] BY DEF TypeOK
<1>3. LastResponse'[r] = LastResponse[r]
  BY <1>2 DEF GetDamaged, GetTooLong, GetRlr, GetOther, link
<1>4. ASSUME GetDamaged(q) \/ GetRlr(q)
      PROVE  wire'[q] = Tail(wire[q]) /\ wire'[r] = wire[r] \o <<Nak>>
  <2>1. Exchange(q, Tail(wire[q]), <<Nak>>) BY <1>4 DEF GetDamaged, GetRlr, Nak
  <2> QED BY ONLY TypeOK, q \in Peer, r \in Peer, r # q, <2>1, Moved
<1>5. ASSUME GetTooLong(q)
      PROVE  wire'[q] \in Remains(Tail(wire[q])) /\ wire'[r] = wire[r]
  <2>1. PICK rest \in Remains(Tail(wire[q])) : Exchange(q, rest, <<>>)
    BY <1>5 DEF GetTooLong
  <2> QED BY <2>1, Moved
<1>6. ASSUME GetOther(q) PROVE wire'[q] = Tail(wire[q]) /\ wire'[r] = wire[r]
  <2>1. Exchange(q, Tail(wire[q]), <<>>) BY <1>6 DEF GetOther
  <2> QED BY ONLY TypeOK, q \in Peer, r \in Peer, r # q, <2>1, Moved
<1> QED BY <1>1, <1>3, <1>4, <1>5, <1>6

\* What does not change with that.
LEMMA StillSame ==
    ASSUME Still, NEW q \in Peer, NEW r \in Peer
    PROVE  /\ Settled(q, r)' = Settled(q, r) /\ Pending(q, r)' = Pending(q, r)
           /\ Unconfirmed(q, r)' = Unconfirmed(q, r) /\ PutLast(q)' = PutLast(q)
           /\ Outgoing(q)' = Outgoing(q) /\ Spent' = Spent
           /\ PrevErrors'[q] = PrevErrors[q]
BY DEF Still, Settled, Pending, Unconfirmed, PutLast, Outgoing, NewBlock, Spent

LEMMA BlamedSpent ==
    ASSUME Spent, faults' = faults
    PROVE  Spent' /\ Blamed'
BY DEF Spent, Blamed

LEMMA BlamedKept ==
    ASSUME Blamed, UNCHANGED <<Errors, PrevErrors, faults>>,
           \A q \in Peer : Sending(q)' => Sending(q)
    PROVE  Blamed'
BY DEF Blamed, Spent

-----------------------------------------------------------------------------
(* The steps that put, take and confirm a block, and the faults.           *)

LEMMA Roles ==
    ASSUME NEW q \in Peer, NEW r \in Peer, r # q
    PROVE  /\ r = Other(q) /\ q = Other(r) /\ Peer = {q, r}
           /\ (q = "client" /\ r = "server") \/ (q = "server" /\ r = "client")
<1>1. Peer = {q, Other(q)} /\ Other(Other(q)) = q BY PeerFacts
<1>2. r = Other(q) BY <1>1
<1>3. (q = "client" /\ r = "server") \/ (q = "server" /\ r = "client") BY DEF Peer
<1> QED BY <1>1, <1>2, <1>3

LEMMA Ranges ==
    ASSUME TypeOK, NEW q \in Peer
    PROVE  /\ SendBlkNo[q] \in 0..(UInt - 1) /\ ReceiveBlkNo[q] \in 0..(UInt - 1)
           /\ cur[q] \in 0..MaxPut /\ Last(log[q]) \in 0..MaxPut
           /\ Errors[q] \in 0..(MAX_ERRORS + 1) /\ PrevErrors[q] \in 0..(MAX_ERRORS + 1)
           /\ tries[q] \in 0..MaxTries
<1>1. Last(log[q]) \in 0..MaxPut BY LastFacts DEF TypeOK
<1> QED BY <1>1 DEF TypeOK

\* The number of a block that is on its way is the one the receiver expects.
LEMMA ExpectedNow ==
    ASSUME OneFault, TypeOK, NEW q \in Peer, NEW r \in Peer, r # q, Pending(q, r)
    PROVE  Expected(r, Outgoing(q).blk)
<1>1. /\ SendBlkNo[q] \in 0..(UInt - 1) /\ cur[q] \in 0..MaxPut BY Ranges
<1>2. SendBlkNo[q] \in 0..(Wire - 1)
  BY <1>1, NumberAssumption, BoundAssumption DEF Pending, OneFault
<1>3. SendBlkNo[q] % Wire = SendBlkNo[q] BY <1>2, NumberAssumption
<1>4. Outgoing(q).blk.no = SendBlkNo[q] % Wire BY DEF Outgoing, NewBlock, Frame
<1> QED BY <1>3, <1>4 DEF Expected, Pending

\* q puts a block.
Puts(q) == (q = "client" /\ Request) \/ (q = "server" /\ Reply)

LEMMA PutEffect ==
    ASSUME OneFault, TypeOK, Blamed, NEW q \in Peer, NEW r \in Peer, r # q,
           Settled(q, r), Settled(r, q) \/ Unconfirmed(r, q), PutLast(r),
           Puts(q)
    PROVE  /\ Pending(q, r)' /\ PutLast(q)'
           /\ Settled(r, q) => Settled(r, q)'
           /\ Unconfirmed(r, q) => Unconfirmed(r, q)'
           /\ mode'[q] = "put" /\ mode'[r] = mode[r]
           /\ tries'[q] = 0 /\ tries'[r] = tries[r]
           /\ PrevErrors'[q] = Errors[q] /\ PrevErrors'[r] = PrevErrors[r]
           /\ Errors'[r] = Errors[r] /\ LastResponse' = LastResponse
           /\ wire'[q] \in Remains(wire[q]) /\ wire'[r] = wire[r] \o <<Outgoing(q)'>>
           /\ mode[q] = AfterGet(q)
           /\ faults' = faults \/ (wire[q] = <<>> /\ mode[r] = "get")
           /\ Blamed'
           /\ Sending(r) => faults' = faults
<1>1. /\ cur[q] \in 0..MaxPut /\ cur[r] \in 0..MaxPut
      /\ SendBlkNo[q] \in 0..(UInt - 1) /\ SendBlkNo[r] \in 0..(UInt - 1)
      /\ Last(log[q]) \in 0..MaxPut /\ Last(log[r]) \in 0..MaxPut
  BY Ranges
<1> DEFINE id == IF q = "client" THEN cur[q] + 1 ELSE Last(log[q])
<1>2. /\ RemotePut(q, id, TRUE) /\ mode[q] = AfterGet(q)
      /\ faults' = IF AtRest /\ q = "client" THEN 0 ELSE faults
  BY DEF Puts, Request, Reply, OneFault, AfterGet
<1>3. id = cur[q] + 1
  <2>1. CASE q = "client" BY <2>1
  <2>2. CASE q = "server"
    <3>1. r = "client" BY <2>2, Roles
    <3>2. Last(log[q]) = cur[r] BY <3>1 DEF Settled, Unconfirmed
    <3>3. cur[r] = cur[q] + 1 BY <2>2, <3>1, <1>1 DEF PutLast
    <3> QED BY <2>2, <3>2, <3>3
  <2> QED BY <2>1, <2>2, Roles
<1> HIDE DEF id
<1>4. PICK rest \in Remains(wire[q]) : Exchange(q, rest, <<NewBlock(q, id, Errors[q], TRUE)>>)
  BY <1>2 DEF RemotePut
<1>5. /\ cur'[q] = id /\ cur'[r] = cur[r] /\ want'[q] = TRUE /\ want'[r] = want[r]
      /\ PrevErrors'[q] = Errors[q] /\ PrevErrors'[r] = PrevErrors[r]
      /\ Errors'[q] = 0 /\ Errors'[r] = Errors[r]
      /\ tries'[q] = 0 /\ tries'[r] = tries[r]
      /\ mode'[q] = "put" /\ mode'[r] = mode[r]
      /\ UNCHANGED <<SendBlkNo, ReceiveBlkNo, LastResponse, log>>
  BY <1>2 DEF RemotePut, TypeOK
<1>6. Outgoing(q)' = NewBlock(q, id, Errors[q], TRUE)
  BY <1>5 DEF Outgoing, NewBlock
<1>7. wire'[q] = rest /\ wire'[r] = wire[r] \o <<Outgoing(q)'>>
  <2> DEFINE out == <<NewBlock(q, id, Errors[q], TRUE)>>
  <2>1. Exchange(q, rest, out) BY <1>4
  <2> HIDE DEF out
  <2>2. wire'[q] = rest /\ wire'[r] = wire[r] \o out BY <2>1, Moved
  <2> QED BY <1>6, <2>2 DEF out
<1>8. Pending(q, r)' BY <1>1, <1>3, <1>5, Roles DEF Pending, Settled
<1>9. PutLast(q)'
  <2>1. CASE q = "client" /\ r = "server" BY <1>1, <1>3, <1>5, <2>1 DEF PutLast
  <2>2. CASE q = "server" /\ r = "client" BY <1>1, <1>3, <1>5, <2>2 DEF PutLast
  <2> QED BY <2>1, <2>2, Roles
<1>10. Settled(r, q) => Settled(r, q)' BY <1>5 DEF Settled
<1>11. Unconfirmed(r, q) => Unconfirmed(r, q)' BY <1>5 DEF Unconfirmed
<1>12. AtRest /\ q = "client" =>
          wire[q] = <<>> /\ mode[r] = "get" /\ ~Sending(r) /\ Errors[q] <= MAX_ERRORS
          /\ Errors[r] <= MAX_ERRORS
  BY Roles DEF AtRest, Sending
<1>13. Blamed'
  <2>1. MAX_ERRORS \in Nat BY BoundAssumption
  <2>2. CASE AtRest /\ q = "client"
    <3>1. Errors'[q] <= MAX_ERRORS /\ Errors'[r] <= MAX_ERRORS /\ ~Sending(r)'
      BY <1>5, <1>12, <2>1, <2>2 DEF Sending
    <3>2. PrevErrors'[q] <= MAX_ERRORS BY <1>5, <1>12, <2>2
    <3>3. \A x \in Peer : x = q \/ x = r BY Roles
    <3>4. /\ Errors'[q] \in Nat /\ Errors'[r] \in Nat /\ PrevErrors'[q] \in Nat
      BY <1>5, Ranges, BoundAssumption
    <3> QED BY <2>1, <3>1, <3>2, <3>3, <3>4 DEF Blamed, Sending
  <2>3. CASE ~(AtRest /\ q = "client")
    <3>1. Spent' = Spent BY <1>2, <2>3 DEF Spent
    <3>2. \A x \in Peer : x = q \/ x = r BY Roles
    <3>3. ~(Errors'[q] > MAX_ERRORS) BY <1>5, <2>1
    <3>4. Sending(r)' = Sending(r) BY <1>5 DEF Sending
    <3> QED BY <1>5, <3>1, <3>2, <3>3, <3>4 DEF Blamed
  <2> QED BY <2>2, <2>3
<1>14. faults' = faults \/ (wire[q] = <<>> /\ mode[r] = "get" /\ ~Sending(r))
  <2>1. CASE AtRest /\ q = "client" BY <1>12, <2>1
  <2>2. CASE ~(AtRest /\ q = "client")
    <3>1. faults' = faults BY <1>2, <2>2
    <3> QED BY <3>1
  <2> QED BY <2>1, <2>2
<1>15. wire'[q] \in Remains(wire[q]) BY <1>4, <1>7
<1> QED BY <1>2, <1>5, <1>7, <1>8, <1>9, <1>10, <1>11, <1>13, <1>14, <1>15

\* r takes the block of q that is on its way.
LEMMA TakeEffect ==
    ASSUME OneFault, TypeOK, Blamed, NEW q \in Peer, NEW r \in Peer, r # q,
           Pending(q, r), Settled(r, q), PutLast(q), Sending(q),
           GetBlock(r), Head(wire[r]) = Outgoing(q)
    PROVE  /\ Unconfirmed(q, r)' /\ Settled(r, q)' /\ PutLast(q)'
           /\ wire'[r] = Tail(wire[r]) /\ wire'[q] = wire[q] \o <<Ack>>
           /\ LastResponse'[r] = "ACK"
           /\ mode'[q] = mode[q] /\ after'[r] = AfterGet(r)
           /\ PrevErrors[q] <= MAX_ERRORS => mode'[r] = AfterGet(r)
           /\ PrevErrors[q] > MAX_ERRORS => mode'[r] = "resync"
           /\ UNCHANGED <<Errors, PrevErrors, tries, faults>>
           /\ Blamed'
<1>1. /\ cur[q] \in 0..MaxPut /\ cur[r] \in 0..MaxPut
      /\ SendBlkNo[q] \in 0..(UInt - 1) /\ ReceiveBlkNo[r] \in 0..(UInt - 1)
      /\ PrevErrors[q] \in 0..(MAX_ERRORS + 1)
  BY Ranges
<1> DEFINE b == Head(wire[r]).blk
<1>2. b.id = cur[q] /\ b.err = PrevErrors[q] /\ (b.reply <=> q = "client" /\ want[q])
  BY OutgoingBlock
<1>3. /\ Exchange(r, Tail(wire[r]), <<Ack>>)
      /\ LastResponse' = [LastResponse EXCEPT ![r] = "ACK"]
      /\ ReceiveBlkNo' = [ReceiveBlkNo EXCEPT ![r] = NextNo(@)]
      /\ log' = [log EXCEPT ![r] = Append(@, b.id)]
      /\ want' = IF r = "server" THEN [want EXCEPT ![r] = b.reply] ELSE want
      /\ after' = [after EXCEPT ![r] = AfterGet(r)]
      /\ mode' = [mode EXCEPT ![r] = IF b.err > MAX_ERRORS THEN "resync" ELSE AfterGet(r)]
      /\ UNCHANGED <<SendBlkNo, Errors, PrevErrors, tries, cur, acked, faults>>
  BY DEF GetBlock, Ack
<1> HIDE DEF b
<1>4. /\ LastResponse'[r] = "ACK" /\ after'[r] = AfterGet(r)
      /\ ReceiveBlkNo'[r] = NextNo(ReceiveBlkNo[r]) /\ ReceiveBlkNo'[q] = ReceiveBlkNo[q]
      /\ log'[r] = Append(log[r], cur[q]) /\ log'[q] = log[q]
      /\ mode'[q] = mode[q]
      /\ mode'[r] = IF PrevErrors[q] > MAX_ERRORS THEN "resync" ELSE AfterGet(r)
  BY <1>2, <1>3 DEF TypeOK
<1>5. Last(log'[r]) = cur[q]
  <2>1. log[r] \in Seq(1..MaxPut) BY DEF TypeOK
  <2>2. cur[q] \in Nat BY <1>1, BoundAssumption
  <2>3. log[r] \in Seq(Nat)
    <3>1. 1..MaxPut \subseteq Nat OBVIOUS
    <3> QED BY <2>1, <3>1, SeqLarger
  <2>4. /\ Append(log[r], cur[q]) # <<>>
        /\ Len(Append(log[r], cur[q])) = Len(log[r]) + 1
        /\ Append(log[r], cur[q])[Len(log[r]) + 1] = cur[q]
    <3> DEFINE l == log[r]
               c == cur[q]
    <3>1. l \in Seq(Nat) /\ c \in Nat BY <2>2, <2>3
    <3> HIDE DEF l, c
    <3>2. /\ Append(l, c) # <<>> /\ Len(Append(l, c)) = Len(l) + 1
          /\ Append(l, c)[Len(l) + 1] = c
      BY <3>1, AppendProperties
    <3> QED BY <3>2 DEF l, c
  <2> QED BY <1>4, <2>4 DEF Last
<1>6. q = "client" => want'[q] /\ want'[r]
  <2> SUFFICES ASSUME q = "client" PROVE want'[q] /\ want'[r] OBVIOUS
  <2>1. r = "server" /\ want[q] BY Roles DEF Pending
  <2>2. b.reply BY <1>2, <2>1
  <2> QED BY <1>3, <2>1, <2>2 DEF TypeOK
<1>7. Unconfirmed(q, r)' BY <1>3, <1>4, <1>5, <1>6 DEF Unconfirmed, Pending
<1>8. r = "client" => want' = want BY <1>3
<1>9. Settled(r, q)' BY <1>3, <1>4, <1>8, Roles DEF Settled
<1>10. PutLast(q)' BY <1>3 DEF PutLast
<1>11. wire'[r] = Tail(wire[r]) /\ wire'[q] = wire[q] \o <<Ack>>
  <2> DEFINE out == <<Ack>>
  <2>1. Exchange(r, Tail(wire[r]), out) BY <1>3
  <2> HIDE DEF out
  <2>2. q # r OBVIOUS
  <2>3. wire'[r] = Tail(wire[r]) /\ wire'[q] = wire[q] \o out BY <2>1, <2>2, Moved
  <2> QED BY <2>3 DEF out
<1>12. \A x \in Peer : Sending(x)' => Sending(x)
  <2>1. \A x \in Peer : x = q \/ x = r BY Roles
  <2>2. ~Sending(r)' BY <1>4 DEF Sending, AfterGet
  <2> QED BY <1>4, <2>1, <2>2 DEF Sending
<1>13. Blamed' BY <1>3, <1>12, BlamedKept
<1>14. /\ PrevErrors[q] <= MAX_ERRORS => mode'[r] = AfterGet(r)
       /\ PrevErrors[q] > MAX_ERRORS => mode'[r] = "resync"
  BY <1>1, <1>4, BoundAssumption
<1> QED BY <1>3, <1>4, <1>7, <1>9, <1>10, <1>11, <1>13, <1>14

\* q hears that its block was taken.
LEMMA AckEffect ==
    ASSUME OneFault, TypeOK, Blamed, NEW q \in Peer, NEW r \in Peer, r # q,
           Unconfirmed(q, r), PutAck(q)
    PROVE  /\ Settled(q, r)'
           /\ Settled(r, q) => Settled(r, q)'
           /\ Pending(r, q) => Pending(r, q)'
           /\ PutLast(q)' = PutLast(q) /\ PutLast(r)' = PutLast(r)
           /\ Outgoing(r)' = Outgoing(r)
           /\ wire'[q] = Tail(wire[q]) /\ wire'[r] = wire[r]
           /\ after'[q] = "get" /\ after'[r] = after[r]
           /\ mode'[r] = mode[r]
           /\ PrevErrors[q] <= MAX_ERRORS => mode'[q] = "get"
           /\ PrevErrors[q] > MAX_ERRORS => mode'[q] = "resync"
           /\ UNCHANGED <<Errors, PrevErrors, tries, faults>>
           /\ Blamed'
<1>1. /\ cur[q] \in 0..MaxPut /\ SendBlkNo[q] \in 0..(UInt - 1)
      /\ PrevErrors[q] \in 0..(MAX_ERRORS + 1)
  BY Ranges
<1>2. AfterPut(q, TRUE) = "get" BY Roles DEF AfterPut, Unconfirmed
<1>3. /\ Exchange(q, Tail(wire[q]), <<>>)
      /\ SendBlkNo' = [SendBlkNo EXCEPT ![q] = NextNo(@)]
      /\ after' = [after EXCEPT ![q] = "get"]
      /\ mode' = [mode EXCEPT ![q] = IF PrevErrors[q] > MAX_ERRORS THEN "resync" ELSE "get"]
      /\ UNCHANGED <<ReceiveBlkNo, LastResponse, Errors, PrevErrors, tries, want,
                     cur, log, faults>>
  BY <1>2 DEF PutAck
<1>4. /\ SendBlkNo'[q] = NextNo(SendBlkNo[q]) /\ SendBlkNo'[r] = SendBlkNo[r]
      /\ after'[q] = "get" /\ after'[r] = after[r] /\ mode'[r] = mode[r]
      /\ mode'[q] = IF PrevErrors[q] > MAX_ERRORS THEN "resync" ELSE "get"
  BY <1>3 DEF TypeOK
<1>5. UInt = Wire \/ SendBlkNo'[q] = cur'[q] + 1
  <2> SUFFICES ASSUME UInt # Wire PROVE SendBlkNo'[q] = cur'[q] + 1 OBVIOUS
  <2>1. MaxPut < Wire /\ Wire < UInt /\ SendBlkNo[q] = cur[q]
    BY NumberAssumption DEF OneFault, Unconfirmed
  <2>2. cur[q] + 1 \in 0..(UInt - 1) BY <1>1, <2>1, NumberAssumption, BoundAssumption
  <2>3. (cur[q] + 1) % UInt = cur[q] + 1 BY <2>2, NumberAssumption
  <2> QED BY <1>3, <1>4, <2>1, <2>3 DEF NextNo
<1>6. Settled(q, r)' BY <1>3, <1>4, <1>5 DEF Settled, Unconfirmed
<1>7. (Settled(r, q) => Settled(r, q)') /\ (Pending(r, q) => Pending(r, q)')
  BY <1>3, <1>4 DEF Settled, Pending
<1>8. /\ PutLast(q)' = PutLast(q) /\ PutLast(r)' = PutLast(r)
      /\ Outgoing(r)' = Outgoing(r)
  BY <1>3, <1>4 DEF PutLast, Outgoing, NewBlock
<1>9. wire'[q] = Tail(wire[q]) /\ wire'[r] = wire[r] BY <1>3, Moved
<1>10. \A x \in Peer : Sending(x)' => Sending(x)
  <2>1. \A x \in Peer : x = q \/ x = r BY Roles
  <2>2. ~Sending(q)' BY <1>4 DEF Sending
  <2> QED BY <1>4, <2>1, <2>2 DEF Sending
<1>11. Blamed' BY <1>3, <1>10, BlamedKept
<1>12. /\ PrevErrors[q] <= MAX_ERRORS => mode'[q] = "get"
       /\ PrevErrors[q] > MAX_ERRORS => mode'[q] = "resync"
  BY <1>1, <1>4, BoundAssumption
<1> QED BY <1>3, <1>4, <1>6, <1>7, <1>8, <1>9, <1>11, <1>12

\* A line that has lost a message, or has junk in place of a block.
Worse(w, t) ==
    \E i \in 1..Len(w) :
        LET a == SubSeq(w, 1, i - 1)
            z == SubSeq(w, i + 1, Len(w)) IN
        \/ t = a \o z
        \/ w[i].kind = "BLK" /\ \E j \in Seq({Junk}) : t = a \o j \o z

LEMMA WorseNone == \A t : ~Worse(<<>>, t)
<1>1. Len(<<>>) = 0 OBVIOUS
<1> QED BY <1>1 DEF Worse

LEMMA WorseOne ==
    ASSUME NEW m \in Message, NEW t, Worse(<<m>>, t)
    PROVE  t = <<>> \/ (m.kind = "BLK" /\ t \in Seq({Junk}))
<1> DEFINE w == <<m>>
<1>1. Len(w) = 1 /\ w[1] = m OBVIOUS
<1>2. SubSeq(w, 1, 0) = <<>> /\ SubSeq(w, 2, 1) = <<>> OBVIOUS
<1>3. \/ t = SubSeq(w, 1, 0) \o SubSeq(w, 2, 1)
      \/ m.kind = "BLK" /\ \E j \in Seq({Junk}) : t = SubSeq(w, 1, 0) \o j \o SubSeq(w, 2, 1)
  <2> HIDE DEF w
  <2>1. Worse(w, t) BY DEF w
  <2>2. PICK i \in 1..Len(w) :
           \/ t = SubSeq(w, 1, i - 1) \o SubSeq(w, i + 1, Len(w))
           \/ w[i].kind = "BLK" /\ \E j \in Seq({Junk}) :
                 t = SubSeq(w, 1, i - 1) \o j \o SubSeq(w, i + 1, Len(w))
    BY <2>1 DEF Worse
  <2>3. i = 1 /\ i - 1 = 0 /\ i + 1 = 2 BY <1>1, <2>2
  <2> QED BY <1>1, <2>2, <2>3
<1> HIDE DEF w
<1>4. <<>> \o <<>> = <<>> /\ \A j \in Seq({Junk}) : <<>> \o j = j /\ j \o <<>> = j
  BY ConcatEmptySeq
<1> QED BY <1>2, <1>3, <1>4

LEMMA OneElement ==
    ASSUME NEW w \in Seq(Message), Len(w) = 1
    PROVE  w = <<w[1]>>
<1> DEFINE z == <<w[1]>>
<1>1. w[1] \in Message OBVIOUS
<1>2. z \in Seq(Message) /\ Len(z) = 1 /\ z[1] = w[1] BY <1>1
<1> HIDE DEF z
<1>3. \A i \in 1..Len(w) : w[i] = z[i]
  <2>1. TAKE i \in 1..Len(w)
  <2>2. i = 1 OBVIOUS
  <2> QED BY <1>2, <2>2
<1>4. w = z BY <1>2, <1>3, SeqEqual
<1> QED BY <1>4 DEF z

LEMMA WorseTwo ==
    ASSUME NEW m \in Message, NEW n \in Message, m.kind # "BLK", NEW t, Worse(<<m, n>>, t)
    PROVE  t = <<n>> \/ t = <<m>> \/ \E j \in Seq({Junk}) : t = <<m>> \o j
<1> DEFINE w == <<m, n>>
<1>1. Len(w) = 2 /\ w[1] = m /\ w[2] = n OBVIOUS
<1>2. /\ SubSeq(w, 1, 0) = <<>> /\ SubSeq(w, 2, 2) = <<n>>
      /\ SubSeq(w, 1, 1) = <<m>> /\ SubSeq(w, 3, 2) = <<>>
  <2>0. w \in Seq(Message) OBVIOUS
  <2>1. <<m>> \in Seq(Message) /\ Len(<<m>>) = 1 /\ <<m>>[1] = m OBVIOUS
  <2>2. <<n>> \in Seq(Message) /\ Len(<<n>>) = 1 /\ <<n>>[1] = n OBVIOUS
  <2> DEFINE a == <<m>>
             z == <<n>>
  <2> HIDE DEF w, a, z
  <2>3. SubSeq(w, 1, 0) = <<>> /\ SubSeq(w, 3, 2) = <<>> BY <2>0, SubSeqEmpty
  <2>4. /\ SubSeq(w, 2, 2) \in Seq(Message) /\ Len(SubSeq(w, 2, 2)) = 1
        /\ SubSeq(w, 2, 2)[1] = n
    BY <1>1, <2>0
  <2>5. /\ SubSeq(w, 1, 1) \in Seq(Message) /\ Len(SubSeq(w, 1, 1)) = 1
        /\ SubSeq(w, 1, 1)[1] = m
    BY <1>1, <2>0
  <2>6. SubSeq(w, 2, 2) = z /\ SubSeq(w, 1, 1) = a
    BY <2>4, <2>5, OneElement DEF a, z
  <2> QED BY <2>3, <2>6 DEF a, z
<1> HIDE DEF w
<1>3. PICK i \in 1..Len(w) :
         \/ t = SubSeq(w, 1, i - 1) \o SubSeq(w, i + 1, Len(w))
         \/ w[i].kind = "BLK" /\ \E j \in Seq({Junk}) :
               t = SubSeq(w, 1, i - 1) \o j \o SubSeq(w, i + 1, Len(w))
  <2>1. Worse(w, t) BY DEF w
  <2> QED BY <2>1 DEF Worse
<1>4. /\ <<>> \o <<n>> = <<n>> /\ <<m>> \o <<>> = <<m>>
      /\ \A j \in Seq({Junk}) : <<m>> \o j \o <<>> = <<m>> \o j
  <2>1. <<m>> \in Seq(Message) /\ <<n>> \in Seq(Message) OBVIOUS
  <2>2. \A j \in Seq({Junk}) : <<m>> \o j \in Seq(Message)
    <3>1. \A j \in Seq({Junk}) : j \in Seq(Message) BY SeqLarger, KindFacts
    <3> QED BY <2>1, <3>1, ConcatProperties
  <2> QED BY <2>1, <2>2, ConcatEmptySeq
<1>5. CASE i = 1
  <2>1. i - 1 = 0 /\ i + 1 = 2 BY <1>5
  <2>2. w[i].kind # "BLK" BY <1>1, <1>5
  <2>3. t = SubSeq(w, 1, 0) \o SubSeq(w, 2, 2) BY <1>1, <1>3, <2>1, <2>2
  <2> QED BY <1>2, <1>4, <2>3
<1>6. CASE i = 2
  <2>1. i - 1 = 1 /\ i + 1 = 3 BY <1>6
  <2>2. \/ t = SubSeq(w, 1, 1) \o SubSeq(w, 3, 2)
        \/ \E j \in Seq({Junk}) : t = SubSeq(w, 1, 1) \o j \o SubSeq(w, 3, 2)
    BY <1>1, <1>3, <1>6, <2>1
  <2> QED BY <1>2, <1>4, <2>2
<1>7. i = 1 \/ i = 2 BY <1>1
<1> QED BY <1>5, <1>6, <1>7

LEMMA FaultEffect ==
    ASSUME OneFault, TypeOK, NEW q \in Peer, NEW r \in Peer, r # q, Fault
    PROVE  /\ ~Spent /\ Spent' /\ Blamed'
           /\ UNCHANGED <<mode, cur, log, acked, SendBlkNo, ReceiveBlkNo, want, after,
                          PrevErrors, Errors, tries, LastResponse>>
           /\ \/ wire'[r] = wire[r] /\ Worse(wire[q], wire'[q])
              \/ wire'[q] = wire[q] /\ Worse(wire[r], wire'[r])
<1>1. faults < MaxFault /\ faults' = faults + 1 /\ faults \in Nat /\ MaxFault \in Nat
  BY BoundAssumption DEF Fault, TypeOK
<1>2. ~Spent /\ Spent' BY <1>1 DEF Spent, OneFault
<1>3. UNCHANGED <<mode, cur, log, acked, SendBlkNo, ReceiveBlkNo, want, after,
                  PrevErrors, Errors, tries, LastResponse>>
  BY DEF Fault, link
<1>4. PICK x \in Peer : \E i \in DOMAIN wire[x] : Lose(x, i) \/ Damage(x, i) BY DEF Fault
<1>5. PICK i \in DOMAIN wire[x] : Lose(x, i) \/ Damage(x, i) BY <1>4
<1>6. wire \in [Peer -> Seq(Message)] /\ i \in 1..Len(wire[x]) BY <1>5, Wires, LenProperties
<1>7. \E t : wire' = [wire EXCEPT ![x] = t] /\ Worse(wire[x], t)
  <2>1. CASE Lose(x, i) BY <1>6, <2>1 DEF Lose, Worse
  <2>2. CASE Damage(x, i)
    <3>1. PICK n \in 1..MaxJunk :
             wire' = [wire EXCEPT ![x] = SubSeq(@, 1, i - 1) \o [k \in 1..n |-> Junk]
                                         \o SubSeq(@, i + 1, Len(@))]
      BY <2>2 DEF Damage
    <3>2. [k \in 1..n |-> Junk] \in Seq({Junk})
      <4>1. n \in Nat OBVIOUS
      <4>2. [k \in 1..n |-> Junk] \in [1..n -> {Junk}] OBVIOUS
      <4> QED BY <4>1, <4>2, SeqDef
    <3>3. wire[x][i].kind = "BLK" BY <2>2 DEF Damage
    <3> DEFINE j == [k \in 1..n |-> Junk]
               t == SubSeq(wire[x], 1, i - 1) \o j \o SubSeq(wire[x], i + 1, Len(wire[x]))
    <3>4. wire' = [wire EXCEPT ![x] = t] BY <3>1
    <3>5. j \in Seq({Junk}) BY <3>2
    <3> HIDE DEF j
    <3>6. Worse(wire[x], t) BY <1>6, <3>3, <3>5 DEF Worse
    <3> QED BY <3>4, <3>6
  <2> QED BY <1>5, <2>1, <2>2
<1>8. x = q \/ x = r BY Roles
<1>9. Blamed' BY <1>2 DEF Blamed
<1> QED BY <1>2, <1>3, <1>6, <1>7, <1>8, <1>9

\* A step is a fault, a resynchronisation or a step of a side.
Steps(q) == \/ BlockSend(q) \/ WaitReceive(q) \/ ReSyncRead(q)
            \/ Puts(q) \/ (q = "server" /\ NoReply)

LEMMA NextSteps ==
    ASSUME Next, NEW q \in Peer, NEW r \in Peer, r # q
    PROVE  Fault \/ ReSync \/ ReSyncHi \/ Steps(q) \/ Steps(r)
<1>1. Peer = {q, r} /\ "client" \in Peer /\ "server" \in Peer BY Roles DEF Peer
<1>2. CASE Request \/ Carry BY <1>1, <1>2 DEF Carry, Steps, Puts
<1>3. CASE \E x \in Peer : BlockSend(x) \/ WaitReceive(x) \/ ReSyncRead(x)
  BY <1>1, <1>3 DEF Steps
<1> QED BY <1>2, <1>3 DEF Next

LEMMA StepModes ==
    ASSUME NEW q \in Peer, Steps(q)
    PROVE  /\ Sending(q) => BlockSend(q)
           /\ mode[q] = "get" => WaitReceive(q)
           /\ mode[q] = "resync" => ReSyncRead(q) /\ wire[q] # <<>>
           /\ mode[q] = AfterGet(q) =>
                 Puts(q) \/ (q = "server" /\ NoReply /\ ~want["server"])
           /\ Puts(q) => mode[q] = AfterGet(q)
<1>1. BlockSend(q) => Sending(q)
  BY DEF BlockSend, PutAck, PutNak, PutRlr, PutOther, Discard, Discarded, PutSilence,
         PutTimeout, Sending
<1>2. WaitReceive(q) => mode[q] = "get"
  BY DEF WaitReceive, GetBlock, GetWrongNumber, GetDamaged, GetTooLong, GetRlr, GetOther
<1>3. ReSyncRead(q) => mode[q] = "resync" /\ wire[q] # <<>> BY DEF ReSyncRead
<1>4. Puts(q) => mode[q] = AfterGet(q) BY DEF Puts, Request, Reply, AfterGet
<1>5. q = "server" /\ NoReply => mode[q] = AfterGet(q) /\ ~want["server"]
  BY DEF NoReply, AfterGet
<1>6. AfterGet(q) \in {"idle", "busy"} BY DEF AfterGet
<1>7. Sending(q) => mode[q] \in {"put", "drain"} BY DEF Sending
<1> QED BY <1>1, <1>2, <1>3, <1>4, <1>5, <1>6, <1>7 DEF Steps

LEMMA EmptyThen == \A x : <<>> \o <<x>> = <<x>>
<1> SUFFICES ASSUME NEW x PROVE <<>> \o <<x>> = <<x>> OBVIOUS
<1>1. <<x>> \in Seq({x}) OBVIOUS
<1> QED BY <1>1, ConcatEmptySeq

LEMMA LeftoverRemains ==
    ASSUME NEW w \in Seq(Leftover), NEW t \in Remains(w)
    PROVE  t \in Seq(Leftover) /\ (w = <<>> => t = <<>>)
<1>1. Leftover \cup {Junk} = Leftover /\ Leftover \subseteq Message BY KindFacts
<1> QED BY <1>1, SeqRemains

-----------------------------------------------------------------------------
(* One lemma for each stage.                                               *)

LEMMA TurnStep ==
    ASSUME OneFault, TypeOK, Blamed, NEW p \in Peer, NEW o \in Peer, o # p,
           Turn(p, o), Next, ~unheard'
    PROVE  Blamed' /\ Coming(p, o)'
<1>1. /\ mode[p] = AfterGet(p) /\ mode[o] = "get" /\ AfterGet(p) \in {"idle", "busy"}
      /\ Settled(p, o) /\ Settled(o, p) /\ PutLast(o)
      /\ wire[o] = <<>> /\ wire[p] \in Seq(Leftover)
      /\ wire[p] # <<>> => Spent /\ Errors[p] <= MAX_ERRORS
  BY DEF Turn, AfterGet
<1>2. ~Fault
  <2> SUFFICES ASSUME Fault PROVE FALSE OBVIOUS
  <2>1. ~Spent BY FaultEffect
  <2>2. wire[p] = <<>> BY <1>1, <2>1
  <2> QED BY <1>1, <2>2, FaultEffect, WorseNone
<1>3. ~ReSync /\ ~ReSyncHi BY <1>1, Roles DEF ReSync, ReSyncHi
<1>4. ~Steps(o) BY <1>1, StepModes, GetMoves
<1>5. ~(p = "server" /\ ~want["server"])
  <2> SUFFICES ASSUME p = "server" PROVE want["server"] OBVIOUS
  <2>1. o = "client" /\ cur["client"] = cur["server"] + 1 BY <1>1, Roles DEF PutLast
  <2>2. cur["server"] \in Nat BY Ranges, BoundAssumption
  <2>3. cur["client"] # 0 BY <2>1, <2>2
  <2> QED BY <1>1, <2>1, <2>3 DEF Settled
<1>6. Puts(p)
  <2>1. Steps(p) BY <1>2, <1>3, <1>4, NextSteps
  <2> QED BY <1>1, <1>5, <2>1, StepModes
<1>7. /\ Pending(p, o)' /\ Settled(o, p)' /\ PutLast(p)' /\ Blamed'
      /\ mode'[p] = "put" /\ mode'[o] = "get" /\ tries'[p] = 0
      /\ PrevErrors'[p] = Errors[p]
      /\ wire'[p] \in Remains(wire[p]) /\ wire'[o] = wire[o] \o <<Outgoing(p)'>>
      /\ wire[p] # <<>> => faults' = faults
  BY <1>1, <1>6, PutEffect
<1>8. wire'[p] \in Seq(Leftover) /\ (wire[p] = <<>> => wire'[p] = <<>>)
  BY <1>1, <1>7, LeftoverRemains
<1>9. wire'[o] = <<Outgoing(p)'>> BY <1>1, <1>7, EmptyThen
<1>10. wire'[p] # <<>> => Spent' /\ PrevErrors'[p] <= MAX_ERRORS
  BY <1>1, <1>7, <1>8 DEF Spent
<1> QED BY <1>7, <1>8, <1>9, <1>10 DEF Coming

LEMMA OneMessage ==
    \A x : <<x>> # <<>> /\ Head(<<x>>) = x /\ Tail(<<x>>) = <<>>
OBVIOUS

\* A step that moves no block, while the line has no fault left.
LEMMA Unmoved ==
    ASSUME TypeOK, NEW p \in Peer, NEW o \in Peer, o # p, NEW q \in Peer, Spent,
           \/ PutNak(q) \/ PutRlr(q) \/ PutOther(q)
           \/ Discard(q) \/ Discarded(q) \/ PutSilence(q)
           \/ GetDamaged(q) \/ GetTooLong(q) \/ GetRlr(q) \/ GetOther(q)
    PROVE  /\ Blamed' /\ Spent'
           /\ Settled(p, o) => Settled(p, o)'
           /\ Settled(o, p) => Settled(o, p)'
           /\ Pending(p, o) => Pending(p, o)'
           /\ Pending(o, p) => Pending(o, p)'
           /\ Unconfirmed(p, o) => Unconfirmed(p, o)'
           /\ PutLast(p)' = PutLast(p) /\ PutLast(o)' = PutLast(o)
           /\ Outgoing(p)' = Outgoing(p) /\ Outgoing(o)' = Outgoing(o)
           /\ PrevErrors'[p] = PrevErrors[p] /\ PrevErrors'[o] = PrevErrors[o]
<1>1. PICK r \in Peer : r # q
  <2>1. Other(q) \in Peer /\ Other(q) # q BY PeerFacts
  <2> QED BY <2>1
<1>2. Still BY <1>1, PutEffects, GetEffects
<1>3. faults' = faults BY <1>2 DEF Still
<1>4. Blamed' /\ Spent' BY <1>3, BlamedSpent
<1>5. /\ Settled(p, o)' = Settled(p, o) /\ Pending(p, o)' = Pending(p, o)
      /\ Unconfirmed(p, o)' = Unconfirmed(p, o) /\ PutLast(p)' = PutLast(p)
      /\ Outgoing(p)' = Outgoing(p) /\ PrevErrors'[p] = PrevErrors[p]
  BY <1>2, StillSame
<1>6. /\ Settled(o, p)' = Settled(o, p) /\ Pending(o, p)' = Pending(o, p)
      /\ PutLast(o)' = PutLast(o)
      /\ Outgoing(o)' = Outgoing(o) /\ PrevErrors'[o] = PrevErrors[o]
  BY <1>2, StillSame
<1> QED BY <1>4, <1>5, <1>6

\* What a fault leaves as it was.
LEMMA FaultSame ==
    ASSUME OneFault, TypeOK, NEW p \in Peer, NEW o \in Peer, o # p, Fault
    PROVE  /\ Settled(p, o) => Settled(p, o)'
           /\ Settled(o, p) => Settled(o, p)'
           /\ Pending(p, o) => Pending(p, o)'
           /\ Pending(o, p) => Pending(o, p)'
           /\ Unconfirmed(p, o) => Unconfirmed(p, o)'
           /\ PutLast(p)' = PutLast(p) /\ PutLast(o)' = PutLast(o)
           /\ Outgoing(p)' = Outgoing(p) /\ Outgoing(o)' = Outgoing(o)
<1>1. UNCHANGED <<cur, log, SendBlkNo, ReceiveBlkNo, want, PrevErrors>> BY FaultEffect
<1> QED BY <1>1 DEF Settled, Pending, Unconfirmed, PutLast, Outgoing, NewBlock

\* Before the fault no error count is above the limit.
LEMMA NotBlamed ==
    ASSUME TypeOK, Blamed, ~Spent, NEW q \in Peer
    PROVE  Errors[q] <= MAX_ERRORS /\ (Sending(q) => PrevErrors[q] <= MAX_ERRORS)
<1>1. /\ Errors[q] \in 0..(MAX_ERRORS + 1) /\ PrevErrors[q] \in 0..(MAX_ERRORS + 1)
      /\ MAX_ERRORS \in Nat
  BY Ranges, BoundAssumption
<1>2. ~(Errors[q] > MAX_ERRORS) /\ (Sending(q) => ~(PrevErrors[q] > MAX_ERRORS))
  BY DEF Blamed
<1> QED BY <1>1, <1>2

LEMMA ComingStep ==
    ASSUME OneFault, TypeOK, Blamed, NEW p \in Peer, NEW o \in Peer, o # p,
           Coming(p, o), Next, ~unheard'
    PROVE  Blamed' /\ (Coming(p, o)' \/ Repair(p, o)' \/ Taken(p, o)' \/ HalfSync(p, o)')
<1>1. /\ mode[p] \in {"put", "drain"} /\ mode[o] = "get"
      /\ Pending(p, o) /\ Settled(o, p) /\ PutLast(p)
      /\ wire[o] = <<Outgoing(p)>> /\ wire[p] \in Seq(Leftover)
      /\ wire[p] # <<>> \/ mode[p] = "drain" => Spent /\ PrevErrors[p] <= MAX_ERRORS
      /\ tries[p] = 0 /\ Sending(p)
  BY DEF Coming, Sending
<1>2. /\ wire[o] # <<>> /\ Head(wire[o]) = Outgoing(p) /\ Tail(wire[o]) = <<>>
      /\ Outgoing(p).kind = "BLK" /\ mode[o] \in Listening
  BY <1>1, OneMessage, OutgoingBlock DEF Listening
<1>3. wire[p] # <<>> => Head(wire[p]) \in Leftover /\ Tail(wire[p]) \in Seq(Leftover)
  BY <1>1, SeqRest
<1>4. ~ReSync /\ ~ReSyncHi BY <1>1, Roles DEF ReSync, ReSyncHi
<1>5. CASE Fault
  <2>1. ~Spent /\ Spent' /\ Blamed' BY <1>5, FaultEffect
  <2>2. wire[p] = <<>> /\ mode[p] = "put" BY <1>1, <2>1
  <2>3. wire'[p] = <<>> /\ Worse(wire[o], wire'[o])
    BY <1>5, <2>2, FaultEffect, WorseNone
  <2>4. wire'[o] \in Seq({Junk, Outgoing(p)})
    <3>1. Outgoing(p) \in Message BY <1>1, <1>2, Wires
    <3>2. wire'[o] = <<>> \/ wire'[o] \in Seq({Junk}) BY <1>1, <2>3, <3>1, WorseOne
    <3>3. <<>> \in Seq({Junk}) /\ {Junk} \subseteq {Junk, Outgoing(p)} OBVIOUS
    <3> QED BY <3>2, <3>3, SeqLarger
  <2>5. wire'[p] \in Seq({Nak}) BY <2>3
  <2>6. tries'[p] < MaxTries
    <3>1. tries'[p] = 0 BY <1>1, <1>5, FaultEffect
    <3> QED BY <3>1, BoundAssumption DEF OneFault
  <2>7. /\ mode' = mode /\ PrevErrors' = PrevErrors /\ Errors' = Errors
    BY <1>5, FaultEffect
  <2>8. PrevErrors[p] <= MAX_ERRORS /\ Errors[o] <= MAX_ERRORS
    BY <1>1, <2>1, NotBlamed
  <2>9. Repair(p, o)'
    BY <1>1, <1>5, <2>1, <2>2, <2>4, <2>5, <2>6, <2>7, <2>8, FaultSame DEF Repair
  <2> QED BY <2>1, <2>9
<1>6. CASE Steps(p)
  <2>1. BlockSend(p) BY <1>1, <1>6, StepModes
  <2>2. wire[p] # <<>> /\ (PutOther(p) \/ Discard(p))
    <3>1. CASE mode[p] = "put"
      <4>1. ~(wire[o] = <<>> \/ mode[o] \notin Listening) BY <1>2
      <4>2. wire[p] # <<>> => Head(wire[p]) \notin {Ack, Nak, Rlr} BY <1>3, KindFacts
      <4> QED BY <2>1, <3>1, <4>1, <4>2, PutMoves
    <3>2. CASE mode[p] = "drain" BY <1>2, <2>1, <3>2, DrainMoves
    <3> QED BY <1>1, <3>1, <3>2
  <2>3. Spent /\ PrevErrors[p] <= MAX_ERRORS BY <1>1, <2>2
  <2>4. /\ wire'[p] = Tail(wire[p]) /\ wire'[o] = wire[o] /\ tries' = tries
        /\ mode'[p] \in {"put", "drain"} /\ mode'[o] = mode[o]
    <3>1. mode'[p] = IF PutOther(p) THEN "drain" ELSE IF Discarded(p) THEN "put" ELSE mode[p]
      BY <2>2, PutEffects
    <3>2. mode'[p] \in {"put", "drain"} BY <1>1, <3>1
    <3> QED BY <2>2, <3>2, PutEffects
  <2>5. Coming(p, o)' BY <1>1, <1>3, <2>2, <2>3, <2>4, Unmoved DEF Coming
  <2> QED BY <2>2, <2>3, <2>5, Unmoved
<1>7. CASE Steps(o)
  <2>1. WaitReceive(o) BY <1>1, <1>7, StepModes
  <2>2. GetBlock(o)
    <3>1. Expected(o, Head(wire[o]).blk) BY <1>1, <1>2, ExpectedNow
    <3>2. ~GetWrongNumber(o) BY <3>1 DEF GetWrongNumber
    <3>3. Head(wire[o]) \notin {Junk, Rlr, Ack, Nak} BY <1>2, KindFacts
    <3> QED BY <2>1, <3>2, <3>3, GetMoves
  <2>3. /\ Unconfirmed(p, o)' /\ Settled(o, p)' /\ PutLast(p)'
        /\ wire'[o] = Tail(wire[o]) /\ wire'[p] = wire[p] \o <<Ack>>
        /\ LastResponse'[o] = "ACK"
        /\ mode'[p] = mode[p] /\ after'[o] = AfterGet(o)
        /\ PrevErrors[p] <= MAX_ERRORS => mode'[o] = AfterGet(o)
        /\ PrevErrors[p] > MAX_ERRORS => mode'[o] = "resync"
        /\ UNCHANGED <<Errors, PrevErrors, tries, faults>>
        /\ Blamed'
    BY <1>1, <1>2, <2>2, TakeEffect
  <2>4. PrevErrors[p] <= MAX_ERRORS \/ PrevErrors[p] > MAX_ERRORS
    BY Ranges, BoundAssumption
  <2>5. wire[p] = <<>> => wire'[p] = <<Ack>> BY <2>3, EmptyThen
  <2>6. Spent' = Spent BY <2>3 DEF Spent
  <2>7. CASE PrevErrors[p] <= MAX_ERRORS
    <3>1. CASE mode[p] = "put" /\ wire[p] = <<>>
      <4>1. <<Ack>> \in Seq(Message) BY KindFacts
      <4>2. NaksThen(wire'[p], <<Ack>>) BY <2>5, <3>1, <4>1, NaksNone
      <4>3. wire'[o] \in Seq(Leftover) /\ wire'[o] = <<>>
        <5>1. <<>> \in Seq(Leftover) OBVIOUS
        <5> QED BY <1>2, <2>3, <5>1
      <4>4. AckComes(p, o)' BY <2>3, <2>5, <3>1, <4>2, <4>3 DEF AckComes
      <4>5. Taken(p, o)' BY <2>3, <2>7, <4>4 DEF Taken
      <4> QED BY <2>3, <4>5
    <3>2. CASE mode[p] = "put" /\ wire[p] # <<>>
      <4>1. <<Ack>> \in Seq(Message) /\ wire[p] \in Seq(Message) BY KindFacts, Wires
      <4> DEFINE u == <<Ack>>
      <4> HIDE DEF u
      <4>2. wire'[p] = wire[p] \o u /\ u \in Seq(Message) BY <2>3, <4>1 DEF u
      <4>3. wire'[p] # <<>> /\ Head(wire'[p]) = Head(wire[p])
        BY <3>2, <4>1, <4>2, TailJoined
      <4>4. AckBuried(p, o)'
        BY <1>1, <1>2, <1>3, <2>3, <2>6, <3>2, <4>3 DEF AckBuried
      <4>5. Taken(p, o)' BY <2>3, <2>7, <4>4 DEF Taken
      <4> QED BY <2>3, <4>5
    <3>3. CASE mode[p] = "drain"
      <4>1. AckDrained(p, o)' BY <1>1, <1>2, <2>3, <2>6, <3>3 DEF AckDrained
      <4>2. Taken(p, o)' BY <2>3, <2>7, <4>1 DEF Taken
      <4> QED BY <2>3, <4>2
    <3> QED BY <1>1, <3>1, <3>2, <3>3
  <2>8. CASE PrevErrors[p] > MAX_ERRORS
    <3>1. ~(PrevErrors[p] <= MAX_ERRORS) BY <2>8, Ranges, BoundAssumption
    <3>2. wire[p] = <<>> /\ mode[p] = "put" BY <1>1, <3>1
    <3>3. Spent BY <1>1, <2>8 DEF Blamed
    <3>4. HalfSync(p, o)' BY <1>2, <2>3, <2>5, <2>6, <2>8, <3>2, <3>3 DEF HalfSync
    <3> QED BY <2>3, <3>4
  <2> QED BY <2>4, <2>7, <2>8
<1> QED BY <1>4, <1>5, <1>6, <1>7, NextSteps

LEMMA PendingMessage ==
    ASSUME TypeOK, NEW p \in Peer, NEW o \in Peer, o # p, Pending(p, o)
    PROVE  Outgoing(p) \in Message
<1>1. Last(log[o]) \in 0..MaxPut /\ cur[p] \in 0..MaxPut BY Ranges
<1>2. cur[p] >= 1 BY <1>1, BoundAssumption DEF Pending
<1> QED BY <1>2, OutgoingMessage

LEMMA RepairStep ==
    ASSUME OneFault, TypeOK, Blamed, NEW p \in Peer, NEW o \in Peer, o # p,
           Repair(p, o), Next, ~unheard'
    PROVE  Blamed' /\ (Repair(p, o)' \/ Taken(p, o)')
<1> DEFINE Copy == {Junk, Outgoing(p)}
           Copies == /\ wire[o] \in Seq(Copy) /\ wire[p] \in Seq({Nak})
                     /\ wire[p] # <<>> \/ tries[p] < MaxTries
           Asks == wire[o] = <<Rlr>> /\ wire[p] = <<>>
<1>1. /\ mode[p] = "put" /\ mode[o] = "get"
      /\ Pending(p, o) /\ Settled(o, p) /\ PutLast(p)
      /\ Spent /\ PrevErrors[p] <= MAX_ERRORS /\ Errors[o] <= MAX_ERRORS
      /\ Copies \/ Asks
      /\ Sending(p) /\ mode[o] \in Listening
  BY DEF Repair, Sending, Listening
<1>2. /\ Outgoing(p).kind = "BLK" /\ Copy \subseteq Leftover
      /\ (wire[o] \in Seq(Copy) /\ wire[o] # <<>>) =>
            /\ Head(wire[o]) \in Copy /\ Tail(wire[o]) \in Seq(Copy)
            /\ Outgoing(p) = Head(wire[o]) => Outgoing(p) \in Message
  <2>1. Outgoing(p).kind = "BLK" BY OutgoingBlock
  <2>2. Outgoing(p) \in Message BY <1>1, PendingMessage
  <2> QED BY <2>1, <2>2, KindFacts, SeqRest DEF Leftover
<1>3. ~Fault BY <1>1, FaultEffect
<1>4. ~ReSync /\ ~ReSyncHi BY <1>1, Roles DEF ReSync, ReSyncHi
<1>5. CASE Steps(p)
  <2>1. BlockSend(p) BY <1>1, <1>5, StepModes
  <2>2. CASE wire[p] # <<>>
    <3>1. Copies BY <1>1, <2>2
    <3>2. Head(wire[p]) = Nak /\ Tail(wire[p]) \in Seq({Nak}) BY <2>2, <3>1, SeqRest
    <3>3. PutNak(p) BY <1>1, <2>1, <2>2, <3>2, KindFacts, PutMoves
    <3>4. /\ wire'[p] = Tail(wire[p]) /\ wire'[o] = wire[o] \o <<Outgoing(p)>>
          /\ mode'[p] = mode[p] /\ mode'[o] = mode[o] /\ tries'[p] = 0
          /\ Errors'[o] = Errors[o]
      <4>1. ~PutOther(p) /\ ~Discarded(p)
        BY <1>1, <2>2, <3>2, KindFacts, Wires, ReadFacts DEF PutOther, Discarded
      <4> QED BY <3>3, <4>1, PutEffects
    <3>5. wire'[o] \in Seq({Junk, Outgoing(p)'})
      <4>1. Outgoing(p)' = Outgoing(p) BY <1>1, <3>3, Unmoved
      <4>2. wire'[o] \in Seq(Copy) BY <3>1, <3>4, SeqMore
      <4> QED BY <4>1, <4>2
    <3>6. 0 < MaxTries BY BoundAssumption DEF OneFault
    <3>7. Repair(p, o)' BY <1>1, <3>2, <3>3, <3>4, <3>5, <3>6, Unmoved DEF Repair
    <3> QED BY <1>1, <3>3, <3>7, Unmoved
  <2>3. CASE wire[p] = <<>>
    <3>1. wire[o] = <<>> BY <1>1, <2>1, <2>3, PutMoves
    <3>2. Copies BY <1>1, <3>1, OneMessage
    <3>3. tries[p] # MaxTries BY <2>3, <3>2, Ranges, BoundAssumption
    <3>4. PutSilence(p) BY <1>1, <2>1, <2>3, <3>3, PutMoves
    <3>5. /\ wire'[p] = <<>> /\ wire'[o] = <<Rlr>>
          /\ mode'[p] = mode[p] /\ mode'[o] = mode[o] /\ Errors'[o] = Errors[o]
      <4>1. ~PutOther(p) /\ ~Discarded(p) BY <1>1, <2>3 DEF PutOther, Discarded
      <4>2. wire'[p] = wire[p] /\ wire'[o] = wire[o] \o <<Rlr>>
        BY <3>4, PutEffects
      <4> QED BY <2>3, <3>1, <3>4, <4>1, <4>2, PutEffects, EmptyThen
    <3>6. Repair(p, o)' BY <1>1, <3>4, <3>5, Unmoved DEF Repair
    <3> QED BY <1>1, <3>4, <3>6, Unmoved
  <2> QED BY <2>2, <2>3
<1>6. CASE Steps(o)
  <2>1. WaitReceive(o) /\ wire[o] # <<>> BY <1>1, <1>6, StepModes, GetMoves
  <2>2. CASE Asks
    <3>1. Head(wire[o]) = Rlr /\ Tail(wire[o]) = <<>> BY <2>2, OneMessage
    <3>2. GetRlr(o) BY <2>1, <3>1, KindFacts, GetMoves
    <3>3. /\ wire'[o] = <<>> /\ wire'[p] = <<Nak>>
          /\ mode'[p] = mode[p] /\ mode'[o] = mode[o] /\ Errors'[o] = Errors[o]
      <4>1. wire'[o] = Tail(wire[o]) /\ wire'[p] = wire[p] \o <<Nak>>
        BY <3>2, GetEffects
      <4> QED BY <2>2, <3>1, <3>2, <4>1, GetEffects, EmptyThen
    <3>4. wire'[p] \in Seq({Nak}) /\ wire'[p] # <<>> /\ wire'[o] \in Seq({Junk, Outgoing(p)'})
      BY <3>3
    <3>5. Repair(p, o)' BY <1>1, <3>2, <3>3, <3>4, Unmoved DEF Repair
    <3> QED BY <1>1, <3>2, <3>5, Unmoved
  <2>3. CASE Copies
    <3>1. Head(wire[o]) \in Copy /\ Tail(wire[o]) \in Seq(Copy) BY <1>2, <2>1, <2>3
    <3>2. CASE Head(wire[o]) = Outgoing(p)
      <4>1. GetBlock(o)
        <5>1. ~GetWrongNumber(o) BY <1>1, <3>2, ExpectedNow DEF GetWrongNumber
        <5>2. Head(wire[o]) \notin {Junk, Rlr, Ack, Nak} BY <1>2, <3>2, KindFacts
        <5> QED BY <2>1, <5>1, <5>2, GetMoves
      <4>2. /\ Unconfirmed(p, o)' /\ Settled(o, p)' /\ PutLast(p)'
            /\ wire'[o] = Tail(wire[o]) /\ wire'[p] = wire[p] \o <<Ack>>
            /\ LastResponse'[o] = "ACK"
            /\ mode'[p] = mode[p] /\ mode'[o] = AfterGet(o)
            /\ UNCHANGED <<Errors, PrevErrors, tries, faults>>
            /\ Blamed'
        BY <1>1, <3>2, <4>1, TakeEffect
      <4>3. NaksThen(wire'[p], <<Ack>>) BY <2>3, <4>2 DEF NaksThen
      <4>4. wire'[o] \in Seq(Leftover) BY <1>2, <3>1, <4>2, SeqLarger
      <4>5. AckComes(p, o)' BY <1>1, <4>2, <4>3, <4>4 DEF AckComes, Spent
      <4>6. Taken(p, o)' BY <1>1, <4>2, <4>5 DEF Taken
      <4> QED BY <4>2, <4>6
    <3>3. CASE Head(wire[o]) = Junk
      <4>1. GetDamaged(o) \/ GetTooLong(o) \/ GetOther(o)
        BY <2>1, <3>3, KindFacts, GetMoves
      <4>2. /\ mode'[p] = mode[p] /\ mode'[o] = mode[o] /\ Errors'[o] = Errors[o]
            /\ tries' = tries
        BY <4>1, GetEffects
      <4>3. /\ wire'[o] \in Seq(Copy) /\ wire'[p] \in Seq({Nak})
            /\ wire'[p] # <<>> \/ tries'[p] < MaxTries
        <5>1. CASE GetDamaged(o)
          <6>1. wire'[o] = Tail(wire[o]) /\ wire'[p] = wire[p] \o <<Nak>>
            BY <5>1, GetEffects
          <6> QED BY <2>3, <3>1, <6>1, SeqMore
        <5>2. CASE GetTooLong(o)
          <6>1. wire'[o] \in Remains(Tail(wire[o])) /\ wire'[p] = wire[p]
            BY <5>2, GetEffects
          <6>2. Copy \subseteq Message /\ Copy \cup {Junk} = Copy BY <1>2, KindFacts
          <6>3. wire'[o] \in Seq(Copy) BY <3>1, <6>1, <6>2, SeqRemains
          <6> QED BY <2>3, <4>2, <6>1, <6>3
        <5>3. CASE GetOther(o)
          <6>1. wire'[o] = Tail(wire[o]) /\ wire'[p] = wire[p]
            BY <5>3, GetEffects
          <6> QED BY <2>3, <3>1, <4>2, <6>1
        <5> QED BY <4>1, <5>1, <5>2, <5>3
      <4>4. wire'[o] \in Seq({Junk, Outgoing(p)'})
        <5>1. Outgoing(p)' = Outgoing(p) BY <1>1, <4>1, Unmoved
        <5> QED BY <4>3, <5>1
      <4>5. Repair(p, o)' BY <1>1, <4>1, <4>2, <4>3, <4>4, Unmoved DEF Repair
      <4> QED BY <1>1, <4>1, <4>5, Unmoved
    <3> QED BY <3>1, <3>2, <3>3
  <2> QED BY <1>1, <2>2, <2>3
<1> QED BY <1>3, <1>4, <1>5, <1>6, NextSteps

LEMMA OneThen == \A x, y : <<x>> \o <<y>> = <<x, y>>
<1> SUFFICES ASSUME NEW x, NEW y PROVE <<x>> \o <<y>> = <<x, y>> OBVIOUS
<1> DEFINE S == {x, y}
           a == <<x>>
           b == <<y>>
           c == <<x, y>>
<1>1. a \in Seq(S) /\ Len(a) = 1 /\ a[1] = x /\ b \in Seq(S) /\ Len(b) = 1 /\ b[1] = y
  OBVIOUS
<1>2. c \in Seq(S) /\ Len(c) = 2 /\ c[1] = x /\ c[2] = y OBVIOUS
<1> HIDE DEF S, a, b, c
<1>3. /\ a \o b \in Seq(S) /\ Len(a \o b) = Len(a) + Len(b)
      /\ \A i \in 1..(Len(a) + Len(b)) : (a \o b)[i] = IF i <= Len(a) THEN a[i] ELSE b[i - Len(a)]
  <2>1. a \in Seq(S) /\ b \in Seq(S) BY <1>1
  <2> QED BY ONLY <2>1, ConcatProperties
<1>4. Len(a \o b) = 2 BY <1>1, <1>3
<1>5. \A i \in 1..Len(c) : (a \o b)[i] = c[i]
  <2>1. (a \o b)[1] = x /\ (a \o b)[2] = y
    <3>1. 1 \in 1..(Len(a) + Len(b)) /\ 2 \in 1..(Len(a) + Len(b)) BY <1>1
    <3>2. (a \o b)[1] = a[1] BY <1>1, <1>3, <3>1
    <3>3. (a \o b)[2] = b[2 - 1] BY <1>1, <1>3, <3>1
    <3>4. 2 - 1 = 1 OBVIOUS
    <3> QED BY <1>1, <3>2, <3>3, <3>4
  <2>2. TAKE i \in 1..Len(c)
  <2>3. i = 1 \/ i = 2 BY <1>2
  <2> QED BY <1>2, <2>1, <2>3
<1>6. a \o b = c BY <1>2, <1>3, <1>4, <1>5, SeqEqual
<1> QED BY <1>6 DEF a, b, c

LEMMA TakenStep ==
    ASSUME OneFault, IInv, TypeOK', Blamed, NEW p \in Peer, NEW o \in Peer, o # p,
           Taken(p, o), Next, ~unheard'
    PROVE  Blamed' /\ (Taken(p, o)' \/ Turn(o, p)' \/ Crossed(p, o)')
<1>1. /\ mode[o] = AfterGet(o) /\ mode[o] \in {"idle", "busy"} /\ mode[o] \notin Listening
      /\ mode[p] \in {"put", "drain"} /\ Sending(p) /\ ~Sending(o)
      /\ Unconfirmed(p, o) /\ Settled(o, p) /\ PutLast(p)
      /\ LastResponse[o] = "ACK" /\ PrevErrors[p] <= MAX_ERRORS
      /\ AckComes(p, o) \/ AckBuried(p, o) \/ AckLost(p, o) \/ AckDrained(p, o)
  BY DEF Taken, AckComes, AckBuried, AckLost, AckDrained, Sending, AfterGet, Listening
<1>2. TypeOK BY DEF IInv
<1>3. Outgoing(p) \in Leftover
  <2>1. cur[p] >= 1 BY <1>1 DEF IInv, Modes
  <2> QED BY <1>2, <2>1, OutgoingMessage, OutgoingBlock DEF Leftover
<1>4. ~ReSync /\ ~ReSyncHi BY <1>1, Roles DEF ReSync, ReSyncHi
<1>5. <<Ack>> \in Seq(Message) /\ Ack.kind # "BLK" /\ <<>> \in Seq({Rlr})
  BY KindFacts
<1>6. CASE Fault
  <2>1. ~Spent /\ Spent' /\ Blamed' BY <1>2, <1>6, FaultEffect
  <2>2. AckComes(p, o) /\ wire[p] = <<Ack>> /\ wire[o] = <<>> /\ mode[p] = "put"
    BY <1>1, <2>1 DEF AckComes, AckBuried, AckLost, AckDrained
  <2>3. wire'[o] = <<>> /\ Worse(wire[p], wire'[p])
    BY <1>2, <1>6, <2>2, FaultEffect, WorseNone
  <2>4. wire'[p] = <<>> BY <1>5, <2>2, <2>3, KindFacts, WorseOne
  <2>5. mode' = mode /\ PrevErrors' = PrevErrors /\ LastResponse' = LastResponse
    BY <1>2, <1>6, FaultEffect
  <2>6. AckLost(p, o)' BY <1>5, <2>1, <2>2, <2>3, <2>4, <2>5 DEF AckLost
  <2>7. Taken(p, o)' BY <1>1, <1>2, <1>6, <2>5, <2>6, FaultSame DEF Taken
  <2> QED BY <2>1, <2>7
<1>7. CASE Steps(p)
  <2>1. BlockSend(p) BY <1>1, <1>7, StepModes
  <2>2. ASSUME Spent,
               \/ PutNak(p) \/ PutOther(p) \/ Discard(p) \/ Discarded(p) \/ PutSilence(p),
               AckComes(p, o)' \/ AckBuried(p, o)' \/ AckLost(p, o)' \/ AckDrained(p, o)'
        PROVE  Blamed' /\ Taken(p, o)'
    <3>1. mode'[o] = mode[o] /\ LastResponse' = LastResponse BY <1>2, <2>2, PutEffects
    <3> QED BY <1>1, <1>2, <2>2, <3>1, Unmoved DEF Taken
  <2>3. CASE AckComes(p, o) /\ wire[p] = <<Ack>>
    <3>1. wire[p] # <<>> /\ Head(wire[p]) = Ack /\ Tail(wire[p]) = <<>> /\ mode[p] = "put"
      BY <2>3, OneMessage DEF AckComes
    <3>2. PutAck(p) BY <1>2, <2>1, <3>1, KindFacts, PutMoves
    <3>3. /\ Settled(p, o)' /\ Settled(o, p)' /\ PutLast(p)'
          /\ wire'[p] = <<>> /\ wire'[o] = wire[o]
          /\ mode'[o] = mode[o] /\ mode'[p] = "get"
          /\ UNCHANGED <<Errors, faults>> /\ Blamed'
      BY <1>1, <1>2, <3>1, <3>2, AckEffect
    <3>4. /\ wire'[o] \in Seq(Leftover)
          /\ wire'[o] # <<>> => Spent' /\ Errors'[o] <= MAX_ERRORS
      BY <2>3, <3>3 DEF AckComes, Spent
    <3>5. Turn(o, p)' BY <1>1, <3>3, <3>4 DEF Turn
    <3> QED BY <3>3, <3>5
  <2>4. CASE AckComes(p, o) /\ wire[p] # <<Ack>>
    <3>1. /\ wire[p] # <<>> /\ Head(wire[p]) = Nak /\ NaksThen(Tail(wire[p]), <<Ack>>)
          /\ mode[p] = "put" /\ Spent /\ Errors[o] <= MAX_ERRORS /\ wire[o] \in Seq(Leftover)
      BY <1>5, <2>4, NaksFirst DEF AckComes
    <3>2. PutNak(p) BY <1>2, <2>1, <3>1, KindFacts, PutMoves
    <3>3. ~PutOther(p) /\ ~Discarded(p)
      BY <1>2, <3>1, KindFacts, ReadFacts DEF PutOther, Discarded
    <3>4. /\ wire'[p] = Tail(wire[p]) /\ wire'[o] = wire[o] \o <<Outgoing(p)>>
          /\ mode'[p] = mode[p] /\ Errors'[o] = Errors[o]
      BY <1>2, <3>2, <3>3, PutEffects
    <3>5. wire'[o] \in Seq(Leftover) BY <1>3, <3>1, <3>4, SeqMore
    <3>6. Spent' BY <1>2, <3>1, <3>2, Unmoved
    <3>7. AckComes(p, o)' BY <3>1, <3>4, <3>5, <3>6 DEF AckComes
    <3> QED BY <2>2, <3>1, <3>2, <3>7
  <2>5. CASE AckBuried(p, o)
    <3>1. /\ wire[p] # <<>> /\ Head(wire[p]) \in Leftover /\ mode[p] = "put" /\ Spent
          /\ wire[o] = <<>>
      BY <2>5 DEF AckBuried
    <3>2. PutOther(p) BY <1>2, <2>1, <3>1, KindFacts, PutMoves
    <3>3. mode'[p] = "drain" /\ wire'[o] = <<>> BY <1>2, <3>1, <3>2, PutEffects
    <3>4. Spent' BY <1>2, <3>1, <3>2, Unmoved
    <3>5. AckDrained(p, o)' BY <3>3, <3>4 DEF AckDrained
    <3> QED BY <2>2, <3>1, <3>2, <3>5
  <2>6. CASE AckLost(p, o)
    <3>1. wire[p] = <<>> /\ mode[p] = "put" /\ Spent /\ wire[o] \in Seq({Rlr})
      BY <2>6 DEF AckLost
    <3>2. PutSilence(p) BY <1>1, <1>2, <2>1, <3>1, PutMoves
    <3>3. ~PutOther(p) /\ ~Discarded(p) BY <3>1 DEF PutOther, Discarded
    <3>4. mode'[p] = "put" /\ wire'[p] = <<>> /\ wire'[o] = wire[o] \o <<Rlr>>
      BY <1>2, <3>1, <3>2, <3>3, PutEffects
    <3>5. wire'[o] \in Seq({Rlr}) BY <3>1, <3>4, SeqMore
    <3>6. Spent' BY <1>2, <3>1, <3>2, Unmoved
    <3>7. AckLost(p, o)' BY <3>4, <3>5, <3>6 DEF AckLost
    <3> QED BY <2>2, <3>1, <3>2, <3>7
  <2>7. CASE AckDrained(p, o)
    <3>1. mode[p] = "drain" /\ Spent /\ wire[o] = <<>> BY <2>7 DEF AckDrained
    <3>2. CASE Discard(p)
      <4>2. wire'[o] = <<>> BY <1>2, <3>1, <3>2, PutEffects
      <4>3. mode'[p] = "drain" BY <3>1, <3>2 DEF Discard
      <4>4. Spent' BY <1>2, <3>1, <3>2, Unmoved
      <4>5. AckDrained(p, o)' BY <4>2, <4>3, <4>4 DEF AckDrained
      <4> QED BY <2>2, <3>1, <3>2, <4>5
    <3>3. CASE wire[p] = <<>> /\ Discarded(p)
      <4>1. ~PutOther(p) BY <3>1 DEF PutOther
      <4>2. mode'[p] = "put" /\ wire'[p] = <<>> /\ wire'[o] = wire[o] \o <<Rlr>>
        BY <1>2, <3>3, <4>1, PutEffects
      <4>3. wire'[o] \in Seq({Rlr}) BY <1>5, <3>1, <4>2, SeqMore
      <4>4. Spent' BY <1>2, <3>1, <3>3, Unmoved
      <4>5. AckLost(p, o)' BY <4>2, <4>3, <4>4 DEF AckLost
      <4> QED BY <2>2, <3>1, <3>3, <4>5
    <3> QED BY <1>2, <2>1, <3>1, <3>2, <3>3, DrainMoves
  <2> QED BY <1>1, <2>3, <2>4, <2>5, <2>6, <2>7
<1>8. CASE Steps(o)
  <2>1. ~(o = "server" /\ ~want["server"])
    <3> SUFFICES ASSUME o = "server" PROVE want["server"] OBVIOUS
    <3>1. p = "client" BY Roles
    <3> QED BY <1>1, <3>1 DEF Unconfirmed
  <2>2. Puts(o) BY <1>1, <1>8, <2>1, StepModes
  <2>3. /\ Pending(o, p)' /\ PutLast(o)' /\ Unconfirmed(p, o)'
        /\ mode'[o] = "put" /\ mode'[p] = mode[p] /\ tries'[o] = 0
        /\ PrevErrors'[o] = Errors[o] /\ PrevErrors'[p] = PrevErrors[p]
        /\ LastResponse' = LastResponse
        /\ wire'[o] \in Remains(wire[o]) /\ wire'[p] = wire[p] \o <<Outgoing(o)'>>
        /\ Blamed' /\ faults' = faults
    BY <1>1, <1>2, <2>2, PutEffect
  <2>4. Spent' = Spent BY <2>3 DEF Spent
  <2>5. ASSUME \/ BothComing(p, o)' \/ BothBuried(p, o)' \/ BothDrained(p, o)'
        PROVE  Crossed(p, o)'
    BY <1>1, <2>3, <2>5 DEF Crossed
  <2> DEFINE out == Outgoing(o)'
  <2>6. out \in Leftover /\ wire'[p] # <<>> /\ (wire[p] = <<>> => Head(wire'[p]) = out)
    <3>1. out.kind = "BLK" BY DEF Outgoing, NewBlock, Frame
    <3>2. Len(<<out>>) = 1 /\ <<out>>[1] = out OBVIOUS
    <3>3. wire'[p] \in Seq(Message) /\ wire[p] \in Seq(Message)
      BY <1>2, Wires DEF TypeOK
    <3> DEFINE u == <<out>>
               A == Message \cup {out}
    <3>4. u \in Seq(A) /\ wire[p] \in Seq(A)
      <4>1. Message \subseteq A OBVIOUS
      <4>2. wire[p] \in Seq(A) BY <3>3, <4>1, SeqLarger
      <4> QED BY <4>2
    <3>5. Len(u) = 1 /\ u[1] = out BY <3>2
    <3>6. wire'[p] = wire[p] \o u BY <2>3
    <3> HIDE DEF u, A, out
    <3>7. /\ Len(wire'[p]) = Len(wire[p]) + 1
          /\ wire'[p][Len(wire[p]) + 1] = out
      <4>1. /\ Len(wire[p] \o u) = Len(wire[p]) + Len(u)
            /\ \A i \in 1..(Len(wire[p]) + Len(u)) :
                 (wire[p] \o u)[i] = IF i <= Len(wire[p]) THEN wire[p][i]
                                     ELSE u[i - Len(wire[p])]
        BY <3>4, ConcatProperties
      <4>2. Len(wire[p]) \in Nat BY <3>3, LenProperties
      <4> QED BY <3>5, <3>6, <4>1, <4>2
    <3>8. Len(wire[p]) \in Nat /\ Len(wire'[p]) \in Nat BY <3>3, LenProperties
    <3>9. out \in Message
      <4>1. wire'[p] \in [1..Len(wire'[p]) -> Message] BY <3>3, LenProperties
      <4>2. Len(wire[p]) + 1 \in 1..Len(wire'[p]) BY <3>7, <3>8
      <4> QED BY <3>7, <4>1, <4>2
    <3>10. wire'[p] # <<>> BY <3>7, <3>8
    <3>11. wire[p] = <<>> => Head(wire'[p]) = out
      <4> SUFFICES ASSUME wire[p] = <<>> PROVE Head(wire'[p]) = out OBVIOUS
      <4>1. Len(wire[p]) = 0 OBVIOUS
      <4>2. wire'[p][1] = out BY <3>7, <4>1
      <4> QED BY <3>3, <3>10, <4>2, HeadTailProperties
    <3> QED BY <3>1, <3>9, <3>10, <3>11 DEF Leftover
  <2>7. CASE AckComes(p, o)
    <3>1. /\ mode[p] = "put" /\ NaksThen(wire[p], <<Ack>>) /\ wire[o] \in Seq(Leftover)
          /\ wire[p] # <<Ack>> \/ wire[o] # <<>> => Spent /\ Errors[o] <= MAX_ERRORS
      BY <2>7 DEF AckComes
    <3>2. wire'[o] \in Seq(Leftover) /\ (wire[o] = <<>> => wire'[o] = <<>>)
      BY <2>3, <3>1, LeftoverRemains
    <3>3. <<out>> \in Seq(Message) /\ <<Ack>> \o <<out>> = <<Ack, out>>
      <4>1. out \in Message BY <2>6, KindFacts
      <4> HIDE DEF out
      <4>2. <<out>> \in Seq(Message) BY <4>1
      <4> QED BY <4>2, OneThen
    <3>4. NaksThen(wire'[p], <<Ack, out>>) /\ (wire[p] = <<Ack>> => wire'[p] = <<Ack, out>>)
      <4> DEFINE u == <<out>>
                 t == <<Ack>>
      <4>1. u \in Seq(Message) /\ t \in Seq(Message) /\ NaksThen(wire[p], t)
            /\ wire'[p] = wire[p] \o u
        BY <1>5, <2>3, <3>1, <3>3
      <4> HIDE DEF u, t, out
      <4>2. NaksThen(wire[p] \o u, t \o u) BY <4>1, NaksMore
      <4> QED BY <3>3, <4>1, <4>2 DEF u, t
    <3>5. BothComing(p, o)'
      <4>1. Sending(o)' BY <2>3 DEF Sending
      <4>2. wire'[p] # <<Ack, out>> \/ wire'[o] # <<>> \/ mode'[o] = "drain" =>
               Spent' /\ PrevErrors'[o] <= MAX_ERRORS
        BY <2>3, <2>4, <3>1, <3>2, <3>4
      <4> QED BY <2>3, <3>1, <3>2, <3>4, <4>1, <4>2, KindFacts DEF BothComing
    <3> QED BY <2>3, <2>5, <3>5
  <2>8. CASE AckBuried(p, o)
    <3>1. /\ mode[p] = "put" /\ wire[p] # <<>> /\ Head(wire[p]) \in Leftover
          /\ wire[o] = <<>> /\ Spent
      BY <2>8 DEF AckBuried
    <3>2. wire'[o] = <<>>
      <4>1. wire[o] \in Seq(Leftover)
        <5>1. <<>> \in Seq(Leftover) OBVIOUS
        <5> QED BY <3>1, <5>1
      <4> QED BY <2>3, <3>1, <4>1, LeftoverRemains
    <3>3. Head(wire'[p]) = Head(wire[p])
      <4> DEFINE u == <<out>>
      <4>1. u \in Seq(Message) /\ wire[p] \in Seq(Message) /\ wire'[p] = wire[p] \o u
        <5>1. out \in Message BY <2>6, KindFacts
        <5>2. u \in Seq(Message)
          <6> HIDE DEF out
          <6> QED BY <5>1
        <5> QED BY <1>2, <2>3, <5>2, Wires
      <4> HIDE DEF u, out
      <4> QED BY <3>1, <4>1, TailJoined
    <3>4. BothBuried(p, o)' BY <1>5, <2>3, <2>4, <2>6, <3>1, <3>2, <3>3 DEF BothBuried
    <3> QED BY <2>3, <2>5, <3>4
  <2>9. CASE AckLost(p, o)
    <3>1. mode[p] = "put" /\ wire[p] = <<>> /\ wire[o] \in Seq({Rlr}) /\ Spent
      BY <2>9 DEF AckLost
    <3>2. wire'[o] \in Seq({Rlr})
      <4>1. {Rlr} \subseteq Message /\ \A m \in {Rlr} : m.kind # "BLK" BY KindFacts
      <4> QED BY <2>3, <3>1, <4>1, SeqRemains
    <3>3. BothBuried(p, o)' BY <2>3, <2>4, <2>6, <3>1, <3>2 DEF BothBuried
    <3> QED BY <2>3, <2>5, <3>3
  <2>10. CASE AckDrained(p, o)
    <3>1. mode[p] = "drain" /\ wire[o] = <<>> /\ Spent BY <2>10 DEF AckDrained
    <3>2. wire'[o] \in Seq({Rlr})
      <4>1. wire[o] \in Seq(Leftover)
        <5>1. <<>> \in Seq(Leftover) OBVIOUS
        <5> QED BY <3>1, <5>1
      <4> QED BY <1>5, <2>3, <3>1, <4>1, LeftoverRemains
    <3>3. BothDrained(p, o)' BY <2>3, <2>4, <3>1, <3>2 DEF BothDrained
    <3> QED BY <2>3, <2>5, <3>3
  <2> QED BY <1>1, <2>7, <2>8, <2>9, <2>10
<1> QED BY <1>4, <1>6, <1>7, <1>8, NextSteps

LEMMA CrossedStep ==
    ASSUME OneFault, IInv, Blamed, NEW p \in Peer, NEW o \in Peer, o # p,
           Crossed(p, o), Next, ~unheard'
    PROVE  Blamed' /\ (Crossed(p, o)' \/ Coming(o, p)' \/ Repair(o, p)')
<1>1. /\ Unconfirmed(p, o) /\ Pending(o, p) /\ PutLast(o)
      /\ LastResponse[o] = "ACK" /\ PrevErrors[p] <= MAX_ERRORS /\ tries[o] = 0
      /\ BothComing(p, o) \/ BothHurt(p, o) \/ BothBuried(p, o) \/ BothAsking(p, o)
         \/ BothDrained(p, o)
      /\ Sending(p) /\ Sending(o) /\ mode[p] \in Listening /\ mode[o] \in Listening
  BY DEF Crossed, BothComing, BothHurt, BothBuried, BothAsking, BothDrained, Sending,
         Listening
<1>2. TypeOK BY DEF IInv
<1> DEFINE out == Outgoing(o)
           pair == <<Ack, out>>
<1>3. Outgoing(p) \in Leftover
  <2>1. cur[p] >= 1 BY <1>1 DEF IInv, Modes
  <2> QED BY <1>2, <2>1, OutgoingMessage, OutgoingBlock DEF Leftover
<1>4. out \in Message /\ out \in Leftover /\ out # Ack
  <2>1. out \in Message /\ out.kind = "BLK" BY <1>1, <1>2, PendingMessage, OutgoingBlock
  <2> QED BY <2>1, KindFacts DEF Leftover
<1> HIDE DEF out
<1>5. /\ pair \in Seq(Message) /\ pair # <<>> /\ Head(pair) = Ack /\ Tail(pair) = <<out>>
      /\ Byte(LastResponse[o]) = Ack /\ Ack.kind # "BLK" /\ Ack \in Message
  <2>1. Ack \in Message /\ Ack.kind # "BLK" /\ Byte("ACK") = Ack BY KindFacts
  <2>2. pair \in Seq(Message) /\ pair # <<>> /\ Head(pair) = Ack BY <1>4, <2>1
  <2>3. Tail(pair) = <<out>>
    <3>1. <<Ack>> \in Seq(Message) /\ <<out>> \in Seq(Message) BY <1>4, <2>1
    <3>2. <<Ack>> \o <<out>> = pair BY OneThen
    <3>3. <<Ack>> # <<>> /\ Tail(<<Ack>>) = <<>> BY OneMessage
    <3>4. Tail(pair) = <<>> \o <<out>>
      <4> DEFINE a == <<Ack>>
                 b == <<out>>
      <4>1. a \in Seq(Message) /\ b \in Seq(Message) /\ a # <<>> BY <3>1, <3>3
      <4>2. a \o b = pair /\ Tail(a) = <<>> BY <3>2, <3>3
      <4> HIDE DEF a, b, pair
      <4>3. Tail(pair) = <<>> \o b BY <4>1, <4>2, TailJoined
      <4> QED BY <4>3 DEF b
    <3> QED BY <3>4, EmptyThen
  <2> QED BY <1>1, <2>1, <2>2, <2>3
<1>6. ~ReSync /\ ~ReSyncHi BY <1>1, Roles DEF ReSync, ReSyncHi, Sending
<1>7. CASE Fault
  <2>1. /\ ~Spent /\ Spent' /\ Blamed'
        /\ UNCHANGED <<mode, PrevErrors, Errors, tries, LastResponse>>
    BY <1>2, <1>7, FaultEffect
  <2>2. wire[p] = pair /\ wire[o] = <<>> /\ mode[p] = "put" /\ mode[o] = "put"
    BY <1>1, <2>1 DEF BothComing, BothHurt, BothBuried, BothAsking, BothDrained, Sending, out
  <2>3. wire'[o] = <<>> /\ Worse(wire[p], wire'[p])
    BY <1>2, <1>7, <2>2, FaultEffect, WorseNone
  <2>4. wire'[p] = <<out>> \/ wire'[p] = <<Ack>> \/ \E j \in Seq({Junk}) : wire'[p] = <<Ack>> \o j
    <3> DEFINE t == wire'[p]
    <3>1. Worse(<<Ack, out>>, t) BY <2>2, <2>3
    <3>2. Ack \in Message /\ out \in Message /\ Ack.kind # "BLK" BY <1>4, <1>5
    <3> HIDE DEF t
    <3>3. t = <<out>> \/ t = <<Ack>> \/ \E j \in Seq({Junk}) : t = <<Ack>> \o j
      BY ONLY <3>1, <3>2, WorseTwo
    <3> QED BY <3>3 DEF t
  <2>5. Errors[p] <= MAX_ERRORS /\ PrevErrors[o] <= MAX_ERRORS
    BY <1>1, <1>2, <2>1, NotBlamed
  <2>6. BothHurt(p, o)' \/ BothBuried(p, o)'
    <3>1. CASE wire'[p] = <<out>>
      <4>1. wire'[p] # <<>> /\ Head(wire'[p]) \in Leftover BY <1>4, <3>1, OneMessage
      <4>2. wire'[o] \in Seq({Rlr}) BY <2>3
      <4> QED BY <2>1, <2>2, <4>1, <4>2 DEF BothBuried
    <3>2. CASE \E j \in Seq({Junk}) : wire'[p] = <<Ack>> \o j
      BY <2>1, <2>2, <2>3, <2>5, <3>2 DEF BothHurt
    <3>3. CASE wire'[p] = <<Ack>>
      <4>1. <<Ack>> \o <<>> = <<Ack>> /\ <<>> \in Seq({Junk})
        <5>1. <<Ack>> \in Seq(Message) BY <1>5
        <5> QED BY <5>1, ConcatEmptySeq
      <4> QED BY <3>2, <3>3, <4>1
    <3> QED BY <2>4, <3>1, <3>2, <3>3
  <2>7. Crossed(p, o)' BY <1>1, <1>2, <1>7, <2>1, <2>6, FaultSame DEF Crossed
  <2> QED BY <2>1, <2>7
<1>8. CASE Steps(p)
  <2>1. BlockSend(p) BY <1>1, <1>8, StepModes
  <2>2. ASSUME Spent,
               PutNak(p) \/ PutOther(p) \/ Discard(p) \/ Discarded(p) \/ PutSilence(p),
               \/ BothComing(p, o)' \/ BothHurt(p, o)' \/ BothBuried(p, o)'
               \/ BothAsking(p, o)' \/ BothDrained(p, o)'
        PROVE  Blamed' /\ Crossed(p, o)'
    <3>1. mode'[o] = mode[o] /\ LastResponse' = LastResponse /\ tries'[o] = tries[o]
      BY <1>2, <2>2, PutEffects
    <3> QED BY <1>1, <1>2, <2>2, <3>1, Unmoved DEF Crossed
  <2>3. ASSUME PutAck(p)
        PROVE  /\ Settled(p, o)' /\ Pending(o, p)' /\ PutLast(o)'
               /\ Outgoing(o)' = out
               /\ wire'[p] = Tail(wire[p]) /\ wire'[o] = wire[o]
               /\ mode'[o] = mode[o] /\ mode'[p] = "get"
               /\ UNCHANGED <<Errors, PrevErrors, tries, faults>>
               /\ Blamed'
    BY <1>1, <1>2, <2>3, AckEffect DEF out
  <2>4. CASE BothComing(p, o) /\ wire[p] = pair
    <3>1. mode[p] = "put" /\ PutAck(p)
      <4>1. mode[p] = "put" BY <2>4 DEF BothComing
      <4>2. wire[p] # <<>> /\ Head(wire[p]) = Ack BY <1>5, <2>4
      <4> QED BY <1>2, <2>1, <4>1, <4>2, KindFacts, PutMoves
    <3>2. wire'[p] = <<Outgoing(o)'>> BY <1>5, <2>3, <2>4, <3>1
    <3>3. /\ wire'[o] \in Seq(Leftover)
          /\ wire'[o] # <<>> \/ mode'[o] = "drain" => Spent' /\ PrevErrors'[o] <= MAX_ERRORS
          /\ mode'[o] \in {"put", "drain"}
      BY <2>3, <2>4, <3>1 DEF BothComing, Spent, Sending
    <3>4. Coming(o, p)' BY <1>1, <2>3, <3>1, <3>2, <3>3 DEF Coming
    <3> QED BY <2>3, <3>1, <3>4
  <2>5. CASE BothComing(p, o) /\ wire[p] # pair
    <3>1. /\ mode[p] = "put" /\ NaksThen(wire[p], pair) /\ Sending(o)
          /\ wire[o] \in Seq(Leftover) /\ Spent /\ PrevErrors[o] <= MAX_ERRORS
      BY <2>5 DEF BothComing, out
    <3>2. wire[p] # <<>> /\ Head(wire[p]) = Nak /\ NaksThen(Tail(wire[p]), pair)
      <4> HIDE DEF pair
      <4> QED BY <1>5, <2>5, <3>1, NaksFirst
    <3>3. PutNak(p) BY <1>2, <2>1, <3>1, <3>2, KindFacts, PutMoves
    <3>4. ~PutOther(p) /\ ~Discarded(p)
      BY <1>2, <3>1, <3>2, KindFacts, ReadFacts DEF PutOther, Discarded
    <3>5. /\ wire'[p] = Tail(wire[p]) /\ wire'[o] = wire[o] \o <<Outgoing(p)>>
          /\ mode'[p] = mode[p] /\ mode'[o] = mode[o]
      BY <1>2, <3>3, <3>4, PutEffects
    <3>6. wire'[o] \in Seq(Leftover) BY <1>3, <3>1, <3>5, SeqMore
    <3>7. Spent' /\ PrevErrors'[o] = PrevErrors[o] /\ Outgoing(o)' = out
      BY <1>2, <3>1, <3>3, Unmoved DEF out
    <3>8. BothComing(p, o)' BY <3>1, <3>2, <3>5, <3>6, <3>7 DEF BothComing, Sending
    <3> QED BY <2>2, <3>1, <3>3, <3>8
  <2>6. CASE BothHurt(p, o)
    <3>1. /\ mode[p] = "put" /\ mode[o] = "put" /\ Spent
          /\ Errors[p] <= MAX_ERRORS /\ PrevErrors[o] <= MAX_ERRORS
          /\ \E j \in Seq({Junk}) : wire[p] = <<Ack>> \o j
          /\ wire[o] = <<>>
      BY <2>6 DEF BothHurt
    <3>2. PICK j \in Seq({Junk}) : wire[p] = <<Ack>> \o j BY <3>1
    <3>3. wire[p] # <<>> /\ Head(wire[p]) = Ack /\ Tail(wire[p]) = j
      <4> DEFINE a == <<Ack>>
      <4>1. a \in Seq(Message) /\ a # <<>> /\ Head(a) = Ack /\ Tail(a) = <<>>
        BY <1>5, OneMessage
      <4>2. j \in Seq(Message) BY SeqLarger, KindFacts
      <4>3. wire[p] = a \o j BY <3>2
      <4>4. <<>> \o j = j BY <4>2, ConcatEmptySeq
      <4> HIDE DEF a
      <4>5. a \o j # <<>> /\ Head(a \o j) = Head(a) /\ Tail(a \o j) = Tail(a) \o j
        BY <4>1, <4>2, TailJoined
      <4> QED BY <4>1, <4>3, <4>4, <4>5
    <3>4. PutAck(p) BY <1>2, <2>1, <3>1, <3>3, KindFacts, PutMoves
    <3>5. wire'[p] \in Seq({Junk, Outgoing(o)'})
      <4>1. {Junk} \subseteq {Junk, Outgoing(o)'} OBVIOUS
      <4>2. wire'[p] \in Seq({Junk}) BY <2>3, <3>3, <3>4
      <4> QED BY <4>1, <4>2, SeqLarger
    <3>6. wire'[o] \in Seq({Nak})
      <4>1. <<>> \in Seq({Nak}) OBVIOUS
      <4> QED BY <2>3, <3>1, <3>4, <4>1
    <3>7. tries'[o] < MaxTries BY <1>1, <2>3, <3>4, BoundAssumption DEF OneFault
    <3>8. Spent' BY <2>3, <3>1, <3>4 DEF Spent
    <3>9. Repair(o, p)' BY <2>3, <3>1, <3>4, <3>5, <3>6, <3>7, <3>8 DEF Repair
    <3> QED BY <2>3, <3>4, <3>9
  <2>7. CASE BothBuried(p, o)
    <3>1. /\ mode[p] = "put" /\ mode[o] = "put" /\ Spent
          /\ wire[p] # <<>> /\ Head(wire[p]) \in Leftover
          /\ wire[o] \in Seq({Rlr})
      BY <2>7 DEF BothBuried
    <3>2. PutOther(p) BY <1>2, <2>1, <3>1, KindFacts, PutMoves
    <3>3. mode'[p] = "drain" /\ mode'[o] = mode[o] /\ wire'[o] = wire[o]
      BY <1>2, <3>2, PutEffects
    <3>4. Spent' BY <1>2, <3>1, <3>2, Unmoved
    <3>5. BothDrained(p, o)' BY <3>1, <3>3, <3>4 DEF BothDrained
    <3> QED BY <2>2, <3>1, <3>2, <3>5
  <2>8. ~BothAsking(p, o)
    <3> SUFFICES ASSUME BothAsking(p, o) PROVE FALSE OBVIOUS
    <3>1. mode[p] = "put" /\ wire[p] = <<>> /\ wire[o] # <<>> BY OneMessage DEF BothAsking
    <3> QED BY <1>1, <1>2, <2>1, <3>1, PutMoves
  <2>9. CASE BothDrained(p, o)
    <3>1. mode[p] = "drain" /\ mode[o] = "put" /\ Spent /\ wire[o] \in Seq({Rlr})
      BY <2>9 DEF BothDrained
    <3>2. CASE Discard(p)
      <4>1. mode'[p] = mode[p] /\ mode'[o] = mode[o] /\ wire'[o] = wire[o]
        BY <1>2, <3>2, PutEffects DEF Discard
      <4>2. Spent' BY <1>2, <3>1, <3>2, Unmoved
      <4>3. BothDrained(p, o)' BY <3>1, <4>1, <4>2 DEF BothDrained
      <4> QED BY <2>2, <3>1, <3>2, <4>3
    <3>3. CASE wire[p] = <<>> /\ wire[o] = <<>> /\ Discarded(p)
      <4>1. ~PutOther(p) BY <3>1 DEF PutOther
      <4>2. /\ mode'[p] = "put" /\ mode'[o] = mode[o]
            /\ wire'[p] = <<>> /\ wire'[o] = wire[o] \o <<Rlr>>
        BY <1>2, <3>3, <4>1, PutEffects
      <4>3. wire'[o] = <<Rlr>> BY <3>3, <4>2, EmptyThen
      <4>4. Spent' BY <1>2, <3>1, <3>3, Unmoved
      <4>5. BothAsking(p, o)' BY <3>1, <4>2, <4>3, <4>4 DEF BothAsking
      <4> QED BY <2>2, <3>1, <3>3, <4>5
    <3> QED BY <1>1, <1>2, <2>1, <3>1, <3>2, <3>3, DrainMoves
  <2> QED BY <1>1, <2>4, <2>5, <2>6, <2>7, <2>8, <2>9
<1>9. CASE Steps(o)
  <2>1. BlockSend(o) BY <1>1, <1>9, StepModes
  <2>2. ASSUME Spent, PutRlr(o) \/ PutOther(o) \/ Discard(o),
               \/ BothComing(p, o)' \/ BothBuried(p, o)' \/ BothDrained(p, o)'
        PROVE  Blamed' /\ Crossed(p, o)'
    <3>1. LastResponse' = LastResponse BY <1>2, <2>2, PutEffects
    <3>2. tries'[o] = 0 BY <1>1, <1>2, <2>2, PutEffects
    <3> QED BY <1>1, <1>2, <2>2, <3>1, <3>2, Unmoved DEF Crossed
  <2>3. CASE BothComing(p, o)
    <3>1. /\ mode[p] = "put" /\ Sending(o)
          /\ NaksThen(wire[p], pair) /\ wire[o] \in Seq(Leftover)
          /\ wire[o] # <<>> \/ mode[o] = "drain" => Spent /\ PrevErrors[o] <= MAX_ERRORS
      BY <2>3 DEF BothComing, out
    <3>2. wire[p] # <<>>
      <4> HIDE DEF pair
      <4> QED BY <1>5, <3>1, NaksFirst
    <3>3. wire[o] # <<>> => Head(wire[o]) \in Leftover /\ Tail(wire[o]) \in Seq(Leftover)
      BY <3>1, SeqRest
    <3>4. wire[o] # <<>> /\ (PutOther(o) \/ Discard(o))
      <4>1. CASE mode[o] = "put"
        <5>1. wire[o] # <<>> => Head(wire[o]) \notin {Ack, Nak, Rlr} BY <3>3, KindFacts
        <5> QED BY <1>1, <1>2, <2>1, <3>2, <4>1, <5>1, PutMoves
      <4>2. CASE mode[o] = "drain" BY <1>1, <1>2, <2>1, <3>2, <4>2, DrainMoves
      <4> QED BY <1>1, <4>1, <4>2 DEF Sending
    <3>5. /\ wire'[o] = Tail(wire[o]) /\ wire'[p] = wire[p] /\ mode'[p] = mode[p]
          /\ Sending(o)'
      <4>1. mode'[o] = IF PutOther(o) THEN "drain" ELSE IF Discarded(o) THEN "put" ELSE mode[o]
        BY <1>2, <3>4, PutEffects
      <4>2. Sending(o)' BY <1>1, <4>1 DEF Sending
      <4> QED BY <1>2, <3>4, <4>2, PutEffects
    <3>6. Spent' /\ PrevErrors'[o] = PrevErrors[o] /\ Outgoing(o)' = out
      BY <1>2, <3>1, <3>4, Unmoved DEF out
    <3>7. BothComing(p, o)' BY <3>1, <3>3, <3>4, <3>5, <3>6 DEF BothComing
    <3> QED BY <2>2, <3>1, <3>4, <3>7
  <2>4. ~BothHurt(p, o)
    <3> SUFFICES ASSUME BothHurt(p, o) PROVE FALSE OBVIOUS
    <3>1. mode[o] = "put" /\ wire[o] = <<>> /\ \E j \in Seq({Junk}) : wire[p] = <<Ack>> \o j
      BY DEF BothHurt
    <3>2. wire[p] # <<>>
      <4> DEFINE a == <<Ack>>
      <4>1. a \in Seq(Message) /\ a # <<>> BY <1>5
      <4>2. PICK j \in Seq({Junk}) : wire[p] = a \o j BY <3>1
      <4>3. j \in Seq(Message) BY SeqLarger, KindFacts
      <4> HIDE DEF a
      <4> QED BY <4>1, <4>2, <4>3, TailJoined
    <3> QED BY <1>1, <1>2, <2>1, <3>1, <3>2, PutMoves
  <2>5. ASSUME mode[o] = "put", Spent, wire[o] \in Seq({Rlr}),
               (wire[p] # <<>> \/ mode[p] = "drain") \/ wire[o] # <<>>
        PROVE  /\ PutRlr(o) /\ wire[o] # <<>>
               /\ wire'[o] = Tail(wire[o]) /\ wire'[o] \in Seq({Rlr})
               /\ wire'[p] = wire[p] \o pair
               /\ mode'[p] = mode[p] /\ mode'[o] = "put"
               /\ Spent' /\ PrevErrors'[o] = PrevErrors[o] /\ Outgoing(o)' = out
    <3>1. wire[o] # <<>> BY <1>1, <1>2, <2>1, <2>5, PutMoves
    <3>2. Head(wire[o]) = Rlr /\ Tail(wire[o]) \in Seq({Rlr}) BY <2>5, <3>1, SeqRest
    <3>3. PutRlr(o) BY <1>2, <2>1, <2>5, <3>1, <3>2, KindFacts, PutMoves
    <3>4. ~PutOther(o) /\ ~Discarded(o)
      BY <1>2, <2>5, <3>1, <3>2, KindFacts, ReadFacts DEF PutOther, Discarded
    <3>5. /\ wire'[o] = Tail(wire[o])
          /\ wire'[p] = wire[p] \o <<Byte(LastResponse[o]), Outgoing(o)>>
          /\ mode'[p] = mode[p] /\ mode'[o] = mode[o]
      BY <1>2, <3>3, <3>4, PutEffects
    <3>6. wire'[p] = wire[p] \o pair BY <1>5, <3>5 DEF out
    <3>7. Spent' /\ PrevErrors'[o] = PrevErrors[o] /\ Outgoing(o)' = out
      BY <1>2, <2>5, <3>3, Unmoved DEF out
    <3> QED BY <2>5, <3>1, <3>2, <3>3, <3>5, <3>6, <3>7
  <2>6. CASE BothBuried(p, o)
    <3>1. /\ mode[p] = "put" /\ mode[o] = "put" /\ Spent
          /\ wire[p] # <<>> /\ Head(wire[p]) \in Leftover
          /\ wire[o] \in Seq({Rlr})
      BY <2>6 DEF BothBuried
    <3>2. wire'[p] # <<>> /\ Head(wire'[p]) = Head(wire[p])
      <4>1. wire[p] \in Seq(Message) /\ wire'[p] = wire[p] \o pair BY <1>2, <2>5, <3>1, Wires
      <4> HIDE DEF pair
      <4> QED BY <1>5, <3>1, <4>1, TailJoined
    <3>3. BothBuried(p, o)' BY <2>5, <3>1, <3>2 DEF BothBuried
    <3> QED BY <2>2, <2>5, <3>1, <3>3
  <2>7. CASE BothAsking(p, o)
    <3>1. /\ mode[p] = "put" /\ mode[o] = "put" /\ Spent
          /\ wire[p] = <<>> /\ wire[o] = <<Rlr>>
      BY <2>7 DEF BothAsking
    <3>2. wire[o] \in Seq({Rlr}) /\ wire[o] # <<>> /\ Tail(wire[o]) = <<>>
      BY <3>1, OneMessage
    <3>3. wire'[o] = <<>> /\ wire'[p] = pair
      <4>1. wire'[o] = <<>> /\ wire'[p] = <<>> \o pair BY <2>5, <3>1, <3>2
      <4>2. <<>> \o pair = pair
        <5> HIDE DEF pair
        <5> QED BY <1>5, ConcatEmptySeq
      <4> QED BY <4>1, <4>2
    <3>4. NaksThen(wire'[p], pair)
      <4> HIDE DEF pair
      <4> QED BY <1>5, <3>3, NaksNone
    <3>5. wire'[o] \in Seq(Leftover) BY <3>3
    <3>6. BothComing(p, o)' BY <2>5, <3>1, <3>2, <3>3, <3>4, <3>5 DEF BothComing, Sending
    <3> QED BY <2>2, <2>5, <3>1, <3>2, <3>6
  <2>8. CASE BothDrained(p, o)
    <3>1. mode[p] = "drain" /\ mode[o] = "put" /\ Spent /\ wire[o] \in Seq({Rlr})
      BY <2>8 DEF BothDrained
    <3>2. BothDrained(p, o)' BY <2>5, <3>1 DEF BothDrained
    <3> QED BY <2>2, <2>5, <3>1, <3>2
  <2> QED BY <1>1, <2>3, <2>4, <2>6, <2>7, <2>8
<1> QED BY <1>6, <1>7, <1>8, <1>9, NextSteps

LEMMA HalfSyncStep ==
    ASSUME OneFault, TypeOK, Blamed, NEW p \in Peer, NEW o \in Peer, o # p,
           HalfSync(p, o), Next, ~unheard'
    PROVE  Blamed' /\ FullSync(p, o)'
<1>1. /\ mode[p] = "put" /\ mode[o] = "resync" /\ after[o] = AfterGet(o)
      /\ Unconfirmed(p, o) /\ Settled(o, p) /\ PutLast(p)
      /\ PrevErrors[p] > MAX_ERRORS
      /\ wire[p] = <<Ack>> /\ wire[o] = <<>> /\ Spent /\ Sending(p)
  BY DEF HalfSync, Sending
<1>2. wire[p] # <<>> /\ Head(wire[p]) = Ack /\ Tail(wire[p]) = <<>> BY <1>1, OneMessage
<1>3. ~Fault BY <1>1, FaultEffect
<1>4. ~ReSync /\ ~ReSyncHi /\ ~Steps(o) BY <1>1, <1>2, StepModes DEF ReSync, ReSyncHi
<1>5. BlockSend(p) BY <1>1, <1>3, <1>4, NextSteps, StepModes
<1>6. PutAck(p) BY <1>1, <1>2, <1>5, KindFacts, PutMoves
<1>7. /\ Settled(p, o)' /\ Settled(o, p)' /\ PutLast(p)'
      /\ wire'[p] = <<>> /\ wire'[o] = <<>>
      /\ after'[p] = "get" /\ after'[o] = after[o]
      /\ mode'[o] = mode[o] /\ mode'[p] = "resync"
      /\ Blamed'
  BY <1>1, <1>2, <1>6, AckEffect
<1> QED BY <1>1, <1>7 DEF FullSync

LEMMA FullSyncStep ==
    ASSUME OneFault, TypeOK, Blamed, NEW p \in Peer, NEW o \in Peer, o # p,
           FullSync(p, o), Next, ~unheard'
    PROVE  Blamed' /\ Turn(o, p)'
<1>1. /\ mode[p] = "resync" /\ mode[o] = "resync"
      /\ after[p] = "get" /\ after[o] = AfterGet(o) /\ AfterGet(o) \in {"idle", "busy"}
      /\ Settled(p, o) /\ Settled(o, p) /\ PutLast(p)
      /\ wire[p] = <<>> /\ wire[o] = <<>>
  BY DEF FullSync, AfterGet
<1>2. ~Fault BY <1>1, FaultEffect, WorseNone
<1>3. ~ReSyncHi /\ ~Steps(p) /\ ~Steps(o) BY <1>1, Roles, StepModes DEF ReSyncHi
<1>4. ReSync BY <1>2, <1>3, NextSteps
<1>5. /\ mode' = after /\ wire'[p] = <<>> /\ wire'[o] = <<>>
      /\ UNCHANGED <<SendBlkNo, ReceiveBlkNo, Errors, PrevErrors, want, cur, log, faults>>
  BY <1>4 DEF ReSync, link
<1>6. Settled(p, o)' /\ Settled(o, p)' /\ PutLast(p)' BY <1>1, <1>5 DEF Settled, PutLast
<1>7. \A q \in Peer : Sending(q)' => Sending(q)
  <2>1. \A q \in Peer : q = p \/ q = o BY Roles
  <2> QED BY <1>1, <1>5, <2>1 DEF Sending
<1>8. Blamed' BY <1>5, <1>7, BlamedKept
<1>9. wire'[o] \in Seq(Leftover)
  <2>1. <<>> \in Seq(Leftover) OBVIOUS
  <2> QED BY <1>5, <2>1
<1>10. Turn(o, p)' BY <1>1, <1>5, <1>6, <1>9 DEF Turn
<1> QED BY <1>8, <1>10

LEMMA SingleInit == Init => Single
<1> SUFFICES ASSUME Init PROVE Single OBVIOUS
<1> DEFINE p == "client"
           o == "server"
<1>1. p \in Peer /\ o \in Peer /\ p # o /\ AfterGet(p) = "idle" BY DEF Peer, AfterGet
<1>2. /\ mode[p] = "idle" /\ mode[o] = "get" /\ wire[p] = <<>> /\ wire[o] = <<>>
      /\ cur[p] = 0 /\ cur[o] = 0 /\ log[p] = <<>> /\ log[o] = <<>>
      /\ SendBlkNo[p] = 1 /\ SendBlkNo[o] = 1 /\ ReceiveBlkNo[p] = 1 /\ ReceiveBlkNo[o] = 1
  BY <1>1 DEF Init
<1>3. Settled(p, o) /\ Settled(o, p) /\ PutLast(o)
  BY <1>1, <1>2, LastFacts DEF Settled, PutLast
<1>4. wire[p] \in Seq(Leftover)
  <2>1. <<>> \in Seq(Leftover) OBVIOUS
  <2> QED BY <1>2, <2>1
<1>5. Turn(p, o) BY <1>1, <1>2, <1>3, <1>4 DEF Turn
<1>6. Blamed
  <2> SUFFICES ASSUME NEW q \in Peer PROVE ~(Errors[q] > MAX_ERRORS) /\ ~Sending(q)
    BY DEF Blamed
  <2>1. Errors[q] = 0 BY DEF Init
  <2>2. ~Sending(q) BY DEF Init, Sending
  <2> QED BY <2>1, <2>2, BoundAssumption
<1> QED BY <1>1, <1>5, <1>6 DEF Single, Stage

LEMMA SingleNext ==
    ASSUME OneFault, IInv, IInv', Single, [Next]_vars, ~unheard'
    PROVE  Single'
<1>1. TypeOK /\ TypeOK' BY DEF IInv
<1>2. CASE Next
  <2>1. PICK p \in Peer, o \in Peer : p # o /\ Stage(p, o) BY DEF Single
  <2>2. Blamed BY DEF Single
  <2>3. Blamed' /\ (Stage(p, o)' \/ Stage(o, p)')
    <3>1. CASE Turn(p, o) BY <1>1, <1>2, <2>1, <2>2, <3>1, TurnStep DEF Stage
    <3>2. CASE Coming(p, o) BY <1>1, <1>2, <2>1, <2>2, <3>2, ComingStep DEF Stage
    <3>3. CASE Repair(p, o) BY <1>1, <1>2, <2>1, <2>2, <3>3, RepairStep DEF Stage
    <3>4. CASE Taken(p, o) BY <1>1, <1>2, <2>1, <2>2, <3>4, TakenStep DEF Stage
    <3>5. CASE Crossed(p, o) BY <1>2, <2>1, <2>2, <3>5, CrossedStep DEF Stage
    <3>6. CASE HalfSync(p, o) BY <1>1, <1>2, <2>1, <2>2, <3>6, HalfSyncStep DEF Stage
    <3>7. CASE FullSync(p, o) BY <1>1, <1>2, <2>1, <2>2, <3>7, FullSyncStep DEF Stage
    <3> QED BY <2>1, <3>1, <3>2, <3>3, <3>4, <3>5, <3>6, <3>7 DEF Stage
  <2> QED BY <2>1, <2>3 DEF Single
<1>3. CASE UNCHANGED vars
  <2>1. UNCHANGED <<mode, wire, SendBlkNo, ReceiveBlkNo, LastResponse, Errors, PrevErrors,
                    tries, after, want, cur, log, faults>>
    BY <1>3 DEF vars, link
  <2>2. PICK p \in Peer, o \in Peer : p # o /\ Stage(p, o) BY DEF Single
  <2>3. /\ Settled(p, o)' = Settled(p, o) /\ Settled(o, p)' = Settled(o, p)
        /\ Pending(p, o)' = Pending(p, o) /\ Pending(o, p)' = Pending(o, p)
        /\ Unconfirmed(p, o)' = Unconfirmed(p, o)
        /\ PutLast(p)' = PutLast(p) /\ PutLast(o)' = PutLast(o)
        /\ Outgoing(p)' = Outgoing(p) /\ Outgoing(o)' = Outgoing(o)
        /\ Spent' = Spent
    BY <2>1 DEF Settled, Pending, Unconfirmed, PutLast, Outgoing, NewBlock, Spent
  <2>4. Blamed' BY <2>1 DEF Single, Blamed, Sending, Spent
  <2>5. Turn(p, o)' = Turn(p, o) BY <2>1, <2>3 DEF Turn
  <2>6. Coming(p, o)' = Coming(p, o) BY <2>1, <2>3 DEF Coming
  <2>7. Repair(p, o)' = Repair(p, o) BY <2>1, <2>3 DEF Repair
  <2>8. Taken(p, o)' = Taken(p, o)
    BY <2>1, <2>3 DEF Taken, AckComes, AckBuried, AckLost, AckDrained
  <2>9. Crossed(p, o)' = Crossed(p, o)
    BY <2>1, <2>3 DEF Crossed, BothComing, BothHurt, BothBuried, BothAsking, BothDrained,
                      Sending
  <2>10. HalfSync(p, o)' = HalfSync(p, o) BY <2>1, <2>3 DEF HalfSync
  <2>11. FullSync(p, o)' = FullSync(p, o) BY <2>1, <2>3 DEF FullSync
  <2> QED BY <2>2, <2>4, <2>5, <2>6, <2>7, <2>8, <2>9, <2>10, <2>11 DEF Single, Stage
<1> QED BY <1>2, <1>3

-----------------------------------------------------------------------------
(* The steps of the reliable channel.                                      *)

LEMMA PutsAfterTaken ==
    ASSUME Single, NEW q \in Peer, NEW r \in Peer, r # q, mode[q] = AfterGet(q)
    PROVE  cur[q] = Last(log[r])
<1>1. PICK p \in Peer, o \in Peer : p # o /\ Stage(p, o) BY DEF Single
<1>2. (q = p /\ r = o) \/ (q = o /\ r = p) BY <1>1, Roles
<1>3. AfterGet(q) \in {"idle", "busy"} BY DEF AfterGet
<1>4. (Turn(p, o) /\ q = p) \/ (Taken(p, o) /\ q = o)
  BY <1>1, <1>2, <1>3 DEF Stage, Turn, Coming, Repair, Taken, Crossed, HalfSync, FullSync,
     AckComes, AckBuried, AckLost, AckDrained, BothComing, BothHurt, BothBuried, BothAsking,
     BothDrained, Sending
<1> QED BY <1>1, <1>2, <1>4 DEF Turn, Taken, Settled

LEMMA AcksTaken ==
    ASSUME OneFault, TypeOK, Single, NEW q \in Peer, NEW r \in Peer, r # q, PutAck(q)
    PROVE  cur[q] = Last(log[r])
<1>1. PICK p \in Peer, o \in Peer : p # o /\ Stage(p, o) BY DEF Single
<1>2. (q = p /\ r = o) \/ (q = o /\ r = p) BY <1>1, Roles
<1>3. mode[q] = "put" /\ wire[q] # <<>> /\ Head(wire[q]) = Ack
  <2>1. mode[q] = "put" /\ wire[q] # <<>> /\ "ACK" \in Reads(Head(wire[q])) BY DEF PutAck
  <2> QED BY <2>1, Wires, ReadFacts
<1>4. /\ wire[q] \notin Seq(Leftover) /\ wire[q] \notin Seq({Nak}) /\ wire[q] \notin Seq({Rlr})
  BY <1>3, SeqRest, KindFacts
<1>5. AfterGet(q) \in {"idle", "busy"} BY DEF AfterGet
<1>6. ~Turn(p, o) /\ ~FullSync(p, o) BY <1>2, <1>3, <1>5 DEF Turn, FullSync
<1>7. ~Coming(p, o) BY <1>2, <1>3, <1>4 DEF Coming
<1>8. ~Repair(p, o) BY <1>2, <1>3, <1>4 DEF Repair
<1>9. CASE Taken(p, o) \/ HalfSync(p, o)
  <2>1. q = p /\ Unconfirmed(p, o) BY <1>2, <1>3, <1>5, <1>9 DEF Taken, HalfSync
  <2> QED BY <1>1, <1>2, <2>1 DEF Unconfirmed
<1>10. CASE Crossed(p, o)
  <2>1. q = p
    <3>1. wire[o] = <<>> \/ wire[o] \in Seq(Leftover) \/ wire[o] \in Seq({Rlr})
          \/ (wire[o] = <<Rlr>>)
      BY <1>10 DEF Crossed, BothComing, BothHurt, BothBuried, BothAsking, BothDrained
    <3>2. wire[o] = <<Rlr>> => Head(wire[o]) # Ack BY KindFacts, OneMessage
    <3> QED BY <1>2, <1>3, <1>4, <3>1, <3>2
  <2> QED BY <1>1, <1>2, <1>10, <2>1 DEF Crossed, Unconfirmed
<1> QED BY <1>1, <1>6, <1>7, <1>8, <1>9, <1>10 DEF Stage

LEMMA TakesCurrent ==
    ASSUME Single, NEW q \in Peer, NEW r \in Peer, r # q, GetBlock(q)
    PROVE  Head(wire[q]).blk.id = cur[r] /\ Head(wire[q]).blk.err = PrevErrors[r]
<1>1. PICK p \in Peer, o \in Peer : p # o /\ Stage(p, o) BY DEF Single
<1>2. (q = p /\ r = o) \/ (q = o /\ r = p) BY <1>1, Roles
<1>3. mode[q] = "get" /\ wire[q] # <<>> /\ Head(wire[q]).kind = "BLK" BY DEF GetBlock
<1>4. AfterGet(q) \in {"idle", "busy"} BY DEF AfterGet
<1>5. q = o /\ (Turn(p, o) \/ Coming(p, o) \/ Repair(p, o))
  BY <1>1, <1>2, <1>3, <1>4 DEF Stage, Turn, Coming, Repair, Taken, Crossed, HalfSync,
     FullSync, AckComes, AckBuried, AckLost, AckDrained, BothComing, BothHurt, BothBuried,
     BothAsking, BothDrained, Sending
<1>6. ~Turn(p, o) BY <1>3, <1>5 DEF Turn
<1>7. Head(wire[q]) = Outgoing(p)
  <2>1. CASE Coming(p, o) BY <1>5, <2>1, OneMessage DEF Coming
  <2>2. CASE Repair(p, o)
    <3>1. wire[q] \in Seq({Junk, Outgoing(p)}) \/ wire[q] = <<Rlr>> BY <1>5, <2>2 DEF Repair
    <3>2. wire[q] # <<Rlr>> BY <1>3, KindFacts, OneMessage
    <3>3. Head(wire[q]) \in {Junk, Outgoing(p)} BY <1>3, <3>1, <3>2, SeqRest
    <3> QED BY <1>3, <3>3, KindFacts
  <2> QED BY <1>5, <1>6, <2>1, <2>2
<1> QED BY <1>2, <1>5, <1>7, OutgoingBlock

LEMMA ReliablePut ==
    ASSUME IInv, Single, NEW p \in Peer, NEW id \in 1..MaxPut, cur[p] < id,
           mode[p] = AfterGet(p), NEW wanted, RemotePut(p, id, wanted)
    PROVE  Channel!ReliableNext
<1>1. Channel!Put(p, id) BY ChannelPuts
<1>2. Other(p) \in Peer /\ Other(p) # p BY PeerFacts
<1>3. cur[p] = Channel!Last(log[Channel!Other(p)])
  BY <1>2, PutsAfterTaken DEF Channel!Last, Last, Channel!Other, Other
<1>4. Channel!Sound(p) BY <1>1, <1>3 DEF Channel!Sound
<1> QED BY <1>4 DEF Channel!ReliableNext, Channel!Peer, Peer

LEMMA ReliableStep ==
    OneFault /\ IInv /\ Single /\ [Next]_vars => [Channel!ReliableNext]_(Channel!vars)
<1> SUFFICES ASSUME OneFault, IInv, Single, [Next]_vars
             PROVE  Channel!ReliableNext \/ UNCHANGED Channel!vars
  OBVIOUS
<1>0. TypeOK BY DEF IInv
<1>1. CASE Request
  <2>1. PICK wanted \in BOOLEAN : RemotePut("client", cur["client"] + 1, wanted)
    BY <1>1 DEF Request
  <2>2. cur["client"] < MaxPut /\ cur["client"] \in Nat /\ mode["client"] = AfterGet("client")
    BY <1>1, DirectionTypes DEF Request, Peer, AfterGet
  <2>3. cur["client"] + 1 \in 1..MaxPut /\ cur["client"] < cur["client"] + 1
    BY <2>2, BoundAssumption
  <2> QED BY <2>1, <2>2, <2>3, ReliablePut DEF Peer
<1>2. CASE Reply
  <2>1. RemotePut("server", Last(log["server"]), TRUE) /\ mode["server"] = "busy"
    BY <1>2 DEF Reply
  <2>2. cur["server"] < Last(log["server"]) BY <2>1 DEF IInv, Answering, Serving
  <2>3. cur["server"] \in Nat /\ Last(log["server"]) \in 0..MaxPut
    BY DirectionTypes DEF Peer
  <2>4. Last(log["server"]) \in 1..MaxPut BY <2>2, <2>3, BoundAssumption
  <2>5. mode["server"] = AfterGet("server") BY <2>1 DEF AfterGet
  <2> QED BY <2>1, <2>2, <2>4, <2>5, ReliablePut DEF Peer
<1>3. ASSUME NEW p \in Peer, PutAck(p) PROVE Channel!ReliableNext
  <2>1. Channel!Confirm(p) BY <1>3 DEF Channel!Confirm, PutAck
  <2>2. Other(p) \in Peer /\ Other(p) # p BY PeerFacts
  <2>3. cur[p] = Channel!Last(log[Channel!Other(p)])
    BY <1>0, <1>3, <2>2, AcksTaken DEF Channel!Last, Last, Channel!Other, Other
  <2>4. Channel!Sound(p) BY <2>1, <2>3 DEF Channel!Sound
  <2> QED BY <2>4 DEF Channel!ReliableNext, Channel!Peer, Peer
<1>4. ASSUME NEW p \in Peer, GetBlock(p) PROVE Channel!ReliableNext
  <2> DEFINE b == Head(wire[p]).blk
             r == Other(p)
             due == [q \in Peer |-> PrevErrors[q] > MAX_ERRORS]
  <2>1. b \in Block /\ Channel!Take(p, b.id, b.err > MAX_ERRORS) BY <1>4, ChannelTakes
  <2>2. r \in Peer /\ r # p /\ r = Channel!Other(p) BY PeerFacts DEF Channel!Other, Other
  <2>3. b.id = cur[r] /\ b.err = PrevErrors[r] BY <1>4, <2>2, TakesCurrent
  <2>4. b.id \in 1..MaxPut BY <2>1 DEF Block
  <2>5. due[r] = (b.err > MAX_ERRORS) BY <2>2, <2>3
  <2> HIDE DEF b, r, due
  <2>6. Channel!Take(p, cur[r], due[r]) BY <2>1, <2>3, <2>5
  <2>7. cur[r] \in 1..MaxPut BY <2>3, <2>4
  <2>8. Channel!Sound(p) BY <2>2, <2>6, <2>7 DEF Channel!Sound, due
  <2> QED BY <2>8 DEF Channel!ReliableNext, Channel!Peer, Peer
<1>5. CASE Next /\ ~Request /\ ~Reply /\ \A p \in Peer : ~PutAck(p) /\ ~GetBlock(p)
  BY <1>5, <1>0, ChannelRests DEF Channel!ReliableNext
<1>6. CASE UNCHANGED vars
  <2>1. UNCHANGED <<cur, PrevErrors, log, emptied, acked, unheard>> BY <1>6 DEF vars, link
  <2> QED BY <2>1, DueSame
<1> QED BY <1>1, <1>2, <1>3, <1>4, <1>5, <1>6

\* A channel on which a side has given up is a lossy one.
LEMMA UnheardStep ==
    IInv /\ unheard /\ [Next]_vars => [Channel!ReliableNext]_(Channel!vars)
BY ChannelNext DEF Channel!ReliableNext

\* RemotePut and RemoteGet implement the reliable channel: no side puts a block before
\* the one it put last was taken, what is taken is the block put last, RemotePut holds a
\* block for delivered only if it was taken, and RemoteGet empties it only if RemotePut
\* resynchronises as well.  So it is as long as no side has given up a put while the
\* other one was outside of the link, where between two rests of the line at most one
\* message is lost or damaged, damage is not taken for a control byte, no wait is too
\* short, each request is answered, and the block numbers have room in the header or
\* come round with it.
THEOREM Reliable == OneFault => (Spec => ReliableChannel)
<1> SUFFICES ASSUME OneFault PROVE Spec => ReliableChannel OBVIOUS
<1>1. Init => unheard \/ Single BY SingleInit
<1>2. IInv /\ IInv' /\ (unheard \/ Single) /\ [Next]_vars => (unheard \/ Single)'
  BY SingleNext, UnheardStays
<1>3. IInv /\ (unheard \/ Single) /\ [Next]_vars => [Channel!ReliableNext]_(Channel!vars)
  BY ReliableStep, UnheardStep
<1>4. Spec => [][Channel!ReliableNext]_(Channel!vars)
  BY <1>1, <1>2, <1>3, Invariance, PTL DEF Spec
<1>5. Spec => Channel!Init BY ChannelInit DEF Spec
<1> QED BY <1>4, <1>5 DEF ReliableChannel, Channel!ReliableSpec
=============================================================================
