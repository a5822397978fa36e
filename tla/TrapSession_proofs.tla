------------------------ MODULE TrapSession_proofs ---------------------------
(***************************************************************************)
(* Proofs about TrapSession, for any number of debuggers, links, requests  *)
(* and connections that wait.                                              *)
(***************************************************************************)
EXTENDS TrapSession, FiniteSetTheorems, TLAPS

Waits(l) == \E i \in DOMAIN backlog : backlog[i] = l
Held(l) == l = data_socket \/ Waits(l)
Has(c, n, req) == wire[<<c, n>>] # <<>> /\ wire[<<c, n>>][1].req = req
Ends(c, n) == wire[<<c, n>>] # <<>> /\ wire[<<c, n>>][Len(wire[<<c, n>>])].req = "suspend"

Number == 1..Links

\* Where the server is, how deep, and which clients have linked: whatever was executed.
Places ==
    /\ pc \in {"get", "stuck"} <=> data_socket # None
    /\ pc \in {"get", "stuck", "accept"} => depth > 0
    /\ \A c \in Client : st[c] = "away" <=> link[c] = 0

\* Links that are not there yet.
Unused ==
    \A c \in Client :
        /\ link[c] = 0 => c \notin suspended
        /\ \A n \in Number : n > link[c] =>
              wire[<<c, n>>] = <<>> /\ reply[<<c, n>>] = <<>> /\ ~Held(<<c, n>>)

\* A reset takes what was under way with it.
Resets ==
    \A c \in Client, n \in Number : end[<<c, n>>] = "reset" =>
        wire[<<c, n>>] = <<>> /\ st[c] = "gone" /\ n = link[c]

\* Links are accepted in the order in which their clients made them, none is left out.
Ordered ==
    /\ \A i, j \in DOMAIN backlog :
          i < j /\ backlog[i][1] = backlog[j][1] => backlog[i][2] < backlog[j][2]
    /\ \A c \in Client, k, n \in Number : data_socket = <<c, k>> /\ Waits(<<c, n>>) => k < n
    /\ \A c \in Client, n, m \in Number :
          Held(<<c, n>>) /\ n < m /\ m <= link[c] => Waits(<<c, m>>)

\* A request that ends a link, or that is answered, is the last on it.
Content(c, n, i) ==
    LET m == wire[<<c, n>>][i]
        last == i = Len(wire[<<c, n>>])
    IN  /\ m.req = "suspend" => last /\ (n < link[c] \/ st[c] \in {"suspended", "gone"})
        /\ m.req = "disconnect" => last /\ n = link[c] /\ st[c] = "gone"
        /\ m.req = "resume" => i = 1
        /\ m.req \in {"connect", "old"} => st[c] \in {"linking", "gone"}
        /\ m.req \in {"connect", "old", "ask"} =>
              /\ last /\ n = link[c] /\ m.no = sent[c]
              /\ st[c] \in {"linking", "asking", "gone"} /\ reply[<<c, n>>] = <<>>

Contents ==
    \A c \in Client, n \in Number : \A i \in DOMAIN wire[<<c, n>>] : Content(c, n, i)

\* A link begins with a resume unless it is the first ...
Starts ==
    \A c \in Client, n \in Number : Waits(<<c, n>>) /\ end[<<c, n>>] # "reset" =>
        wire[<<c, n>>] # <<>> /\ (Has(c, n, "resume") <=> n > 1)

\* ... and ends with a suspend unless it is the last.
Suspending ==
    \A c \in Client, n \in Number : Held(<<c, n>>) /\ n < link[c] => Ends(c, n)

\* The client that is served is suspended until its resume has been executed.
Serving ==
    \A c \in Client, n \in Number : data_socket = <<c, n>> /\ end[<<c, n>>] # "reset" =>
        (c \in suspended <=> Has(c, n, "resume"))

\* The link to be accepted next is that of a suspended client, or the first.
Expected ==
    \A c \in Client, n \in Number : Waits(<<c, n>>) =>
        /\ n = 1 => c \notin suspended
        /\ n > 1 /\ ~Held(<<c, n - 1>>) /\ (\A k \in Number : data_socket # <<c, k>>)
              => c \in suspended

ClientKept(c) ==
    /\ st[c] \in {"in", "asking"} => Held(Current(c))
    /\ st[c] = "linking" =>
          \A i \in DOMAIN reply[Current(c)] : reply[Current(c)][i].ok => Held(Current(c))
    /\ st[c] = "suspended" =>
          IF Held(Current(c)) THEN Ends(c, link[c]) ELSE c \in suspended

Clients == \A c \in Client : ClientKept(c)

\* Requests are numbered in the order in which they will be executed.
Last(c, n) == wire[<<c, n>>][Len(wire[<<c, n>>])].no
Alone(c, n) == n = 1 \/ ~Held(<<c, n - 1>>)

Consecutive ==
    \A c \in Client, n \in Number : \A i, j \in DOMAIN wire[<<c, n>>] :
        j = i + 1 => wire[<<c, n>>][j].no = wire[<<c, n>>][i].no + 1

NextServed ==
    \A c \in Client, n \in Number : data_socket = <<c, n>> /\ wire[<<c, n>>] # <<>> =>
        wire[<<c, n>>][1].no = done[c] + 1

NextAccepted ==
    \A c \in Client, n \in Number : Waits(<<c, n>>) /\ end[<<c, n>>] # "reset" =>
        /\ Alone(c, n) => wire[<<c, n>>][1].no = done[c] + 1
        /\ ~Alone(c, n) => wire[<<c, n>>][1].no = Last(c, n - 1) + 1

LastSent ==
    \A c \in Client : st[c] # "away" /\ Held(Current(c)) /\ end[Current(c)] # "reset" =>
        /\ wire[Current(c)] = <<>> => sent[c] = done[c]
        /\ wire[Current(c)] # <<>> => sent[c] = Last(c, link[c])

AllDone ==
    \A c \in Client :
        st[c] = "away" \/ (st[c] = "suspended" /\ ~Held(Current(c))) => sent[c] = done[c]

Numbered == Consecutive /\ NextServed /\ NextAccepted /\ LastSent /\ AllDone

Clean ==
    /\ Unused /\ Resets /\ Ordered /\ Contents /\ Starts /\ Suspending
    /\ Serving /\ Expected /\ Clients /\ Numbered
    /\ DepthIsSuspended /\ AnswersMatch

IInv == TypeOK /\ Places /\ (again \/ Clean)

-----------------------------------------------------------------------------
Message == [req : Request, no : Nat]
Answer == [no : Nat, ok : BOOLEAN]

LEMMA SeqShape ==
    ASSUME NEW S, NEW s \in Seq(S)
    PROVE  /\ Len(s) \in Nat /\ DOMAIN s = 1..Len(s)
           /\ s = <<>> <=> Len(s) = 0
           /\ \A i \in 1..Len(s) : s[i] \in S
OBVIOUS

LEMMA AppendShape ==
    ASSUME NEW S, NEW s \in Seq(S), NEW e \in S
    PROVE  /\ Append(s, e) \in Seq(S) /\ Append(s, e) # <<>>
           /\ Len(Append(s, e)) = Len(s) + 1
           /\ DOMAIN Append(s, e) = 1..(Len(s) + 1)
           /\ \A i \in 1..Len(s) : Append(s, e)[i] = s[i]
           /\ Append(s, e)[Len(s) + 1] = e
OBVIOUS

LEMMA TailShape ==
    ASSUME NEW S, NEW s \in Seq(S), s # <<>>
    PROVE  /\ Tail(s) \in Seq(S) /\ Head(s) = s[1] /\ s[1] \in S
           /\ Len(Tail(s)) = Len(s) - 1 /\ Len(s) > 0
           /\ DOMAIN Tail(s) = 1..(Len(s) - 1)
           /\ \A i \in 1..(Len(s) - 1) : Tail(s)[i] = s[i + 1]
OBVIOUS

LEMMA Shapes ==
    ASSUME TypeOK
    PROVE  /\ \A l \in Link :
                 /\ wire[l] \in Seq(Message) /\ reply[l] \in Seq(Answer)
                 /\ Len(wire[l]) \in Nat /\ DOMAIN wire[l] = 1..Len(wire[l])
                 /\ wire[l] = <<>> <=> Len(wire[l]) = 0
                 /\ \A i \in 1..Len(wire[l]) :
                       /\ wire[l][i] \in Message
                       /\ wire[l][i].req \in Request /\ wire[l][i].no \in Nat
                 /\ Len(reply[l]) \in Nat /\ DOMAIN reply[l] = 1..Len(reply[l])
                 /\ reply[l] = <<>> <=> Len(reply[l]) = 0
           /\ Len(backlog) \in Nat /\ DOMAIN backlog = 1..Len(backlog)
           /\ \A i \in 1..Len(backlog) : backlog[i] \in Link
           /\ \A c \in Client : link[c] \in Nat /\ link[c] <= Links /\ sent[c] \in Nat /\ done[c] \in Nat
           /\ Links \in Nat
<1> USE SessionAssumption
<1>1. ASSUME NEW l \in Link
      PROVE  /\ wire[l] \in Seq(Message) /\ reply[l] \in Seq(Answer)
             /\ Len(wire[l]) \in Nat /\ DOMAIN wire[l] = 1..Len(wire[l])
             /\ wire[l] = <<>> <=> Len(wire[l]) = 0
             /\ \A i \in 1..Len(wire[l]) : wire[l][i] \in Message
             /\ Len(reply[l]) \in Nat /\ DOMAIN reply[l] = 1..Len(reply[l])
             /\ reply[l] = <<>> <=> Len(reply[l]) = 0
  <2>1. wire[l] \in Seq(Message) /\ reply[l] \in Seq(Answer)
    BY DEF TypeOK, Message, Answer
  <2> QED BY <2>1, SeqShape
<1>2. Len(backlog) \in Nat /\ DOMAIN backlog = 1..Len(backlog)
      /\ \A i \in 1..Len(backlog) : backlog[i] \in Link
  BY SeqShape DEF TypeOK
<1>3. ASSUME NEW m \in Message PROVE m.req \in Request /\ m.no \in Nat
  BY DEF Message
<1>4. \A c \in Client : link[c] \in Nat /\ link[c] <= Links /\ sent[c] \in Nat /\ done[c] \in Nat
  BY DEF TypeOK
<1> QED BY <1>1, <1>2, <1>3, <1>4

LEMMA LinkPair ==
    /\ \A c \in Client, n \in Number : <<c, n>> \in Link
    /\ \A l \in Link : l[1] \in Client /\ l[2] \in Number /\ l = <<l[1], l[2]>>
    /\ None \notin Link
BY SessionAssumption DEF Link, Number

-----------------------------------------------------------------------------
LEMMA InitInv == Init => IInv
<1> SUFFICES ASSUME Init PROVE IInv
  OBVIOUS
<1> USE SessionAssumption
<1>1. TypeOK
  <2>1. Links \in Nat /\ 0 \in 0..Links /\ 0 \in 0..Asks
    OBVIOUS
  <2>2. <<>> \in Seq(Link) /\ <<>> \in Seq([req : Request, no : Nat])
        /\ <<>> \in Seq([no : Nat, ok : BOOLEAN])
    OBVIOUS
  <2>3. /\ st \in [Client -> {"away"}] /\ link \in [Client -> {0}] /\ asks \in [Client -> {0}]
        /\ sent \in [Client -> {0}] /\ done \in [Client -> {0}]
        /\ wire \in [Link -> {<<>>}] /\ end \in [Link -> {"none"}] /\ reply \in [Link -> {<<>>}]
    BY DEF Init
  <2>4. "old" \in Request
    BY DEF Request
  <2> QED BY <2>1, <2>2, <2>3, <2>4 DEF Init, TypeOK
<1>2. Places
  BY DEF Init, Places
<1>3. \A l \in Link : wire[l] = <<>> /\ reply[l] = <<>> /\ end[l] = "none" /\ ~Held(l)
  BY LinkPair DEF Init, Held, Waits
<1>4. \A c \in Client, n \in Number : <<c, n>> \in Link
  BY LinkPair
<1>5. DepthIsSuspended
  BY FS_EmptySet DEF DepthIsSuspended, Init
<1>6. AnswersMatch
  BY <1>3, <1>4 DEF AnswersMatch, Number
<1>7. Unused /\ Resets /\ Ordered /\ Contents /\ Starts /\ Suspending /\ Serving /\ Expected
  BY <1>3, <1>4 DEF Unused, Resets, Ordered, Contents, Starts, Suspending, Serving, Expected,
     Held, Waits, Init
<1>8. Clients
  BY DEF Clients, ClientKept, Init
<1>9. Numbered
  <2>1. \A c \in Client : st[c] = "away" /\ sent[c] = done[c]
    BY DEF Init
  <2>2. Consecutive /\ NextServed /\ NextAccepted
    BY <1>3, <1>4 DEF Consecutive, NextServed, NextAccepted, Held
  <2>3. LastSent /\ AllDone
    BY <2>1 DEF LastSent, AllDone
  <2> QED BY <2>2, <2>3 DEF Numbered
<1> QED BY <1>1, <1>2, <1>5, <1>6, <1>7, <1>8, <1>9 DEF IInv, Clean

-----------------------------------------------------------------------------
(* Types, and the places of the server *)

LEMMA SendTypes ==
    ASSUME TypeOK, NEW c \in Client, NEW l \in Link, NEW req \in Request,
           NEW after \in {"open", "closed"}, Send(c, l, req, after)
    PROVE  /\ wire' \in [Link -> Seq([req : Request, no : Nat])]
           /\ sent' \in [Client -> Nat]
           /\ end' \in [Link -> {"none", "open", "closed", "reset"}]
<1>1. [req |-> req, no |-> sent[c] + 1] \in Message
  BY DEF TypeOK, Message
<1>2. wire \in [Link -> Seq(Message)]
  BY DEF TypeOK, Message
<1>3. Append(wire[l], [req |-> req, no |-> sent[c] + 1]) \in Seq(Message)
  BY <1>1, <1>2, AppendShape
<1>4. wire' \in [Link -> Seq(Message)]
  BY <1>2, <1>3 DEF Send
<1>5. sent[c] + 1 \in Nat
  BY DEF TypeOK
<1>6. sent' \in [Client -> Nat]
  BY <1>5 DEF Send, TypeOK
<1>7. end' \in [Link -> {"none", "open", "closed", "reset"}]
  BY DEF Send, TypeOK
<1> QED BY <1>4, <1>6, <1>7 DEF Message

LEMMA DialTypes ==
    ASSUME TypeOK, NEW c \in Client, NEW req \in Request, Dial(c, req)
    PROVE  /\ <<c, link[c] + 1>> \in Link
           /\ link' \in [Client -> 0..Links] /\ backlog' \in Seq(Link)
           /\ wire' \in [Link -> Seq([req : Request, no : Nat])]
           /\ sent' \in [Client -> Nat]
           /\ end' \in [Link -> {"none", "open", "closed", "reset"}]
<1> USE SessionAssumption
<1>1. link[c] + 1 \in 1..Links /\ link[c] + 1 \in 0..Links
  BY DEF TypeOK, Dial
<1>2. <<c, link[c] + 1>> \in Link
  BY <1>1 DEF Link
<1>3. Append(backlog, <<c, link[c] + 1>>) \in Seq(Link)
  BY <1>2 DEF TypeOK
<1> QED BY <1>1, <1>2, <1>3, SendTypes DEF Dial, TypeOK

LEMMA ReturnTypes ==
    ASSUME TypeOK, Places, pc = "get", NEW result \in BOOLEAN, Return(result)
    PROVE  /\ pc' \in {"main", "get", "accept", "exited"} /\ depth' \in Nat
           /\ data_socket' \in Link \cup {None}
           /\ pc' = "get" <=> data_socket' # None
           /\ pc' \in {"get", "accept"} => depth' > 0
BY DEF TypeOK, Places, Return

LEMMA ExecuteTypes ==
    ASSUME TypeOK, Places, pc = "get", NEW req \in Request, NEW no \in Nat, Execute(req, no)
    PROVE  /\ pc' \in {"main", "get", "accept", "exited"} /\ depth' \in Nat
           /\ data_socket' \in Link \cup {None}
           /\ reply' \in [Link -> Seq([no : Nat, ok : BOOLEAN])]
           /\ pc' = "get" <=> data_socket' # None
           /\ pc' \in {"get", "accept"} => depth' > 0
<1>1. /\ pc' \in {"main", "get", "accept", "exited"} /\ depth' \in Nat
      /\ data_socket' \in Link \cup {None}
      /\ pc' = "get" <=> data_socket' # None
      /\ pc' \in {"get", "accept"} => depth' > 0
  <2>1. CASE req \in {"old", "disconnect"}
    BY <2>1, ReturnTypes DEF Execute
  <2>2. CASE req = "suspend"
    BY <2>2 DEF Execute, WaitForResume, TypeOK, Places
  <2>3. CASE req = "resume"
    BY <2>3, ReturnTypes DEF Execute
  <2>4. CASE req \in {"connect", "ask", "tell"}
    BY <2>4 DEF Execute, Stay, TypeOK, Places
  <2> QED BY <2>1, <2>2, <2>3, <2>4 DEF Request
<1>2. data_socket \in Link
  BY DEF Places, TypeOK
<1>3. Append(reply[data_socket], [no |-> no, ok |-> req # "old"]) \in Seq([no : Nat, ok : BOOLEAN])
  <2>1. reply[data_socket] \in Seq([no : Nat, ok : BOOLEAN])
    BY <1>2 DEF TypeOK
  <2>2. [no |-> no, ok |-> req # "old"] \in [no : Nat, ok : BOOLEAN]
    OBVIOUS
  <2> QED BY <2>1, <2>2
<1>4. reply' \in [Link -> Seq([no : Nat, ok : BOOLEAN])]
  BY <1>3 DEF Execute, TypeOK
<1> QED BY <1>1, <1>4

LEMMA CurrentLink == ASSUME TypeOK, Places, NEW c \in Client, st[c] # "away" PROVE Current(c) \in Link
BY SessionAssumption DEF TypeOK, Places, Current, Link

LEMMA TypeStep == TypeOK /\ Places /\ [Next]_vars => TypeOK' /\ Places'
<1> SUFFICES ASSUME TypeOK, Places, [Next]_vars PROVE TypeOK' /\ Places'
  OBVIOUS
<1> USE SessionAssumption DEF client, network, server, history
<1>0. None \notin Link
  BY DEF Link
<1>1. ASSUME NEW c \in Client, Connect(c) PROVE TypeOK' /\ Places'
  <2>1. PICK req \in {"connect", "old"} : Dial(c, req)
    BY <1>1 DEF Connect
  <2>2. /\ link' \in [Client -> 0..Links] /\ backlog' \in Seq(Link)
        /\ wire' \in [Link -> Seq([req : Request, no : Nat])]
        /\ sent' \in [Client -> Nat]
        /\ end' \in [Link -> {"none", "open", "closed", "reset"}]
    BY <2>1, DialTypes DEF Request
  <2>3. link' = [link EXCEPT ![c] = @ + 1] /\ link[c] \in Nat
    BY <2>1 DEF Dial, TypeOK
  <2>4. TypeOK'
    BY <1>1, <2>2 DEF Connect, Goes, TypeOK
  <2>5. Places'
    BY <1>1, <2>3 DEF Connect, Goes, TypeOK, Places
  <2> QED BY <2>4, <2>5
<1>2. ASSUME NEW c \in Client, Ask(c) PROVE TypeOK' /\ Places'
  <2>1. Current(c) \in Link
    BY <1>2, CurrentLink DEF Ask
  <2>3. asks[c] + 1 \in 0..Asks /\ asks \in [Client -> 0..Asks]
    BY <1>2 DEF Ask, TypeOK
  <2>4. asks' \in [Client -> 0..Asks]
    BY <1>2, <2>3 DEF Ask
  <2>2. /\ wire' \in [Link -> Seq([req : Request, no : Nat])]
        /\ sent' \in [Client -> Nat]
        /\ end' \in [Link -> {"none", "open", "closed", "reset"}]
    BY <1>2, <2>1, SendTypes DEF Ask, Request
  <2> QED BY <1>2, <2>2, <2>4 DEF Ask, Goes, TypeOK, Places
<1>3. ASSUME NEW c \in Client, Answered(c) PROVE TypeOK' /\ Places'
  <2>1. Current(c) \in Link
    BY <1>3, CurrentLink DEF Answered
  <2>2. Tail(reply[Current(c)]) \in Seq([no : Nat, ok : BOOLEAN])
    BY <1>3, <2>1, TailShape DEF Answered, TypeOK
  <2>3. reply' \in [Link -> Seq([no : Nat, ok : BOOLEAN])]
    BY <1>3, <2>2 DEF Answered, TypeOK
  <2>4. end' \in [Link -> {"none", "open", "closed", "reset"}]
    BY <1>3 DEF Answered, TypeOK
  <2>5. st' \in [Client -> {"away", "linking", "in", "asking", "suspended", "gone"}]
        /\ \A d \in Client : st'[d] = "away" <=> st[d] = "away"
    BY <1>3 DEF Answered, Goes, TypeOK
  <2>6. UNCHANGED <<link, asks, sent, wire, backlog, server, history>>
    BY <1>3 DEF Answered
  <2>7. TypeOK'
    BY <2>3, <2>4, <2>5, <2>6 DEF TypeOK
  <2>8. Places'
    BY <2>5, <2>6 DEF Places
  <2> QED BY <2>7, <2>8
<1>4. ASSUME NEW c \in Client, Suspend(c) PROVE TypeOK' /\ Places'
  <2>1. Current(c) \in Link
    BY <1>4, CurrentLink DEF Suspend
  <2>2. /\ wire' \in [Link -> Seq([req : Request, no : Nat])]
        /\ sent' \in [Client -> Nat]
        /\ end' \in [Link -> {"none", "open", "closed", "reset"}]
    BY <1>4, <2>1, SendTypes DEF Suspend, Request
  <2> QED BY <1>4, <2>2 DEF Suspend, Goes, TypeOK, Places
<1>5. ASSUME NEW c \in Client, Resume(c) PROVE TypeOK' /\ Places'
  <2>1. Dial(c, "resume")
    BY <1>5 DEF Resume
  <2>2. /\ link' \in [Client -> 0..Links] /\ backlog' \in Seq(Link)
        /\ wire' \in [Link -> Seq([req : Request, no : Nat])]
        /\ sent' \in [Client -> Nat]
        /\ end' \in [Link -> {"none", "open", "closed", "reset"}]
    BY <2>1, DialTypes DEF Request
  <2>3. link' = [link EXCEPT ![c] = @ + 1] /\ link[c] \in Nat
    BY <2>1 DEF Dial, TypeOK
  <2>4. TypeOK'
    BY <1>5, <2>2 DEF Resume, Goes, TypeOK
  <2>5. Places'
    BY <1>5, <2>3 DEF Resume, Goes, TypeOK, Places
  <2> QED BY <2>4, <2>5
<1>6. ASSUME NEW c \in Client, Disconnect(c) PROVE TypeOK' /\ Places'
  <2>1. Current(c) \in Link
    BY <1>6, CurrentLink DEF Disconnect
  <2>2. /\ wire' \in [Link -> Seq([req : Request, no : Nat])]
        /\ sent' \in [Client -> Nat]
        /\ end' \in [Link -> {"none", "open", "closed", "reset"}]
    BY <1>6, <2>1, SendTypes DEF Disconnect, Request
  <2> QED BY <1>6, <2>2 DEF Disconnect, Goes, TypeOK, Places
<1>7. ASSUME NEW c \in Client, Failed(c) PROVE TypeOK' /\ Places'
  BY <1>7 DEF Failed, Goes, TypeOK, Places
<1>8. ASSUME NEW c \in Client, Crash(c) PROVE TypeOK' /\ Places'
  <2>1. <<>> \in Seq([req : Request, no : Nat])
    OBVIOUS
  <2>2. wire' \in [Link -> Seq([req : Request, no : Nat])]
    BY <1>8, <2>1 DEF Crash, TypeOK
  <2>3. end' \in [Link -> {"none", "open", "closed", "reset"}]
    BY <1>8 DEF Crash, TypeOK
  <2> QED BY <1>8, <2>2, <2>3 DEF Crash, Goes, TypeOK, Places
<1>9. CASE Accept
  <2>1. Head(backlog) \in Link /\ Tail(backlog) \in Seq(Link)
    BY <1>9, TailShape DEF Accept, TypeOK
  <2>2. depth' = depth + 1 /\ depth \in Nat /\ pc' = "get" /\ data_socket' = Head(backlog)
    BY <1>9 DEF Accept, TypeOK
  <2>3. TypeOK'
    <3>1. /\ data_socket' \in Link \cup {None} /\ backlog' \in Seq(Link) /\ depth' \in Nat
          /\ pc' \in {"main", "key", "accept", "get", "stuck", "exited"}
      BY <1>9, <2>1, <2>2 DEF Accept
    <3>2. UNCHANGED <<client, wire, end, reply, PackBuff, OneShot, history>>
      BY <1>9 DEF Accept
    <3> QED BY <3>1, <3>2 DEF TypeOK
  <2>4. Places'
    BY <1>0, <1>9, <2>1, <2>2 DEF Accept, Places
  <2> QED BY <2>3, <2>4
<1>10. CASE Poll \/ Key \/ Spin
  BY <1>10 DEF Poll, Key, Spin, TypeOK, Places
<1>11. CASE Serve
  <2> DEFINE m == Head(wire[data_socket])
             c == data_socket[1]
  <2>1. data_socket \in Link /\ pc = "get" /\ c \in Client
    BY <1>11, LinkPair DEF Serve, TypeOK, Places
  <2>2. m \in Message /\ Tail(wire[data_socket]) \in Seq(Message)
    <3>1. wire[data_socket] \in Seq(Message) /\ wire[data_socket] # <<>>
      BY <1>11, <2>1 DEF Serve, TypeOK, Message
    <3> QED BY <3>1, TailShape
  <2>3. m.req \in Request /\ m.no \in Nat
    BY <2>2 DEF Message
  <2>4. Execute(m.req, m.no)
    BY <1>11 DEF Serve
  <2>5. wire' \in [Link -> Seq([req : Request, no : Nat])]
    BY <1>11, <2>2 DEF Serve, TypeOK, Message
  <2>6. PackBuff' \in Request /\ done' \in [Client -> Nat] /\ suspended' \subseteq Client
    BY <1>11, <2>1, <2>3 DEF Serve, TypeOK, Request
  <2> HIDE DEF m, c
  <2> QED BY <1>11, <2>1, <2>3, <2>4, <2>5, <2>6, ExecuteTypes DEF Serve, TypeOK, Places
<1>12. CASE ServeStale
  <2>1. PackBuff \in Request /\ 0 \in Nat
    BY DEF TypeOK
  <2> QED BY <1>12, <2>1, ExecuteTypes DEF ServeStale, TypeOK, Places
<1>13. CASE UNCHANGED vars
  BY <1>13 DEF vars, TypeOK, Places
<1> QED BY <1>1, <1>2, <1>3, <1>4, <1>5, <1>6, <1>7, <1>8, <1>9, <1>10, <1>11, <1>12, <1>13
        DEF Next, Server, Proceeds

-----------------------------------------------------------------------------
(* The server between sessions, and clients that send nothing *)

LEMMA IdleClean ==
    ASSUME TypeOK, Places, Clean, Poll \/ Key \/ Spin \/ UNCHANGED vars
    PROVE  Clean'
<1>1. UNCHANGED <<client, wire, end, reply, backlog, depth, data_socket, done, suspended, again>>
  BY DEF Poll, Key, Spin, vars, client, network, server, history
<1>2. pc' \in {"get", "stuck"} <=> pc \in {"get", "stuck"}
  BY DEF Poll, Key, Spin, vars, server
<1>3. \A l : Waits(l)' = Waits(l) /\ Held(l)' = Held(l)
  BY <1>1 DEF Waits, Held
<1>4. DepthIsSuspended' /\ AnswersMatch'
  BY <1>1, <1>2 DEF Clean, DepthIsSuspended, AnswersMatch, client
<1>5. Unused' /\ Resets' /\ Ordered' /\ Contents' /\ Starts'
  BY <1>1, <1>3 DEF Clean, Unused, Resets, Ordered, Contents, Content, Starts, Has, client
<1>6. Suspending' /\ Serving' /\ Expected'
  BY <1>1, <1>3 DEF Clean, Suspending, Serving, Expected, Has, Ends, client
<1>7. Clients'
  BY <1>1, <1>3 DEF Clean, Clients, ClientKept, Ends, Current, client
<1>8. Numbered'
  <2>1. Consecutive' /\ NextServed' /\ AllDone'
    BY <1>1, <1>3 DEF Clean, Numbered, Consecutive, NextServed, AllDone, Current, client
  <2>2. \A c, n : Last(c, n)' = Last(c, n) /\ Alone(c, n)' = Alone(c, n)
    BY <1>1, <1>3 DEF Last, Alone
  <2>3. NextAccepted'
    BY <1>1, <1>3, <2>2 DEF Clean, Numbered, NextAccepted
  <2>4. LastSent'
    BY <1>1, <1>3, <2>2 DEF Clean, Numbered, LastSent, Current, client
  <2> QED BY <2>1, <2>3, <2>4 DEF Numbered
<1> QED BY <1>4, <1>5, <1>6, <1>7, <1>8 DEF Clean

LEMMA AnsweredClean ==
    ASSUME TypeOK, Places, Clean, ~again, NEW c0 \in Client, Answered(c0)
    PROVE  Clean'
<1>1. st[c0] \in {"linking", "asking"} /\ link[c0] \in Number /\ Current(c0) = <<c0, link[c0]>>
  BY SessionAssumption DEF Answered, TypeOK, Places, Number, Current
<1>2. Current(c0) \in Link
  BY <1>1, LinkPair
<1>3. UNCHANGED <<link, sent, wire, backlog, depth, data_socket, pc, done, suspended, again>>
  BY DEF Answered, server, history
<1>4. Len(reply[Current(c0)]) = 1 /\ reply[Current(c0)] # <<>>
  BY <1>1 DEF Clean, AnswersMatch, Answered, Number
<1>5. reply'[Current(c0)] = <<>> /\ \A l \in Link : l # Current(c0) => reply'[l] = reply[l]
  <2>1. Tail(reply[Current(c0)]) = <<>>
    <3>1. reply[Current(c0)] \in Seq(Answer)
      BY <1>2, Shapes
    <3>2. Tail(reply[Current(c0)]) \in Seq(Answer) /\ Len(Tail(reply[Current(c0)])) = 0
      BY <3>1, <1>4, TailShape
    <3> QED BY <3>2, SeqShape
  <2> QED BY <1>2, <2>1 DEF Answered, TypeOK
<1>6. /\ \A c \in Client \ {c0} : st'[c] = st[c]
      /\ st'[c0] = IF reply[Current(c0)][1].ok THEN "in" ELSE "gone"
  <2>1. Head(reply[Current(c0)]) = reply[Current(c0)][1]
    BY <1>2, <1>4, TailShape DEF TypeOK
  <2> QED BY <2>1 DEF Answered, Goes, TypeOK
<1>7. \A l \in Link : end'[l] = "reset" <=> end[l] = "reset"
  <2>1. end[Current(c0)] # "reset"
    BY <1>1 DEF Clean, Resets
  <2> QED BY <2>1 DEF Answered, TypeOK
<1>8. \A l : Waits(l)' = Waits(l) /\ Held(l)' = Held(l)
  BY <1>3 DEF Waits, Held
<1>9. \A c \in Client, n \in Number : <<c, n>> \in Link /\ (<<c, n>> = Current(c0) <=> c = c0 /\ n = link[c0])
  <2>1. \A c, n : <<c, n>> = Current(c0) <=> c = c0 /\ n = link[c0]
    BY <1>1
  <2> QED BY <2>1, LinkPair
<1>10. Held(Current(c0)) \/ ~reply[Current(c0)][1].ok
  <2>1. 1 \in DOMAIN reply[Current(c0)]
    BY <1>2, <1>4, Shapes
  <2> QED BY <1>1, <2>1 DEF Clean, Clients, ClientKept
<1>11. Unused'
  BY <1>3, <1>5, <1>8, <1>9 DEF Clean, Unused
<1>12. Resets' /\ Ordered' /\ Starts' /\ Suspending' /\ Serving' /\ Expected'
  <2>1. Resets'
    BY <1>1, <1>3, <1>6, <1>7, <1>9 DEF Clean, Resets
  <2>2. Ordered'
    BY <1>3, <1>8 DEF Clean, Ordered
  <2>3. Starts' /\ Suspending' /\ Serving' /\ Expected'
    BY <1>3, <1>7, <1>8, <1>9 DEF Clean, Starts, Suspending, Serving, Expected, Has, Ends
  <2> QED BY <2>1, <2>2, <2>3
<1>13. Contents'
  <2> SUFFICES ASSUME NEW c \in Client, NEW n \in Number, NEW i \in DOMAIN wire[<<c, n>>]
               PROVE  Content(c, n, i)'
    BY <1>3 DEF Contents
  <2>1. Content(c, n, i)
    BY DEF Clean, Contents
  <2>2. CASE <<c, n>> = Current(c0)
    BY <1>1, <1>3, <1>4, <1>6, <1>9, <2>1, <2>2 DEF Content
  <2>3. CASE <<c, n>> # Current(c0)
    BY <1>1, <1>3, <1>5, <1>6, <1>9, <2>1, <2>3 DEF Content
  <2> QED BY <2>2, <2>3
<1>14. Clients'
  <2> SUFFICES ASSUME NEW c \in Client PROVE ClientKept(c)'
    BY DEF Clients
  <2>1. ClientKept(c)
    BY DEF Clean, Clients
  <2>2. CASE c = c0
    BY <1>3, <1>6, <1>8, <1>10, <2>2 DEF ClientKept, Current
  <2>3. CASE c # c0
    <3>1. Current(c)' = Current(c) /\ st'[c] = st[c] /\ Ends(c, link[c])' = Ends(c, link[c])
      BY <1>3, <1>6, <2>3 DEF Current, Ends
    <3>2. st[c] = "linking" => reply'[Current(c)] = reply[Current(c)]
      <4> SUFFICES ASSUME st[c] = "linking" PROVE reply'[Current(c)] = reply[Current(c)]
        OBVIOUS
      <4>1. Current(c) \in Link
        BY CurrentLink
      <4>2. Current(c) # Current(c0)
        BY <2>3 DEF Current
      <4> QED BY <1>5, <4>1, <4>2
    <3> QED BY <1>3, <1>8, <2>1, <3>1, <3>2 DEF ClientKept
  <2> QED BY <2>2, <2>3
<1>15. Numbered'
  <2>1. Consecutive' /\ NextServed'
    BY <1>3 DEF Clean, Numbered, Consecutive, NextServed
  <2>2. \A c, n : Last(c, n)' = Last(c, n) /\ Alone(c, n)' = Alone(c, n)
    BY <1>3, <1>8 DEF Last, Alone
  <2>3. NextAccepted'
    BY <1>3, <1>7, <1>8, <1>9, <2>2 DEF Clean, Numbered, NextAccepted
  <2>4. LastSent'
    <3>1. \A c \in Client : Current(c)' = Current(c) /\ (st[c] # "away" => Current(c) \in Link)
      BY <1>3, CurrentLink DEF Current
    <3>2. \A c \in Client : st'[c] # "away" => st[c] # "away"
      BY <1>1, <1>6
    <3> QED BY <1>3, <1>7, <1>8, <2>2, <3>1, <3>2 DEF Clean, Numbered, LastSent
  <2>5. AllDone'
    BY <1>1, <1>3, <1>6, <1>8 DEF Clean, Numbered, AllDone, Current
  <2> QED BY <2>1, <2>3, <2>4, <2>5 DEF Numbered
<1>16. DepthIsSuspended' /\ AnswersMatch'
  BY <1>1, <1>3, <1>5, <1>6, <1>9 DEF Clean, DepthIsSuspended, AnswersMatch, Number
<1> QED BY <1>11, <1>12, <1>13, <1>14, <1>15, <1>16 DEF Clean

LEMMA GoneClean ==
    ASSUME TypeOK, Places, Clean, ~again, NEW c0 \in Client, Failed(c0) \/ Crash(c0)
    PROVE  Clean'
<1> DEFINE l0 == Current(c0)
<1>1. st[c0] \notin {"away", "gone"} /\ link[c0] \in Number /\ l0 = <<c0, link[c0]>>
  <2>1. st[c0] \notin {"away", "gone"}
    BY DEF Failed, Crash
  <2>2. link[c0] # 0 /\ link[c0] \in 0..Links
    BY <2>1 DEF Places, TypeOK
  <2> QED BY <2>1, <2>2, SessionAssumption DEF Number, Current
<1>2. l0 \in Link
  BY <1>1, LinkPair
<1>3. UNCHANGED <<link, sent, reply, backlog, depth, data_socket, pc, done, suspended, again>>
  BY DEF Failed, Crash, server, history, network
<1>4. st'[c0] = "gone" /\ \A c \in Client \ {c0} : st'[c] = st[c]
  BY DEF Failed, Crash, Goes, TypeOK
<1>5. \A l \in Link \ {l0} : wire'[l] = wire[l] /\ end'[l] = end[l]
  BY DEF Failed, Crash, network, TypeOK
<1>6. end[l0] # "reset"
  BY <1>1 DEF Clean, Resets
<1>7. \/ wire'[l0] = wire[l0] /\ end'[l0] # "reset"
      \/ wire'[l0] = <<>> /\ end'[l0] = "reset"
  BY <1>2, <1>6 DEF Failed, Crash, network, TypeOK
<1>8. \A l : Waits(l)' = Waits(l) /\ Held(l)' = Held(l)
  BY <1>3 DEF Waits, Held
<1>9. \A c \in Client, n \in Number : <<c, n>> \in Link /\ (<<c, n>> = l0 <=> c = c0 /\ n = link[c0])
  <2>1. \A c, n : <<c, n>> = l0 <=> c = c0 /\ n = link[c0]
    BY <1>1
  <2> QED BY <2>1, LinkPair
<1> HIDE DEF l0
<1>10. \A c \in Client, n \in Number :
          \/ wire'[<<c, n>>] = wire[<<c, n>>] /\ (end'[<<c, n>>] = "reset" <=> end[<<c, n>>] = "reset")
          \/ c = c0 /\ n = link[c] /\ wire'[<<c, n>>] = <<>> /\ end'[<<c, n>>] = "reset"
  BY <1>5, <1>6, <1>7, <1>9
<1>11. Unused'
  BY <1>3, <1>8, <1>10 DEF Clean, Unused
<1>12. Resets'
  BY <1>3, <1>4, <1>10 DEF Clean, Resets
<1>13. Ordered'
  BY <1>3, <1>8 DEF Clean, Ordered
<1>14. Starts' /\ Serving' /\ Expected'
  BY <1>3, <1>8, <1>10 DEF Clean, Starts, Serving, Expected, Has
<1>15. Suspending'
  <2> SUFFICES ASSUME NEW c \in Client, NEW n \in Number, Held(<<c, n>>), n < link[c]
               PROVE  Ends(c, n)'
    BY <1>3, <1>8 DEF Suspending
  <2>1. n # link[c]
    BY DEF TypeOK, Number
  <2>2. Ends(c, n)
    BY DEF Clean, Suspending
  <2> QED BY <1>10, <2>1, <2>2 DEF Ends
<1>16. Contents'
  <2> SUFFICES ASSUME NEW c \in Client, NEW n \in Number, NEW i \in DOMAIN wire'[<<c, n>>]
               PROVE  Content(c, n, i)'
    BY DEF Contents
  <2>1. wire'[<<c, n>>] = wire[<<c, n>>]
    BY <1>10
  <2>2. Content(c, n, i)
    BY <2>1 DEF Clean, Contents
  <2>3. st'[c] = st[c] \/ st'[c] = "gone"
    BY <1>4
  <2> QED BY <1>3, <2>1, <2>2, <2>3 DEF Content
<1>17. Clients'
  <2> SUFFICES ASSUME NEW c \in Client PROVE ClientKept(c)'
    BY DEF Clients
  <2>1. ClientKept(c)
    BY DEF Clean, Clients
  <2>2. CASE c = c0
    BY <1>4, <2>2 DEF ClientKept
  <2>3. CASE c # c0
    <3>1. Current(c)' = Current(c) /\ st'[c] = st[c]
      BY <1>3, <1>4, <2>3 DEF Current
    <3>2. st[c] = "suspended" => (Ends(c, link[c])' <=> Ends(c, link[c]))
      <4> SUFFICES ASSUME st[c] = "suspended" PROVE Ends(c, link[c])' <=> Ends(c, link[c])
        OBVIOUS
      <4>1. link[c] \in Number
        BY SessionAssumption DEF TypeOK, Places, Number
      <4>2. wire'[<<c, link[c]>>] = wire[<<c, link[c]>>]
        BY <1>10, <2>3, <4>1
      <4> QED BY <1>3, <4>2 DEF Ends
    <3> QED BY <1>3, <1>8, <2>1, <3>1, <3>2 DEF ClientKept
  <2> QED BY <2>2, <2>3
<1>18. Numbered'
  <2>1. Consecutive' /\ NextServed'
    BY <1>3, <1>10 DEF Clean, Numbered, Consecutive, NextServed
  <2>2. NextAccepted'
    <3> SUFFICES ASSUME NEW c \in Client, NEW n \in Number, Waits(<<c, n>>), end'[<<c, n>>] # "reset"
                 PROVE  /\ Alone(c, n)' => wire'[<<c, n>>][1].no = done'[c] + 1
                        /\ ~Alone(c, n)' => wire'[<<c, n>>][1].no = Last(c, n - 1)' + 1
      BY <1>8 DEF NextAccepted
    <3>1. wire'[<<c, n>>] = wire[<<c, n>>] /\ end[<<c, n>>] # "reset"
      BY <1>10
    <3>2. Alone(c, n)' = Alone(c, n)
      BY <1>8 DEF Alone
    <3>3. n # 1 => Last(c, n - 1)' = Last(c, n - 1)
      <4> SUFFICES ASSUME n # 1 PROVE wire'[<<c, n - 1>>] = wire[<<c, n - 1>>]
        BY DEF Last
      <4>1. n - 1 \in Number /\ n <= link[c] /\ n - 1 # link[c]
        BY SessionAssumption, <1>8 DEF Clean, Unused, Held, Number, TypeOK
      <4> QED BY <1>10, <4>1
    <3> QED BY <1>3, <3>1, <3>2, <3>3 DEF Clean, Numbered, NextAccepted, Alone
  <2>3. LastSent'
    <3> SUFFICES ASSUME NEW c \in Client, st'[c] # "away", Held(Current(c)), end'[Current(c)] # "reset"
                 PROVE  /\ wire'[Current(c)] = <<>> => sent'[c] = done'[c]
                        /\ wire'[Current(c)] # <<>> => sent'[c] = Last(c, link[c])'
      BY <1>3, <1>8 DEF LastSent, Current
    <3>1. st[c] # "away"
      BY <1>1, <1>4
    <3>2. link[c] \in Number /\ Current(c) = <<c, link[c]>>
      BY <3>1, SessionAssumption DEF TypeOK, Places, Number, Current
    <3>3. wire'[Current(c)] = wire[Current(c)] /\ end[Current(c)] # "reset"
      BY <1>10, <3>2
    <3> QED BY <1>3, <3>1, <3>2, <3>3 DEF Clean, Numbered, LastSent, Last
  <2>4. AllDone'
    BY <1>3, <1>4, <1>8 DEF Clean, Numbered, AllDone, Current
  <2> QED BY <2>1, <2>2, <2>3, <2>4 DEF Numbered
<1>19. DepthIsSuspended' /\ AnswersMatch'
  BY <1>3, <1>4 DEF Clean, DepthIsSuspended, AnswersMatch, Number
<1> QED BY <1>11, <1>12, <1>13, <1>14, <1>15, <1>16, <1>17, <1>18, <1>19 DEF Clean

-----------------------------------------------------------------------------
(* Clients that send on the link they have *)

LEMMA SendsClean ==
    ASSUME TypeOK, Places, Clean, ~again, NEW c0 \in Client, st[c0] = "in",
           NEW req \in {"ask", "tell", "suspend", "disconnect"},
           NEW after \in {"open", "closed"}, Send(c0, Current(c0), req, after),
           Goes(c0, CASE req = "ask" -> "asking"
                      [] req = "tell" -> "in"
                      [] req = "suspend" -> "suspended"
                      [] req = "disconnect" -> "gone"),
           UNCHANGED <<link, reply, backlog, server, history>>
    PROVE  Clean'
<1> DEFINE l0 == Current(c0)
           m0 == [req |-> req, no |-> sent[c0] + 1]
           k0 == Len(wire[l0])
<1>1. link[c0] \in Number /\ l0 = <<c0, link[c0]>> /\ l0 \in Link
  <2>1. link[c0] # 0 /\ link[c0] \in 0..Links
    BY DEF TypeOK, Places
  <2>2. link[c0] \in Number /\ l0 = <<c0, link[c0]>>
    BY <2>1, SessionAssumption DEF Number, Current
  <2> QED BY <2>2, LinkPair
<1>2. UNCHANGED <<link, reply, backlog, depth, data_socket, pc, done, suspended, again>>
  BY DEF server, history
<1>3. /\ \A c \in Client \ {c0} : st'[c] = st[c] /\ sent'[c] = sent[c]
      /\ sent'[c0] = sent[c0] + 1 /\ sent[c0] \in Nat
      /\ req = "ask" => st'[c0] = "asking"
      /\ req = "tell" => st'[c0] = "in"
      /\ req = "suspend" => st'[c0] = "suspended"
      /\ req = "disconnect" => st'[c0] = "gone"
  BY DEF Goes, Send, TypeOK
<1>4. m0 \in Message /\ m0.req = req /\ m0.no = sent[c0] + 1
  BY <1>3 DEF Message, Request
<1>5. \A c \in Client, n \in Number : <<c, n>> \in Link /\ (<<c, n>> = l0 <=> c = c0 /\ n = link[c0])
  <2>1. \A c, n : <<c, n>> = l0 <=> c = c0 /\ n = link[c0]
    BY <1>1
  <2> QED BY <2>1, LinkPair
<1>6. \A l \in Link \ {l0} : wire'[l] = wire[l] /\ end'[l] = end[l]
  BY DEF Send, TypeOK
<1>7. end[l0] # "reset" /\ end'[l0] # "reset"
  <2>1. end[l0] # "reset"
    BY <1>1 DEF Clean, Resets
  <2>2. end'[l0] = after
    BY <1>1 DEF Send, TypeOK
  <2> QED BY <2>1, <2>2
<1>8. /\ k0 \in Nat /\ DOMAIN wire[l0] = 1..k0 /\ (wire[l0] = <<>> <=> k0 = 0)
      /\ wire'[l0] # <<>> /\ Len(wire'[l0]) = k0 + 1 /\ DOMAIN wire'[l0] = 1..(k0 + 1)
      /\ \A i \in 1..k0 : wire'[l0][i] = wire[l0][i]
      /\ wire'[l0][k0 + 1] = m0
  <2>1. wire[l0] \in Seq(Message)
    BY <1>1, Shapes
  <2>2. wire'[l0] = Append(wire[l0], m0)
    BY <1>1 DEF Send, TypeOK
  <2> QED BY <1>4, <2>1, <2>2, AppendShape, SeqShape
<1>9. \A l : Waits(l)' = Waits(l) /\ Held(l)' = Held(l)
  BY <1>2 DEF Waits, Held
<1>10. Held(l0)
  BY DEF Clean, Clients, ClientKept
<1>11. \A n \in Number : reply[<<c0, n>>] = <<>>
  BY DEF Clean, AnswersMatch, Number
<1>12. \A i \in 1..k0 : wire[l0][i].req \notin {"connect", "old", "ask", "suspend", "disconnect"}
  <2> SUFFICES ASSUME NEW i \in 1..k0
               PROVE  wire[l0][i].req \notin {"connect", "old", "ask", "suspend", "disconnect"}
    OBVIOUS
  <2>1. Content(c0, link[c0], i)
    BY <1>1, <1>8 DEF Clean, Contents
  <2>2. ~(link[c0] < link[c0])
    BY DEF TypeOK
  <2> QED BY <1>1, <2>1, <2>2 DEF Content
<1> HIDE DEF l0, m0, k0
<1>13. \A c \in Client, n \in Number :
          /\ end'[<<c, n>>] = "reset" <=> end[<<c, n>>] = "reset"
          /\ ~(c = c0 /\ n = link[c0]) => wire'[<<c, n>>] = wire[<<c, n>>]
  BY <1>5, <1>6, <1>7
<1>14. \A c \in Client, n \in Number : wire[<<c, n>>] # <<>> =>
          /\ wire'[<<c, n>>] # <<>> /\ wire'[<<c, n>>][1] = wire[<<c, n>>][1]
  <2> SUFFICES ASSUME NEW c \in Client, NEW n \in Number, wire[<<c, n>>] # <<>>
               PROVE  wire'[<<c, n>>] # <<>> /\ wire'[<<c, n>>][1] = wire[<<c, n>>][1]
    OBVIOUS
  <2>1. CASE <<c, n>> = l0
    <3>1. 1 \in 1..k0
      BY <1>8, <2>1
    <3> QED BY <1>8, <2>1, <3>1
  <2> QED BY <1>5, <1>13, <2>1
<1>15. Unused'
  <2> SUFFICES ASSUME NEW c \in Client, NEW n \in Number, n > link[c]
               PROVE  wire'[<<c, n>>] = wire[<<c, n>>]
    BY <1>2, <1>9 DEF Clean, Unused
  <2>1. n # link[c]
    BY DEF Number, TypeOK
  <2> QED BY <1>13, <2>1
<1>16. Resets'
  BY <1>2, <1>3, <1>13 DEF Clean, Resets
<1>17. Ordered'
  BY <1>2, <1>9 DEF Clean, Ordered
<1>18. Starts'
  BY <1>9, <1>13, <1>14 DEF Clean, Starts, Has
<1>19. Suspending'
  <2> SUFFICES ASSUME NEW c \in Client, NEW n \in Number, Held(<<c, n>>), n < link[c]
               PROVE  Ends(c, n)'
    BY <1>2, <1>9 DEF Suspending
  <2>1. n # link[c]
    BY DEF TypeOK, Number
  <2>2. Ends(c, n)
    BY DEF Clean, Suspending
  <2> QED BY <1>13, <2>1, <2>2 DEF Ends
<1>20. Serving'
  <2> SUFFICES ASSUME NEW c \in Client, NEW n \in Number,
                      data_socket = <<c, n>>, end[<<c, n>>] # "reset"
               PROVE  c \in suspended <=> Has(c, n, "resume")'
    BY <1>2, <1>13 DEF Serving
  <2>1. c \in suspended <=> Has(c, n, "resume")
    BY DEF Clean, Serving
  <2>2. CASE wire[<<c, n>>] # <<>>
    BY <1>14, <2>1, <2>2 DEF Has
  <2>3. CASE wire[<<c, n>>] = <<>> /\ <<c, n>> = l0
    <3>1. wire'[l0][1] = m0
      <4>1. wire[l0] = <<>>
        BY <2>3
      <4>2. k0 = 0
        BY <1>8, <4>1, Zenon
      <4>3. k0 + 1 = 1
        BY <4>2
      <4> QED BY <1>8, <4>3
    <3> QED BY <1>4, <2>1, <2>3, <3>1 DEF Has
  <2>4. CASE wire[<<c, n>>] = <<>> /\ <<c, n>> # l0
    BY <1>5, <1>13, <2>1, <2>4 DEF Has
  <2> QED BY <2>2, <2>3, <2>4
<1>21. Expected'
  BY <1>2, <1>9 DEF Clean, Expected
<1>22. Contents'
  <2> SUFFICES ASSUME NEW c \in Client, NEW n \in Number, NEW i \in DOMAIN wire'[<<c, n>>]
               PROVE  Content(c, n, i)'
    BY DEF Contents
  <2>1. CASE c = c0 /\ n = link[c0]
    <3>1. <<c, n>> = l0 /\ i \in 1..(k0 + 1)
      BY <1>5, <1>8, <2>1
    <3>2. CASE i = k0 + 1
      <4>1. wire'[<<c, n>>][i] = m0 /\ i = Len(wire'[<<c, n>>])
        BY <1>8, <3>1, <3>2
      <4> QED BY <1>2, <1>3, <1>4, <1>11, <2>1, <4>1 DEF Content
    <3>3. CASE i # k0 + 1
      <4>1. i \in 1..k0
        BY <1>8, <3>1, <3>3
      <4>2. wire'[<<c, n>>][i] = wire[<<c, n>>][i]
            /\ wire[<<c, n>>][i].req \notin {"connect", "old", "ask", "suspend", "disconnect"}
        BY <1>8, <1>12, <3>1, <4>1
      <4>3. Content(c, n, i)
        BY <1>8, <3>1, <4>1 DEF Clean, Contents
      <4> QED BY <4>2, <4>3 DEF Content
    <3> QED BY <3>2, <3>3
  <2>2. CASE c = c0 /\ n # link[c0]
    <3>1. wire'[<<c, n>>] = wire[<<c, n>>]
      BY <1>13, <2>2
    <3>2. Content(c, n, i)
      BY <3>1 DEF Clean, Contents
    <3> QED BY <1>2, <2>2, <3>1, <3>2 DEF Content
  <2>3. CASE c # c0
    <3>1. wire'[<<c, n>>] = wire[<<c, n>>]
      BY <1>13, <2>3
    <3>2. Content(c, n, i)
      BY <3>1 DEF Clean, Contents
    <3> QED BY <1>2, <1>3, <2>3, <3>1, <3>2 DEF Content
  <2> QED BY <2>1, <2>2, <2>3
<1>23. Clients'
  <2> SUFFICES ASSUME NEW c \in Client PROVE ClientKept(c)'
    BY DEF Clients
  <2>1. CASE c = c0
    <3>1. Held(Current(c))' /\ st'[c] # "linking"
      BY <1>2, <1>3, <1>9, <1>10, <2>1 DEF Current, l0
    <3>2. st'[c] = "suspended" => Ends(c, link[c])'
      <4>1. wire'[<<c, link[c]>>] # <<>>
            /\ wire'[<<c, link[c]>>][Len(wire'[<<c, link[c]>>])] = m0
        BY <1>1, <1>8, <2>1
      <4>2. st'[c] = "suspended" => m0.req = "suspend"
        BY <1>3, <1>4, <2>1
      <4> QED BY <1>2, <4>1, <4>2 DEF Ends
    <3> QED BY <3>1, <3>2 DEF ClientKept
  <2>2. CASE c # c0
    <3>1. Current(c)' = Current(c) /\ st'[c] = st[c]
      BY <1>2, <1>3, <2>2 DEF Current
    <3>2. st[c] = "suspended" => (Ends(c, link[c])' <=> Ends(c, link[c]))
      <4> SUFFICES ASSUME st[c] = "suspended" PROVE Ends(c, link[c])' <=> Ends(c, link[c])
        OBVIOUS
      <4>1. link[c] \in Number
        BY SessionAssumption DEF TypeOK, Places, Number
      <4>2. wire'[<<c, link[c]>>] = wire[<<c, link[c]>>]
        BY <1>13, <2>2, <4>1
      <4> QED BY <1>2, <4>2 DEF Ends
    <3>3. ClientKept(c)
      BY DEF Clean, Clients
    <3> QED BY <1>2, <1>9, <3>1, <3>2, <3>3 DEF ClientKept
  <2> QED BY <2>1, <2>2
<1>24. Numbered'
  <2>0. (k0 = 0 => sent[c0] = done[c0]) /\ (k0 # 0 => sent[c0] = wire[l0][k0].no)
    BY <1>1, <1>7, <1>8, <1>10 DEF Clean, Numbered, LastSent, Last, l0, k0, Current
  <2>1. Consecutive'
    <3> SUFFICES ASSUME NEW c \in Client, NEW n \in Number, NEW i \in DOMAIN wire'[<<c, n>>],
                        NEW j \in DOMAIN wire'[<<c, n>>], j = i + 1
                 PROVE  wire'[<<c, n>>][j].no = wire'[<<c, n>>][i].no + 1
      BY DEF Consecutive
    <3>1. CASE c = c0 /\ n = link[c0]
      <4>1. <<c, n>> = l0 /\ i \in 1..k0 /\ j \in 1..(k0 + 1)
        BY <1>5, <1>8, <3>1
      <4>2. CASE j = k0 + 1
        <5>1. i = k0 /\ k0 # 0
          BY <1>8, <4>1, <4>2
        <5>2. wire'[<<c, n>>][j] = m0 /\ wire'[<<c, n>>][i] = wire[l0][k0]
          BY <1>8, <4>1, <4>2, <5>1
        <5> QED BY <1>4, <2>0, <5>1, <5>2
      <4>3. CASE j # k0 + 1
        <5>1. j \in 1..k0
          BY <1>8, <4>1, <4>3
        <5>2. i \in DOMAIN wire[<<c, n>>] /\ j \in DOMAIN wire[<<c, n>>]
          BY <1>8, <4>1, <5>1
        <5>3. wire[<<c, n>>][j].no = wire[<<c, n>>][i].no + 1
          BY <5>2 DEF Clean, Numbered, Consecutive
        <5> QED BY <1>8, <4>1, <5>1, <5>3
      <4> QED BY <4>2, <4>3
    <3>2. CASE ~(c = c0 /\ n = link[c0])
      BY <1>13, <3>2 DEF Clean, Numbered, Consecutive
    <3> QED BY <3>1, <3>2
  <2>2. NextServed'
    <3> SUFFICES ASSUME NEW c \in Client, NEW n \in Number, data_socket = <<c, n>>,
                        wire'[<<c, n>>] # <<>>
                 PROVE  wire'[<<c, n>>][1].no = done[c] + 1
      BY <1>2 DEF NextServed
    <3>1. CASE wire[<<c, n>>] # <<>>
      BY <1>14, <3>1 DEF Clean, Numbered, NextServed
    <3>2. CASE wire[<<c, n>>] = <<>>
      <4>1. <<c, n>> = l0 /\ c = c0
        BY <1>5, <1>13, <3>2
      <4> QED BY <1>4, <1>8, <2>0, <3>2, <4>1
    <3> QED BY <3>1, <3>2
  <2>3. NextAccepted'
    <3> SUFFICES ASSUME NEW c \in Client, NEW n \in Number, Waits(<<c, n>>), end[<<c, n>>] # "reset"
                 PROVE  /\ Alone(c, n)' => wire'[<<c, n>>][1].no = done[c] + 1
                        /\ ~Alone(c, n)' => wire'[<<c, n>>][1].no = Last(c, n - 1)' + 1
      BY <1>2, <1>9, <1>13 DEF NextAccepted
    <3>1. wire'[<<c, n>>][1] = wire[<<c, n>>][1]
      BY <1>14 DEF Clean, Starts
    <3>2. Alone(c, n)' = Alone(c, n)
      BY <1>9 DEF Alone
    <3>3. n # 1 => Last(c, n - 1)' = Last(c, n - 1)
      <4> SUFFICES ASSUME n # 1 PROVE wire'[<<c, n - 1>>] = wire[<<c, n - 1>>]
        BY DEF Last
      <4>1. ~(n > link[c])
        BY DEF Clean, Unused, Held
      <4>2. n - 1 \in Number /\ n - 1 # link[c]
        BY <4>1, SessionAssumption, SMTT(30) DEF Number, TypeOK
      <4> QED BY <1>13, <4>2
    <3> QED BY <3>1, <3>2, <3>3 DEF Clean, Numbered, NextAccepted, Alone
  <2>4. LastSent'
    <3> SUFFICES ASSUME NEW c \in Client, st'[c] # "away", Held(Current(c)), end'[Current(c)] # "reset"
                 PROVE  /\ wire'[Current(c)] = <<>> => sent'[c] = done[c]
                        /\ wire'[Current(c)] # <<>> => sent'[c] = Last(c, link[c])'
      BY <1>2, <1>9 DEF LastSent, Current
    <3>1. CASE c = c0
      <4>1. Last(c, link[c])' = m0.no
        BY <1>1, <1>2, <1>8, <3>1 DEF Last
      <4>2. wire'[Current(c)] # <<>>
        BY <1>8, <3>1 DEF l0
      <4> QED BY <1>3, <1>4, <3>1, <4>1, <4>2
    <3>2. CASE c # c0
      <4>1. st[c] # "away"
        BY <1>3, <3>2
      <4>2. link[c] \in Number /\ Current(c) = <<c, link[c]>>
        BY <4>1, SessionAssumption DEF TypeOK, Places, Number, Current
      <4>3. wire'[Current(c)] = wire[Current(c)] /\ end[Current(c)] # "reset"
        BY <1>13, <3>2, <4>2
      <4> QED BY <1>2, <1>3, <3>2, <4>1, <4>2, <4>3 DEF Clean, Numbered, LastSent, Last
    <3> QED BY <3>1, <3>2
  <2>5. AllDone'
    <3> SUFFICES ASSUME NEW c \in Client,
                        st'[c] = "away" \/ (st'[c] = "suspended" /\ ~Held(Current(c)))
                 PROVE  sent'[c] = done[c]
      BY <1>2, <1>9 DEF AllDone, Current
    <3>1. c # c0
      BY <1>3, <1>10 DEF l0
    <3> QED BY <1>3, <3>1 DEF Clean, Numbered, AllDone
  <2> QED BY <2>1, <2>2, <2>3, <2>4, <2>5 DEF Numbered
<1>25. DepthIsSuspended'
  BY <1>2 DEF Clean, DepthIsSuspended
<1>26. AnswersMatch'
  BY <1>2, <1>3, <1>11 DEF Clean, AnswersMatch, Number
<1> QED BY <1>15, <1>16, <1>17, <1>18, <1>19, <1>20, <1>21, <1>22, <1>23, <1>24, <1>25, <1>26
        DEF Clean

-----------------------------------------------------------------------------
(* Clients that link, for the first time or again *)

LEMMA DialsClean ==
    ASSUME TypeOK, Places, Clean, ~again, NEW c0 \in Client,
           NEW req \in {"connect", "old", "resume"}, Dial(c0, req),
           IF req = "resume" THEN st[c0] = "suspended" /\ Goes(c0, "in")
                             ELSE st[c0] = "away" /\ Goes(c0, "linking"),
           UNCHANGED <<reply, server, history>>
    PROVE  Clean'
<1> DEFINE k0 == link[c0] + 1
           l0 == <<c0, k0>>
           m0 == [req |-> req, no |-> sent[c0] + 1]
<1>1. l0 \in Link /\ k0 \in Number /\ link[c0] \in Nat /\ l0[1] = c0 /\ l0[2] = k0
  <2>1. l0 \in Link
    BY DialTypes, SessionAssumption DEF Request
  <2>2. link[c0] \in Nat
    BY DEF TypeOK
  <2> QED BY <2>1, <2>2 DEF Link, Number
<1>2. UNCHANGED <<reply, depth, data_socket, pc, done, suspended, again>>
  BY DEF server, history
<1>3. /\ \A c \in Client \ {c0} : st'[c] = st[c] /\ sent'[c] = sent[c] /\ link'[c] = link[c]
      /\ sent'[c0] = sent[c0] + 1 /\ sent[c0] \in Nat /\ link'[c0] = k0
      /\ req = "resume" => st[c0] = "suspended" /\ st'[c0] = "in"
      /\ req # "resume" => st[c0] = "away" /\ st'[c0] = "linking"
  <2>1. st' = [st EXCEPT ![c0] = IF req = "resume" THEN "in" ELSE "linking"]
    BY DEF Goes
  <2>2. /\ sent' = [sent EXCEPT ![c0] = @ + 1]
        /\ link' = [link EXCEPT ![c0] = @ + 1]
    BY DEF Dial, Send
  <2> QED BY <2>1, <2>2 DEF TypeOK
<1>4. m0 \in Message /\ m0.req = req /\ m0.no = sent[c0] + 1
  BY <1>3 DEF Message, Request
<1>5. \A c \in Client, n \in Number : <<c, n>> \in Link /\ (<<c, n>> = l0 <=> c = c0 /\ n = k0)
  <2>1. \A c, n : <<c, n>> = l0 <=> c = c0 /\ n = k0
    OBVIOUS
  <2> QED BY <2>1, LinkPair
<1>6. wire[l0] = <<>> /\ reply[l0] = <<>> /\ ~Held(l0)
  BY <1>1 DEF Clean, Unused
<1>7. \A l \in Link \ {l0} : wire'[l] = wire[l] /\ end'[l] = end[l]
  BY DEF Dial, Send, TypeOK
<1>8. end'[l0] = "open"
  BY <1>1 DEF Dial, Send, TypeOK
<1>9. /\ wire'[l0] # <<>> /\ Len(wire'[l0]) = 1 /\ DOMAIN wire'[l0] = {1} /\ wire'[l0][1] = m0
  <2>1. wire'[l0] = Append(<<>>, m0)
    BY <1>1, <1>6 DEF Dial, Send, TypeOK
  <2> QED BY <2>1
<1>10. /\ Len(backlog) \in Nat /\ DOMAIN backlog = 1..Len(backlog)
       /\ DOMAIN backlog' = 1..(Len(backlog) + 1)
       /\ \A i \in 1..Len(backlog) : backlog'[i] = backlog[i] /\ backlog[i] \in Link
       /\ backlog'[Len(backlog) + 1] = l0
  <2>1. backlog \in Seq(Link) /\ backlog' = Append(backlog, l0)
    BY DEF Dial, TypeOK
  <2> QED BY <1>1, <2>1, AppendShape, SeqShape
<1> HIDE DEF l0, m0
<1>11. \A l : (Waits(l)' <=> Waits(l) \/ l = l0) /\ (Held(l)' <=> Held(l) \/ l = l0)
  <2>1. ASSUME NEW l PROVE Waits(l)' <=> Waits(l) \/ l = l0
    <3>1. ASSUME Waits(l)' PROVE Waits(l) \/ l = l0
      BY <1>10, <3>1 DEF Waits
    <3>2. ASSUME Waits(l) PROVE Waits(l)'
      BY <1>10, <3>2 DEF Waits
    <3>3. ASSUME l = l0 PROVE Waits(l)'
      BY <1>10, <3>3 DEF Waits
    <3> QED BY <3>1, <3>2, <3>3
  <2> QED BY <1>2, <2>1 DEF Held
<1>12. \A c \in Client, n \in Number :
          ~(c = c0 /\ n = k0) =>
             /\ wire'[<<c, n>>] = wire[<<c, n>>] /\ end'[<<c, n>>] = end[<<c, n>>]
             /\ (Waits(<<c, n>>)' <=> Waits(<<c, n>>)) /\ (Held(<<c, n>>)' <=> Held(<<c, n>>))
  BY <1>5, <1>7, <1>11
<1>13. \A n \in Number : end[<<c0, n>>] # "reset" /\ reply[<<c0, n>>] = <<>>
  <2>1. st[c0] \in {"away", "suspended"}
    BY <1>3
  <2> QED BY <2>1 DEF Clean, Resets, AnswersMatch, Number
<1>14. (req = "resume" <=> k0 > 1) /\ (req # "resume" <=> link[c0] = 0)
  BY <1>1, <1>3 DEF Places
<1>15. \A c \in Client, n \in Number : Held(<<c, n>>) => n <= link[c]
  BY DEF Clean, Unused, Number, TypeOK
<1>16. req = "resume" => link[c0] \in Number /\ <<c0, link[c0]>> = Current(c0)
  BY <1>1, <1>14, SessionAssumption DEF Number, Current, Link
<1>17. req = "resume" /\ Held(<<c0, link[c0]>>) => Ends(c0, link[c0])
  BY <1>3, <1>16 DEF Clean, Clients, ClientKept
<1>18. req = "resume" /\ ~Held(<<c0, link[c0]>>) => c0 \in suspended
  BY <1>3, <1>16 DEF Clean, Clients, ClientKept
<1>20. Unused'
  <2> SUFFICES ASSUME NEW c \in Client
               PROVE  /\ link'[c] = 0 => c \notin suspended
                      /\ \A n \in Number : n > link'[c] =>
                            wire'[<<c, n>>] = <<>> /\ reply[<<c, n>>] = <<>> /\ ~Held(<<c, n>>)'
    BY <1>2 DEF Unused
  <2>1. CASE c = c0
    <3>1. \A n \in Number : n > k0 => n > link[c] /\ n # k0
      BY <1>1, <2>1 DEF Number
    <3> QED BY <1>1, <1>3, <1>12, <2>1, <3>1 DEF Clean, Unused
  <2>2. CASE c # c0
    BY <1>3, <1>12, <2>2 DEF Clean, Unused
  <2> QED BY <2>1, <2>2
<1>21. Resets'
  <2> SUFFICES ASSUME NEW c \in Client, NEW n \in Number, end'[<<c, n>>] = "reset"
               PROVE  wire'[<<c, n>>] = <<>> /\ st'[c] = "gone" /\ n = link'[c]
    BY DEF Resets
  <2>1. ~(c = c0 /\ n = k0)
    BY <1>5, <1>8
  <2>2. c # c0
    BY <1>12, <1>13, <2>1
  <2> QED BY <1>3, <1>12, <2>1, <2>2 DEF Clean, Resets
<1>22. Ordered'
  <2>1. ASSUME NEW i \in DOMAIN backlog', NEW j \in DOMAIN backlog', i < j,
               backlog'[i][1] = backlog'[j][1]
        PROVE  backlog'[i][2] < backlog'[j][2]
    <3>1. i \in 1..Len(backlog) /\ backlog'[i] = backlog[i] /\ backlog[i] \in Link
      BY <1>10, <2>1
    <3>2. CASE j \in 1..Len(backlog)
      BY <1>10, <2>1, <3>1, <3>2 DEF Clean, Ordered
    <3>3. CASE j = Len(backlog) + 1
      <4>1. backlog'[j] = l0 /\ backlog[i][1] = c0
        BY <1>1, <1>10, <2>1, <3>1, <3>3
      <4>2. backlog[i] = <<c0, backlog[i][2]>> /\ backlog[i][2] \in Number /\ Held(backlog[i])
        BY <1>10, <3>1, <4>1, LinkPair DEF Held, Waits
      <4>3. backlog[i][2] <= link[c0]
        BY <1>15, <4>2
      <4> QED BY <1>1, <3>1, <4>1, <4>2, <4>3 DEF Number
    <3> QED BY <1>10, <3>2, <3>3
  <2>2. ASSUME NEW c \in Client, NEW k \in Number, NEW n \in Number,
               data_socket = <<c, k>>, Waits(<<c, n>>)'
        PROVE  k < n
    <3>1. CASE c = c0 /\ n = k0
      <4>1. Held(<<c, k>>)
        BY <2>2 DEF Held
      <4>2. k <= link[c0]
        BY <1>15, <3>1, <4>1
      <4> QED BY <1>1, <3>1, <4>2 DEF Number
    <3>2. CASE ~(c = c0 /\ n = k0)
      BY <1>12, <2>2, <3>2 DEF Clean, Ordered
    <3> QED BY <3>1, <3>2
  <2>3. ASSUME NEW c \in Client, NEW n \in Number, NEW m \in Number,
               Held(<<c, n>>)', n < m, m <= link'[c]
        PROVE  Waits(<<c, m>>)'
    <3>1. CASE c = c0 /\ m = k0
      BY <1>5, <1>11, <3>1
    <3>2. CASE c = c0 /\ m # k0
      <4>1. m <= link[c] /\ n # k0
        BY <1>1, <1>3, <2>3, <3>2 DEF Number
      <4>2. Held(<<c, n>>)
        BY <1>12, <2>3, <4>1
      <4> QED BY <1>12, <2>3, <3>2, <4>1, <4>2 DEF Clean, Ordered
    <3>3. CASE c # c0
      BY <1>3, <1>12, <2>3, <3>3 DEF Clean, Ordered
    <3> QED BY <3>1, <3>2, <3>3
  <2> QED BY <1>2, <2>1, <2>2, <2>3 DEF Ordered
<1>23. Contents'
  <2> SUFFICES ASSUME NEW c \in Client, NEW n \in Number, NEW i \in DOMAIN wire'[<<c, n>>]
               PROVE  Content(c, n, i)'
    BY DEF Contents
  <2>1. CASE c = c0 /\ n = k0
    <3>1. i = 1 /\ wire'[<<c, n>>][i] = m0 /\ i = Len(wire'[<<c, n>>])
      BY <1>5, <1>9, <2>1
    <3> QED BY <1>2, <1>3, <1>4, <1>13, <2>1, <3>1 DEF Content
  <2>2. CASE c = c0 /\ n # k0
    <3>1. wire'[<<c, n>>] = wire[<<c, n>>]
      BY <1>12, <2>2
    <3>2. Content(c, n, i)
      BY <3>1 DEF Clean, Contents
    <3>3. n < k0
      <4>1. wire[<<c, n>>] # <<>>
        BY <3>1
      <4> QED BY <1>1, <2>2, <4>1 DEF Clean, Unused, Number
    <3>4. st[c] \in {"away", "suspended"} /\ link'[c] = k0
      BY <1>3, <2>2
    <3> QED BY <3>1, <3>2, <3>3, <3>4 DEF Content
  <2>3. CASE c # c0
    <3>1. wire'[<<c, n>>] = wire[<<c, n>>]
      BY <1>12, <2>3
    <3>2. Content(c, n, i)
      BY <3>1 DEF Clean, Contents
    <3> QED BY <1>2, <1>3, <2>3, <3>1, <3>2 DEF Content
  <2> QED BY <2>1, <2>2, <2>3
<1>24. Starts'
  <2> SUFFICES ASSUME NEW c \in Client, NEW n \in Number, Waits(<<c, n>>)', end'[<<c, n>>] # "reset"
               PROVE  wire'[<<c, n>>] # <<>> /\ (Has(c, n, "resume")' <=> n > 1)
    BY DEF Starts
  <2>1. CASE c = c0 /\ n = k0
    <3>1. wire'[<<c, n>>] # <<>> /\ wire'[<<c, n>>][1] = m0
      BY <1>5, <1>9, <2>1
    <3> QED BY <1>4, <1>14, <2>1, <3>1 DEF Has
  <2>2. CASE ~(c = c0 /\ n = k0)
    BY <1>12, <2>2 DEF Clean, Starts, Has
  <2> QED BY <2>1, <2>2
<1>25. Suspending'
  <2> SUFFICES ASSUME NEW c \in Client, NEW n \in Number, Held(<<c, n>>)', n < link'[c]
               PROVE  Ends(c, n)'
    BY DEF Suspending
  <2>1. ~(c = c0 /\ n = k0)
    BY <1>1, <1>3 DEF Number
  <2>2. Held(<<c, n>>) /\ (Ends(c, n)' <=> Ends(c, n))
    BY <1>12, <2>1 DEF Ends
  <2>3. CASE n < link[c]
    BY <2>2, <2>3 DEF Clean, Suspending
  <2>4. CASE ~(n < link[c])
    <3>1. c = c0 /\ n = link[c0]
      BY <1>1, <1>3, <2>4 DEF Number
    <3>2. req = "resume"
      BY <1>14, <3>1 DEF Number
    <3> QED BY <1>17, <2>2, <3>1, <3>2
  <2> QED BY <2>3, <2>4
<1>26. Serving'
  <2> SUFFICES ASSUME NEW c \in Client, NEW n \in Number, data_socket = <<c, n>>
               PROVE  ~(c = c0 /\ n = k0)
    BY <1>2, <1>12 DEF Clean, Serving, Has
  <2> QED BY <1>5, <1>6 DEF Held
<1>27. Expected'
  <2> SUFFICES ASSUME NEW c \in Client, NEW n \in Number, Waits(<<c, n>>)'
               PROVE  /\ n = 1 => c \notin suspended
                      /\ n > 1 /\ ~Held(<<c, n - 1>>)' /\ (\A k \in Number : data_socket # <<c, k>>)
                            => c \in suspended
    BY <1>2 DEF Expected
  <2>1. CASE c = c0 /\ n = k0
    <3>1. n = 1 => c \notin suspended
      BY <1>1, <2>1 DEF Clean, Unused
    <3>2. n > 1 => n - 1 = link[c0]
      BY <1>1, <2>1
    <3> QED BY <1>1, <1>11, <1>14, <1>18, <2>1, <3>1, <3>2
  <2>2. CASE ~(c = c0 /\ n = k0)
    BY <1>11, <1>12, <2>2 DEF Clean, Expected
  <2> QED BY <2>1, <2>2
<1>28. Clients'
  <2> SUFFICES ASSUME NEW c \in Client PROVE ClientKept(c)'
    BY DEF Clients
  <2>1. CASE c = c0
    <3>1. Current(c)' = l0
      BY <1>3, <2>1 DEF Current, l0
    <3>2. Held(Current(c))' /\ st'[c] # "suspended"
      BY <1>3, <1>11, <2>1, <3>1
    <3> QED BY <3>2 DEF ClientKept
  <2>2. CASE c # c0
    <3>1. Current(c)' = Current(c) /\ st'[c] = st[c] /\ link'[c] = link[c]
      BY <1>3, <2>2 DEF Current
    <3>2. st[c] # "away" => (Ends(c, link[c])' <=> Ends(c, link[c])) /\ (Held(Current(c))' <=> Held(Current(c)))
      <4> SUFFICES ASSUME st[c] # "away"
                   PROVE (Ends(c, link[c])' <=> Ends(c, link[c])) /\ (Held(Current(c))' <=> Held(Current(c)))
        OBVIOUS
      <4>1. link[c] \in Number
        BY SessionAssumption DEF TypeOK, Places, Number
      <4>2. wire'[<<c, link[c]>>] = wire[<<c, link[c]>>]
        BY <1>12, <2>2, <4>1
      <4>3. Held(<<c, link[c]>>)' <=> Held(<<c, link[c]>>)
        BY <1>12, <2>2, <3>1, <4>1
      <4>4. Current(c) = <<c, link[c]>>
        BY DEF Current
      <4> QED BY <3>1, <4>2, <4>3, <4>4 DEF Ends
    <3>3. ClientKept(c)
      BY DEF Clean, Clients
    <3> QED BY <1>2, <3>1, <3>2, <3>3 DEF ClientKept
  <2> QED BY <2>1, <2>2
<1>29. Numbered'
  <2>1. Consecutive'
    <3> SUFFICES ASSUME NEW c \in Client, NEW n \in Number, NEW i \in DOMAIN wire'[<<c, n>>],
                        NEW j \in DOMAIN wire'[<<c, n>>], j = i + 1
                 PROVE  wire'[<<c, n>>][j].no = wire'[<<c, n>>][i].no + 1
      BY DEF Consecutive
    <3>1. ~(c = c0 /\ n = k0)
      BY <1>5, <1>9
    <3> QED BY <1>12, <3>1 DEF Clean, Numbered, Consecutive
  <2>2. NextServed'
    <3> SUFFICES ASSUME NEW c \in Client, NEW n \in Number, data_socket = <<c, n>>
                 PROVE  ~(c = c0 /\ n = k0)
      BY <1>2, <1>12 DEF Clean, Numbered, NextServed
    <3> QED BY <1>5, <1>6 DEF Held
  <2>3. NextAccepted'
    <3> SUFFICES ASSUME NEW c \in Client, NEW n \in Number, Waits(<<c, n>>)', end'[<<c, n>>] # "reset"
                 PROVE  /\ Alone(c, n)' => wire'[<<c, n>>][1].no = done[c] + 1
                        /\ ~Alone(c, n)' => wire'[<<c, n>>][1].no = Last(c, n - 1)' + 1
      BY <1>2 DEF NextAccepted
    <3>1. CASE c = c0 /\ n = k0
      <4>1. wire'[<<c, n>>][1].no = sent[c0] + 1
        BY <1>4, <1>5, <1>9, <3>1
      <4>2. CASE req # "resume"
        <5>1. n = 1 /\ sent[c0] = done[c0]
          BY <1>1, <1>3, <1>14, <3>1, <4>2 DEF Clean, Numbered, AllDone
        <5> QED BY <3>1, <4>1, <5>1 DEF Alone
      <4>3. CASE req = "resume" /\ ~Held(<<c0, link[c0]>>)
        <5>1. n - 1 = link[c0] /\ n - 1 # k0 /\ n - 1 \in Number
          BY <1>1, <1>16, <3>1, <4>3
        <5>2. ~Held(<<c, n - 1>>)'
          BY <1>12, <3>1, <4>3, <5>1
        <5>3. sent[c0] = done[c0]
          BY <1>3, <1>16, <4>3 DEF Clean, Numbered, AllDone
        <5> QED BY <3>1, <4>1, <5>2, <5>3 DEF Alone
      <4>4. CASE req = "resume" /\ Held(<<c0, link[c0]>>)
        <5>1. n - 1 = link[c0] /\ n - 1 # k0 /\ n - 1 \in Number /\ n # 1
          BY <1>1, <1>14, <1>16, <3>1, <4>4
        <5>2. Held(<<c, n - 1>>)' /\ wire'[<<c, n - 1>>] = wire[<<c, n - 1>>]
          BY <1>12, <3>1, <4>4, <5>1
        <5>3. wire[Current(c0)] # <<>>
          BY <1>16, <1>17, <4>4 DEF Ends
        <5>4. sent[c0] = Last(c0, link[c0])
          <6>1. st[c0] # "away" /\ Held(Current(c0)) /\ end[Current(c0)] # "reset"
            BY <1>3, <1>13, <1>16, <4>4
          <6> QED BY <5>3, <6>1 DEF Clean, Numbered, LastSent
        <5> QED BY <3>1, <4>1, <5>1, <5>2, <5>4 DEF Alone, Last
      <4> QED BY <4>2, <4>3, <4>4
    <3>2. CASE ~(c = c0 /\ n = k0)
      <4>1. Waits(<<c, n>>) /\ wire'[<<c, n>>] = wire[<<c, n>>] /\ end[<<c, n>>] # "reset"
        BY <1>12, <3>2
      <4>2. n # 1 => n - 1 \in Number /\ ~(c = c0 /\ n - 1 = k0)
        <5>1. n <= link[c]
          BY <1>15, <4>1 DEF Held
        <5> QED BY <1>1, <5>1, SessionAssumption DEF Number
      <4>3. Alone(c, n)' = Alone(c, n)
        BY <1>12, <4>2 DEF Alone
      <4>4. n # 1 => Last(c, n - 1)' = Last(c, n - 1)
        BY <1>12, <4>2 DEF Last
      <4> QED BY <4>1, <4>3, <4>4 DEF Clean, Numbered, NextAccepted, Alone
    <3> QED BY <3>1, <3>2
  <2>4. LastSent'
    <3> SUFFICES ASSUME NEW c \in Client, st'[c] # "away", Held(Current(c))', end'[Current(c)'] # "reset"
                 PROVE  /\ wire'[Current(c)'] = <<>> => sent'[c] = done[c]
                        /\ wire'[Current(c)'] # <<>> => sent'[c] = Last(c, link[c])'
      BY <1>2 DEF LastSent
    <3>1. CASE c = c0
      <4>1. Current(c)' = l0 /\ link'[c] = k0
        BY <1>3, <3>1 DEF Current, l0
      <4>2. Last(c, link[c])' = m0.no
        BY <1>9, <3>1, <4>1 DEF Last, l0
      <4> QED BY <1>3, <1>4, <1>9, <3>1, <4>1, <4>2
    <3>2. CASE c # c0
      <4>1. st[c] # "away" /\ link'[c] = link[c] /\ Current(c)' = Current(c)
        BY <1>3, <3>2 DEF Current
      <4>2. link[c] \in Number /\ Current(c) = <<c, link[c]>>
        BY <4>1, SessionAssumption DEF TypeOK, Places, Number, Current
      <4>3. wire'[Current(c)] = wire[Current(c)] /\ end[Current(c)] # "reset" /\ Held(Current(c))
        BY <1>12, <3>2, <4>1, <4>2
      <4> QED BY <1>2, <1>3, <3>2, <4>1, <4>2, <4>3 DEF Clean, Numbered, LastSent, Last
    <3> QED BY <3>1, <3>2
  <2>5. AllDone'
    <3> SUFFICES ASSUME NEW c \in Client,
                        st'[c] = "away" \/ (st'[c] = "suspended" /\ ~Held(Current(c))')
                 PROVE  sent'[c] = done[c]
      BY <1>2 DEF AllDone
    <3>1. c # c0
      BY <1>3
    <3>2. Held(Current(c)) => Held(Current(c))'
      BY <1>3, <1>11, <3>1 DEF Current
    <3> QED BY <1>3, <3>1, <3>2 DEF Clean, Numbered, AllDone
  <2> QED BY <2>1, <2>2, <2>3, <2>4, <2>5 DEF Numbered
<1>30. DepthIsSuspended'
  BY <1>2 DEF Clean, DepthIsSuspended
<1>31. AnswersMatch'
  BY <1>2, <1>3, <1>13 DEF Clean, AnswersMatch, Number
<1> QED BY <1>20, <1>21, <1>22, <1>23, <1>24, <1>25, <1>26, <1>27, <1>28, <1>29, <1>30, <1>31
        DEF Clean

-----------------------------------------------------------------------------
(* The server accepts a link *)

LEMMA SuspendedFinite ==
    ASSUME TypeOK
    PROVE  IsFiniteSet(suspended) /\ Cardinality(suspended) \in Nat
BY SessionAssumption, FS_Subset, FS_CardinalityType DEF TypeOK

LEMMA AcceptClean ==
    ASSUME TypeOK, Places, Clean, ~again, Accept
    PROVE  Clean'
<1> DEFINE h == backlog[1]
           c0 == h[1]
           n0 == h[2]
<1>1. UNCHANGED <<st, link, sent, wire, end, reply, done, suspended, again>>
  BY DEF Accept, client, history
<1>2. data_socket = None /\ depth' = depth + 1 /\ pc' = "get" /\ pc \in {"main", "accept"}
  BY DEF Accept, Places
<1>3. /\ Len(backlog) \in Nat \ {0} /\ DOMAIN backlog = 1..Len(backlog)
      /\ DOMAIN backlog' = 1..(Len(backlog) - 1)
      /\ \A i \in 1..(Len(backlog) - 1) : backlog'[i] = backlog[i + 1]
      /\ h \in Link /\ data_socket' = h
  <2>1. backlog \in Seq(Link) /\ backlog # <<>> /\ backlog' = Tail(backlog)
        /\ data_socket' = Head(backlog)
    BY DEF Accept, TypeOK
  <2> QED BY <2>1, TailShape, SeqShape
<1>4. h = <<c0, n0>> /\ c0 \in Client /\ n0 \in Number /\ n0 \in Nat
  BY <1>3, LinkPair DEF Number
<1>5. \A c \in Client, n \in Number :
          /\ <<c, n>> \in Link /\ data_socket # <<c, n>> /\ None # <<c, n>>
          /\ (<<c, n>> = h <=> c = c0 /\ n = n0)
  <2>1. \A c, n : <<c, n>> = h <=> c = c0 /\ n = n0
    BY <1>4
  <2> QED BY <1>2, <2>1, LinkPair
<1>6. Waits(h) /\ Held(h)
  BY <1>3 DEF Waits, Held
<1> HIDE DEF h, c0, n0
<1>7. \A l \in Link : (Waits(l)' <=> Waits(l) /\ l # h) /\ (Held(l)' <=> Held(l))
  <2> SUFFICES ASSUME NEW l \in Link
               PROVE  (Waits(l)' <=> Waits(l) /\ l # h) /\ (Held(l)' <=> Held(l))
    OBVIOUS
  <2>1. ASSUME Waits(l)' PROVE Waits(l) /\ l # h
    <3>1. PICK i \in 1..(Len(backlog) - 1) : backlog'[i] = l
      BY <1>3, <2>1 DEF Waits
    <3>2. i + 1 \in DOMAIN backlog /\ backlog[i + 1] = l /\ 1 \in DOMAIN backlog /\ 1 < i + 1
      BY <1>3, <3>1
    <3>3. backlog[1][1] = backlog[i + 1][1] => backlog[1][2] < backlog[i + 1][2]
      BY <3>2 DEF Clean, Ordered
    <3>4. l # h
      BY <1>4, <3>2, <3>3 DEF h, c0, n0
    <3> QED BY <3>2, <3>4 DEF Waits
  <2>2. ASSUME Waits(l), l # h PROVE Waits(l)'
    <3>1. PICK i \in 1..Len(backlog) : backlog[i] = l
      BY <1>3, <2>2 DEF Waits
    <3>2. i # 1
      BY <2>2, <3>1 DEF h
    <3>3. i - 1 \in 1..(Len(backlog) - 1) /\ (i - 1) + 1 = i
      BY <1>3, <3>1, <3>2
    <3>4. backlog'[i - 1] = l
      BY <1>3, <3>1, <3>3
    <3> QED BY <1>3, <3>3, <3>4 DEF Waits
  <2>3. Held(l) <=> Waits(l)
    BY <1>2, LinkPair DEF Held
  <2>4. Held(l)' <=> Waits(l)' \/ l = h
    BY <1>3 DEF Held
  <2> QED BY <1>6, <2>1, <2>2, <2>3, <2>4
<1>8. \A c \in Client, n \in Number :
          /\ Waits(<<c, n>>)' => Waits(<<c, n>>) /\ <<c, n>> # h
          /\ Held(<<c, n>>)' <=> Held(<<c, n>>)
  BY <1>5, <1>7
<1>9. \A n \in Number : Waits(<<c0, n>>) => n0 <= n
  <2> SUFFICES ASSUME NEW n \in Number, Waits(<<c0, n>>) PROVE n0 <= n
    OBVIOUS
  <2>1. PICK i \in 1..Len(backlog) : backlog[i] = <<c0, n>>
    BY <1>3 DEF Waits
  <2>2. backlog[i][1] = c0 /\ backlog[i][2] = n
    BY <2>1
  <2>3. CASE i = 1
    BY <1>4, <2>2, <2>3 DEF h, n0
  <2>4. CASE i > 1
    <3>1. backlog[1][1] = backlog[i][1] => backlog[1][2] < backlog[i][2]
      BY <1>3, <2>4 DEF Clean, Ordered
    <3> QED BY <1>4, <2>2, <3>1 DEF h, c0, n0, Number
  <2> QED BY <1>3, <2>1, <2>3, <2>4
<1>10. Alone(c0, n0) /\ (n0 > 1 => ~Held(<<c0, n0 - 1>>))
  <2>1. ASSUME n0 > 1 PROVE ~Held(<<c0, n0 - 1>>)
    <3>1. n0 - 1 \in Number /\ ~(n0 <= n0 - 1)
      BY <1>4, <2>1, SessionAssumption DEF Number
    <3> QED BY <1>4, <1>5, <1>9, <3>1 DEF Held
  <2> QED BY <1>4, <2>1 DEF Alone, Number
<1>11. Unused'
  BY <1>1, <1>8 DEF Clean, Unused
<1>12. Resets'
  BY <1>1 DEF Clean, Resets
<1>13. Ordered'
  <2>1. ASSUME NEW i \in DOMAIN backlog', NEW j \in DOMAIN backlog', i < j,
               backlog'[i][1] = backlog'[j][1]
        PROVE  backlog'[i][2] < backlog'[j][2]
    <3>1. /\ i + 1 \in DOMAIN backlog /\ j + 1 \in DOMAIN backlog /\ i + 1 < j + 1
          /\ backlog'[i] = backlog[i + 1] /\ backlog'[j] = backlog[j + 1]
      BY <1>3, <2>1
    <3> QED BY <2>1, <3>1 DEF Clean, Ordered
  <2>2. ASSUME NEW c \in Client, NEW k \in Number, NEW n \in Number,
               data_socket' = <<c, k>>, Waits(<<c, n>>)'
        PROVE  k < n
    <3>1. c = c0 /\ k = n0 /\ Waits(<<c0, n>>) /\ n # n0
      BY <1>3, <1>5, <1>8, <2>2
    <3> QED BY <1>9, <3>1 DEF Number
  <2>3. ASSUME NEW c \in Client, NEW n \in Number, NEW m \in Number,
               Held(<<c, n>>)', n < m, m <= link[c]
        PROVE  Waits(<<c, m>>)'
    <3>1. Held(<<c, n>>) /\ Waits(<<c, n>>) /\ Waits(<<c, m>>)
      <4>1. Held(<<c, n>>)
        BY <1>8, <2>3
      <4> QED BY <1>5, <2>3, <4>1 DEF Clean, Ordered, Held
    <3>2. <<c, m>> # h
      <4>1. ASSUME <<c, m>> = h PROVE FALSE
        <5>1. c = c0 /\ m = n0
          BY <1>5, <4>1
        <5> QED BY <1>9, <2>3, <3>1, <5>1 DEF Number
      <4> QED BY <4>1
    <3> QED BY <1>5, <1>7, <3>1, <3>2
  <2> QED BY <1>1, <2>1, <2>2, <2>3 DEF Ordered
<1>14. Contents'
  <2>1. \A c, n, i : Content(c, n, i)' = Content(c, n, i)
    BY <1>1 DEF Content
  <2> QED BY <1>1, <2>1 DEF Clean, Contents
<1>15. Starts'
  BY <1>1, <1>8 DEF Clean, Starts, Has
<1>16. Suspending'
  BY <1>1, <1>8 DEF Clean, Suspending, Ends
<1>17. Serving'
  <2> SUFFICES ASSUME NEW c \in Client, NEW n \in Number, data_socket' = <<c, n>>, end[<<c, n>>] # "reset"
               PROVE  c \in suspended <=> Has(c, n, "resume")
    BY <1>1 DEF Serving, Has
  <2>1. c = c0 /\ n = n0 /\ Waits(<<c, n>>)
    BY <1>3, <1>4, <1>5, <1>6
  <2>2. Has(c, n, "resume") <=> n > 1
    BY <2>1 DEF Clean, Starts
  <2>3. n = 1 => c \notin suspended
    BY <2>1 DEF Clean, Expected
  <2>4. n > 1 => c \in suspended
    BY <1>5, <1>10, <2>1 DEF Clean, Expected
  <2> QED BY <2>2, <2>3, <2>4 DEF Number
<1>18. Expected'
  <2> SUFFICES ASSUME NEW c \in Client, NEW n \in Number, Waits(<<c, n>>)'
               PROVE  /\ n = 1 => c \notin suspended
                      /\ n > 1 /\ ~Held(<<c, n - 1>>)' => c \in suspended
    BY <1>1 DEF Expected
  <2>1. Waits(<<c, n>>)
    BY <1>8
  <2>2. n > 1 => (Held(<<c, n - 1>>)' <=> Held(<<c, n - 1>>))
    <3>1. n > 1 => n - 1 \in Number
      BY SessionAssumption DEF Number
    <3> QED BY <1>8, <3>1
  <2> QED BY <1>5, <2>1, <2>2 DEF Clean, Expected
<1>19. \A c \in Client : st[c] # "away" => (Held(Current(c))' <=> Held(Current(c)))
  <2> SUFFICES ASSUME NEW c \in Client, st[c] # "away" PROVE Held(Current(c))' <=> Held(Current(c))
    OBVIOUS
  <2>1. Current(c) \in Link /\ Current(c)' = Current(c)
    BY <1>1, CurrentLink DEF Current
  <2> QED BY <1>7, <2>1
<1>20. Clients'
  <2> SUFFICES ASSUME NEW c \in Client PROVE ClientKept(c)'
    BY DEF Clients
  <2>1. ClientKept(c) /\ Current(c)' = Current(c)
    BY <1>1 DEF Clean, Clients, Current
  <2> QED BY <1>1, <1>19, <2>1 DEF ClientKept, Ends
<1>21. Numbered'
  <2>1. Consecutive'
    BY <1>1 DEF Clean, Numbered, Consecutive
  <2>2. NextServed'
    <3> SUFFICES ASSUME NEW c \in Client, NEW n \in Number, data_socket' = <<c, n>>, wire[<<c, n>>] # <<>>
                 PROVE  wire[<<c, n>>][1].no = done[c] + 1
      BY <1>1 DEF NextServed
    <3>1. c = c0 /\ n = n0 /\ Waits(<<c, n>>)
      BY <1>3, <1>4, <1>5, <1>6
    <3>2. end[<<c, n>>] # "reset"
      BY DEF Clean, Resets
    <3> QED BY <1>10, <3>1, <3>2 DEF Clean, Numbered, NextAccepted
  <2>3. \A c \in Client, n \in Number :
            Waits(<<c, n>>) => Alone(c, n)' = Alone(c, n) /\ Last(c, n - 1)' = Last(c, n - 1)
    <3> SUFFICES ASSUME NEW c \in Client, NEW n \in Number
                 PROVE  Alone(c, n)' = Alone(c, n) /\ Last(c, n - 1)' = Last(c, n - 1)
      OBVIOUS
    <3>1. n = 1 \/ n - 1 \in Number
      BY SessionAssumption DEF Number
    <3>2. Last(c, n - 1)' = Last(c, n - 1)
      BY <1>1 DEF Last
    <3> QED BY <1>8, <3>1, <3>2 DEF Alone
  <2>4. NextAccepted'
    BY <1>1, <1>8, <2>3 DEF Clean, Numbered, NextAccepted
  <2>5. LastSent'
    <3>1. \A c : Current(c)' = Current(c) /\ Last(c, link[c])' = Last(c, link[c])
      BY <1>1 DEF Current, Last
    <3> QED BY <1>1, <1>19, <3>1 DEF Clean, Numbered, LastSent
  <2>6. AllDone'
    BY <1>1, <1>19 DEF Clean, Numbered, AllDone
  <2> QED BY <2>1, <2>2, <2>4, <2>5, <2>6 DEF Numbered
<1>22. DepthIsSuspended'
  <2>1. depth = Cardinality(suspended)
    BY <1>2, SuspendedFinite DEF Clean, DepthIsSuspended
  <2> QED BY <1>1, <1>2, <2>1, SuspendedFinite DEF DepthIsSuspended
<1>23. AnswersMatch'
  BY <1>1 DEF Clean, AnswersMatch
<1> QED BY <1>11, <1>12, <1>13, <1>14, <1>15, <1>16, <1>17, <1>18, <1>20, <1>21, <1>22, <1>23
        DEF Clean

-----------------------------------------------------------------------------
(* The server executes a request *)

LEMMA ResumeReturns ==
    ASSUME TypeOK, Clean, ~again, pc = "get", suspended # {}, Return(FALSE)
    PROVE  UNCHANGED <<pc, data_socket>> /\ depth' = depth - 1
<1>1. Cardinality(suspended) # 0
  BY SuspendedFinite, FS_EmptySet
<1>2. depth # 1
  BY <1>1, SuspendedFinite DEF Clean, DepthIsSuspended
<1> QED BY <1>2 DEF Return

LEMMA ServeClean ==
    ASSUME TypeOK, Places, Clean, ~again, Serve
    PROVE  Clean'
<1>0. PICK h \in Link : h = data_socket
  BY DEF Serve, TypeOK, Places
<1> DEFINE c0 == h[1]
           n0 == h[2]
           m0 == wire[h][1]
           k0 == Len(wire[h])
           stays == m0.req \in {"connect", "ask", "tell", "resume"}
<1>1. UNCHANGED <<st, link, sent, end, backlog, again>> /\ pc = "get" /\ wire[h] # <<>>
  BY <1>0 DEF Serve, client
<1>2. /\ h = <<c0, n0>> /\ c0 \in Client /\ n0 \in Number /\ n0 \in Nat
      /\ data_socket # None
  BY <1>0, <1>1, LinkPair DEF Places, Number
<1>3. \A c \in Client, n \in Number : <<c, n>> \in Link /\ (<<c, n>> = h <=> c = c0 /\ n = n0)
  <2>1. \A c, n : <<c, n>> = h <=> c = c0 /\ n = n0
    BY <1>2
  <2> QED BY <2>1, LinkPair
<1>4. /\ k0 \in Nat \ {0} /\ DOMAIN wire[h] = 1..k0 /\ 1 \in 1..k0
      /\ Head(wire[h]) = m0 /\ m0 \in Message /\ m0.req \in Request /\ m0.no \in Nat
      /\ Len(wire'[h]) = k0 - 1 /\ DOMAIN wire'[h] = 1..(k0 - 1) /\ (wire'[h] = <<>> <=> k0 = 1)
      /\ \A i \in 1..(k0 - 1) : wire'[h][i] = wire[h][i + 1]
  <2>1. wire[h] \in Seq(Message) /\ wire'[h] = Tail(wire[h])
    BY <1>0, Shapes DEF Serve, TypeOK
  <2>2. /\ Len(wire[h]) \in Nat \ {0} /\ DOMAIN wire[h] = 1..Len(wire[h])
        /\ Head(wire[h]) = wire[h][1] /\ wire[h][1] \in Message
        /\ Tail(wire[h]) \in Seq(Message) /\ Len(Tail(wire[h])) = Len(wire[h]) - 1
        /\ DOMAIN Tail(wire[h]) = 1..(Len(wire[h]) - 1)
        /\ \A i \in 1..(Len(wire[h]) - 1) : Tail(wire[h])[i] = wire[h][i + 1]
    BY <1>1, <2>1, TailShape, SeqShape
  <2>3. Tail(wire[h]) = <<>> <=> Len(Tail(wire[h])) = 0
    BY <2>2, SeqShape
  <2>4. m0.req \in Request /\ m0.no \in Nat
    BY <2>2 DEF Message
  <2> QED BY <2>1, <2>2, <2>3, <2>4
<1>5. Execute(m0.req, m0.no)
  BY <1>0, <1>4 DEF Serve
<1>6. /\ done'[c0] = m0.no /\ \A c \in Client \ {c0} : done'[c] = done[c]
      /\ m0.req = "suspend" => suspended' = suspended \cup {c0}
      /\ m0.req = "resume" => suspended' = suspended \ {c0}
      /\ m0.req \notin {"suspend", "resume"} => suspended' = suspended
  BY <1>0, <1>2, <1>4 DEF Serve, TypeOK
<1>7. \A l \in Link \ {h} : wire'[l] = wire[l] /\ reply'[l] = reply[l]
  <2>1. \A l \in Link \ {h} : wire'[l] = wire[l]
    BY <1>0 DEF Serve, TypeOK
  <2>2. \A l \in Link \ {h} : reply'[l] = reply[l]
    BY <1>0, <1>5 DEF Execute, TypeOK
  <2> QED BY <2>1, <2>2
<1>8. Held(h) /\ end[h] # "reset"
  <2>1. end[<<c0, n0>>] # "reset"
    BY <1>1, <1>2 DEF Clean, Resets
  <2> QED BY <1>0, <1>2, <2>1 DEF Held
<1>9. Content(c0, n0, 1)
  BY <1>2, <1>4 DEF Clean, Contents
<1>10. \A i \in 1..k0 : Content(c0, n0, i)
  BY <1>2, <1>4 DEF Clean, Contents
<1>11. m0.no = done[c0] + 1 /\ done[c0] \in Nat
  BY <1>0, <1>1, <1>2 DEF Clean, Numbered, NextServed, TypeOK
<1>12. c0 \in suspended <=> m0.req = "resume"
  <2>1. Has(c0, n0, "resume") <=> m0.req = "resume"
    BY <1>1, <1>2 DEF Has
  <2> QED BY <1>0, <1>2, <1>8, <2>1 DEF Clean, Serving
<1>13. depth = Cardinality(suspended) + 1
  BY <1>1 DEF Clean, DepthIsSuspended
<1>14. m0.req \in {"old", "disconnect", "suspend"} => k0 = 1
  <2>1. wire[<<c0, n0>>][1] = m0 /\ Len(wire[<<c0, n0>>]) = k0
    BY <1>2
  <2> QED BY <1>9, <2>1 DEF Content
<1>15. m0.req \in {"connect", "old", "ask"} =>
          k0 = 1 /\ n0 = link[c0] /\ m0.no = sent[c0] /\ st[c0] \in {"linking", "asking", "gone"}
          /\ reply[h] = <<>> /\ reply'[h] = <<[no |-> m0.no, ok |-> m0.req # "old"]>>
  <2> SUFFICES ASSUME m0.req \in {"connect", "old", "ask"}
               PROVE  k0 = 1 /\ n0 = link[c0] /\ m0.no = sent[c0]
                      /\ st[c0] \in {"linking", "asking", "gone"}
                      /\ reply[h] = <<>> /\ reply'[h] = <<[no |-> m0.no, ok |-> m0.req # "old"]>>
    OBVIOUS
  <2>1. wire[<<c0, n0>>][1] = m0 /\ Len(wire[<<c0, n0>>]) = k0 /\ reply[<<c0, n0>>] = reply[h]
    BY <1>2
  <2>2. k0 = 1 /\ n0 = link[c0] /\ m0.no = sent[c0] /\ st[c0] \in {"linking", "asking", "gone"}
        /\ reply[h] = <<>>
    BY <1>9, <2>1 DEF Content
  <2>3. reply'[h] = Append(reply[h], [no |-> m0.no, ok |-> m0.req # "old"])
    BY <1>0, <1>2, <1>5, <1>8 DEF Execute, TypeOK
  <2> QED BY <2>2, <2>3
<1>16. m0.req \notin {"connect", "old", "ask"} => reply' = reply
  BY <1>5 DEF Execute
<1>17. /\ m0.req = "old" => n0 = link[c0] /\ st[c0] \in {"linking", "gone"}
       /\ m0.req = "disconnect" => n0 = link[c0] /\ st[c0] = "gone"
       /\ m0.req = "suspend" => n0 < link[c0] \/ st[c0] \in {"suspended", "gone"}
  <2>1. wire[<<c0, n0>>][1] = m0
    BY <1>2
  <2> QED BY <1>9, <2>1 DEF Content
<1>18. /\ stays => data_socket' = h /\ pc' = "get"
       /\ ~stays => data_socket' = None /\ pc' \notin {"get", "stuck"}
       /\ m0.req \in {"connect", "ask", "tell", "suspend"} => depth' = depth
       /\ m0.req \in {"old", "disconnect", "resume"} => depth' = depth - 1
  <2>1. CASE m0.req \in {"old", "disconnect"}
    <3>1. Return(TRUE)
      BY <1>5, <2>1 DEF Execute
    <3> QED BY <2>1, <3>1 DEF Return
  <2>2. CASE m0.req = "suspend"
    <3>1. WaitForResume
      BY <1>5, <2>2 DEF Execute
    <3> QED BY <2>2, <3>1 DEF WaitForResume
  <2>3. CASE m0.req = "resume"
    <3>1. Return(FALSE)
      BY <1>5, <2>3 DEF Execute
    <3>2. UNCHANGED <<pc, data_socket>> /\ depth' = depth - 1
      BY <1>1, <1>12, <2>3, <3>1, ResumeReturns
    <3> QED BY <1>0, <1>1, <2>3, <3>2
  <2>4. CASE m0.req \in {"connect", "ask", "tell"}
    <3>1. Stay
      BY <1>5, <2>4 DEF Execute
    <3> QED BY <1>0, <1>1, <2>4, <3>1 DEF Stay
  <2> QED BY <1>4, <2>1, <2>2, <2>3, <2>4 DEF Request
<1> HIDE DEF c0, n0, m0, k0, stays
<1>19. \A l : Waits(l)' = Waits(l)
  BY <1>1 DEF Waits
<1>20. \A n \in Number : Waits(<<c0, n>>) => n0 < n
  BY <1>0, <1>2 DEF Clean, Ordered
<1>21. ~Waits(h)
  BY <1>2, <1>20
<1>22. \A c \in Client, n \in Number :
          /\ Held(<<c, n>>)' => Held(<<c, n>>)
          /\ ~(c = c0 /\ n = n0) =>
                (Held(<<c, n>>) <=> Waits(<<c, n>>)) /\ (Held(<<c, n>>)' <=> Waits(<<c, n>>))
                /\ wire'[<<c, n>>] = wire[<<c, n>>] /\ reply'[<<c, n>>] = reply[<<c, n>>]
  <2> SUFFICES ASSUME NEW c \in Client, NEW n \in Number
               PROVE  /\ Held(<<c, n>>)' => Held(<<c, n>>)
                      /\ ~(c = c0 /\ n = n0) =>
                            (Held(<<c, n>>) <=> Waits(<<c, n>>)) /\ (Held(<<c, n>>)' <=> Waits(<<c, n>>))
                            /\ wire'[<<c, n>>] = wire[<<c, n>>] /\ reply'[<<c, n>>] = reply[<<c, n>>]
    OBVIOUS
  <2>1. <<c, n>> \in Link /\ (<<c, n>> = h <=> c = c0 /\ n = n0) /\ <<c, n>> # None
    BY <1>3, LinkPair
  <2>2. data_socket' = h \/ data_socket' = None
    BY <1>18
  <2>3. Held(<<c, n>>) <=> <<c, n>> = h \/ Waits(<<c, n>>)
    BY <1>0 DEF Held
  <2>4. Held(<<c, n>>)' => <<c, n>> = h \/ Waits(<<c, n>>)
    BY <1>19, <2>1, <2>2 DEF Held
  <2>5. Waits(<<c, n>>) => Held(<<c, n>>)'
    BY <1>19 DEF Held
  <2> QED BY <1>7, <2>1, <2>3, <2>4, <2>5
<1>23. Held(h)' <=> stays
  <2>1. Held(h)' <=> h = data_socket' \/ Waits(h)
    BY <1>19 DEF Held
  <2> QED BY <1>2, <1>18, <1>21, <2>1, LinkPair
<1>25. Ends(c0, n0) /\ stays => k0 > 1 /\ Ends(c0, n0)'
  <2> SUFFICES ASSUME Ends(c0, n0), stays PROVE k0 > 1 /\ Ends(c0, n0)'
    OBVIOUS
  <2>1. wire[h][k0].req = "suspend"
    BY <1>2 DEF Ends, k0
  <2>2. k0 > 1
    BY <1>4, <2>1 DEF m0, stays
  <2>3. wire'[h] # <<>> /\ wire'[h][Len(wire'[h])] = wire[h][k0]
    <3>1. k0 - 1 \in 1..(k0 - 1) /\ (k0 - 1) + 1 = k0
      BY <1>4, <2>2
    <3> QED BY <1>4, <2>2, <3>1
  <2>4. \A c, n : Ends(c, n)' <=> wire'[<<c, n>>] # <<>> /\ wire'[<<c, n>>][Len(wire'[<<c, n>>])].req = "suspend"
    BY DEF Ends
  <2> QED BY <1>2, <2>1, <2>2, <2>3, <2>4
<1>26. n0 <= link[c0] /\ link[c0] # 0 /\ link[c0] \in Number /\ st[c0] # "away"
  <2>1. n0 <= link[c0]
    BY <1>2, <1>8 DEF Clean, Unused, TypeOK
  <2>2. link[c0] \in 0..Links /\ link[c0] # 0
    BY <1>2, <2>1, SessionAssumption DEF TypeOK, Number
  <2> QED BY <1>2, <2>1, <2>2, SessionAssumption DEF Places, Number
<1>27. \A n \in Number : n0 < n /\ n <= link[c0] => Waits(<<c0, n>>)
  BY <1>2, <1>8 DEF Clean, Ordered
<1>28. c0 \notin suspended' \/ m0.req = "suspend"
  BY <1>6, <1>12
<1>29. \A c \in Client \ {c0} : c \in suspended' <=> c \in suspended
  <2>1. m0.req \in {"suspend", "resume"} \/ m0.req \notin {"suspend", "resume"}
    OBVIOUS
  <2> QED BY <1>6, <2>1
<1>30. Unused'
  <2> SUFFICES ASSUME NEW c \in Client
               PROVE  /\ link[c] = 0 => c \notin suspended'
                      /\ \A n \in Number : n > link[c] =>
                            wire'[<<c, n>>] = <<>> /\ reply'[<<c, n>>] = <<>> /\ ~Held(<<c, n>>)'
    BY <1>1 DEF Unused
  <2>1. link[c] = 0 => c \notin suspended'
    BY <1>26, <1>29 DEF Clean, Unused
  <2>2. ASSUME NEW n \in Number, n > link[c]
        PROVE  wire'[<<c, n>>] = <<>> /\ reply'[<<c, n>>] = <<>> /\ ~Held(<<c, n>>)'
    <3>1. ~(c = c0 /\ n = n0)
      BY <1>2, <1>26, <2>2 DEF Number
    <3> QED BY <1>22, <2>2, <3>1 DEF Clean, Unused
  <2> QED BY <2>1, <2>2
<1>31. Resets'
  <2> SUFFICES ASSUME NEW c \in Client, NEW n \in Number, end[<<c, n>>] = "reset"
               PROVE  wire'[<<c, n>>] = <<>> /\ st[c] = "gone" /\ n = link[c]
    BY <1>1 DEF Resets
  <2>1. ~(c = c0 /\ n = n0)
    BY <1>2, <1>8
  <2> QED BY <1>22, <2>1 DEF Clean, Resets
<1>32. Ordered'
  <2>1. \A c \in Client, k \in Number : data_socket' = <<c, k>> => data_socket = <<c, k>>
    BY <1>0, <1>18, LinkPair
  <2> QED BY <1>1, <1>19, <1>22, <2>1 DEF Clean, Ordered
<1>33. Contents'
  <2> SUFFICES ASSUME NEW c \in Client, NEW n \in Number, NEW i \in DOMAIN wire'[<<c, n>>]
               PROVE  Content(c, n, i)'
    BY DEF Contents
  <2>1. CASE c = c0 /\ n = n0
    <3>1. i \in 1..(k0 - 1) /\ i + 1 \in 1..k0 /\ i + 1 # 1 /\ (i + 1 = k0 <=> i = k0 - 1)
      BY <1>2, <1>4, <2>1
    <3>2. Content(c, n, i + 1)
      BY <1>10, <2>1, <3>1
    <3>3. wire'[<<c, n>>][i] = wire[<<c, n>>][i + 1]
          /\ (i = Len(wire'[<<c, n>>]) <=> i + 1 = Len(wire[<<c, n>>]))
      BY <1>2, <1>4, <2>1, <3>1 DEF k0
    <3>4. reply' = reply
      <4>1. k0 # 1
        BY <3>1
      <4> QED BY <1>15, <1>16, <4>1
    <3> QED BY <1>1, <3>1, <3>2, <3>3, <3>4 DEF Content
  <2>2. CASE ~(c = c0 /\ n = n0)
    <3>1. wire'[<<c, n>>] = wire[<<c, n>>] /\ reply'[<<c, n>>] = reply[<<c, n>>]
      BY <1>22, <2>2
    <3>2. Content(c, n, i)
      BY <3>1 DEF Clean, Contents
    <3> QED BY <1>1, <3>1, <3>2 DEF Content
  <2> QED BY <2>1, <2>2
<1>34. Starts'
  <2> SUFFICES ASSUME NEW c \in Client, NEW n \in Number, Waits(<<c, n>>)
               PROVE  wire'[<<c, n>>] = wire[<<c, n>>]
    BY <1>1, <1>19 DEF Clean, Starts, Has
  <2> QED BY <1>2, <1>20, <1>22
<1>35. Suspending'
  <2> SUFFICES ASSUME NEW c \in Client, NEW n \in Number, Held(<<c, n>>)', n < link[c]
               PROVE  Ends(c, n)'
    BY <1>1 DEF Suspending
  <2>1. Ends(c, n)
    BY <1>22 DEF Clean, Suspending
  <2>2. CASE c = c0 /\ n = n0
    BY <1>2, <1>23, <1>25, <2>1, <2>2
  <2>3. CASE ~(c = c0 /\ n = n0)
    BY <1>22, <2>1, <2>3 DEF Ends
  <2> QED BY <2>2, <2>3
<1>36. Serving'
  <2> SUFFICES ASSUME NEW c \in Client, NEW n \in Number, data_socket' = <<c, n>>
               PROVE  c \in suspended' <=> Has(c, n, "resume")'
    BY DEF Serving
  <2>1. stays /\ c = c0 /\ n = n0
    BY <1>3, <1>18, LinkPair
  <2>2. c \notin suspended'
    BY <1>28, <2>1 DEF stays
  <2>3. ASSUME Has(c, n, "resume")' PROVE FALSE
    <3>1. wire'[h] # <<>> /\ wire'[h][1].req = "resume"
      BY <1>2, <2>1, <2>3 DEF Has
    <3>2. 1 \in 1..(k0 - 1) /\ 2 \in 1..k0 /\ 1 + 1 = 2
      BY <1>4, <3>1
    <3>3. wire[<<c0, n0>>][2].req = "resume"
      BY <1>2, <1>4, <3>1, <3>2
    <3>4. Content(c0, n0, 2)
      BY <1>10, <3>2
    <3> QED BY <3>3, <3>4 DEF Content
  <2> QED BY <2>2, <2>3
<1>37. \A c \in Client, n \in Number : n > 1 =>
          n - 1 \in Number /\ (~(c = c0 /\ n - 1 = n0) => (Held(<<c, n - 1>>)' <=> Held(<<c, n - 1>>)))
  <2> SUFFICES ASSUME NEW c \in Client, NEW n \in Number, n > 1
               PROVE  n - 1 \in Number
                      /\ (~(c = c0 /\ n - 1 = n0) => (Held(<<c, n - 1>>)' <=> Held(<<c, n - 1>>)))
    OBVIOUS
  <2>1. n - 1 \in Number
    BY SessionAssumption DEF Number
  <2> QED BY <1>22, <2>1
<1>38. Expected'
  <2> SUFFICES ASSUME NEW c \in Client, NEW n \in Number, Waits(<<c, n>>)
               PROVE  /\ n = 1 => c \notin suspended'
                      /\ n > 1 /\ ~Held(<<c, n - 1>>)' /\ (\A k \in Number : data_socket' # <<c, k>>)
                            => c \in suspended'
    BY <1>19 DEF Expected
  <2>1. CASE c = c0
    <3>1. n0 < n /\ n # 1
      BY <1>2, <1>20, <2>1 DEF Number
    <3>2. ASSUME \A k \in Number : data_socket' # <<c, k>> PROVE c \in suspended'
      <4>1. ~stays
        BY <1>2, <1>18, <2>1, <3>2
      <4>2. n <= link[c0] /\ n0 # link[c0]
        <5>1. n <= link[c0]
          BY <2>1 DEF Clean, Unused, Held, Number, TypeOK
        <5> QED BY <1>2, <3>1, <5>1 DEF Number
      <4>3. m0.req = "suspend"
        BY <1>4, <1>17, <4>1, <4>2 DEF stays, Request
      <4> QED BY <1>6, <2>1, <4>3
    <3> QED BY <3>1, <3>2
  <2>2. CASE c # c0
    <3>1. \A k \in Number : data_socket # <<c, k>>
      BY <1>0, <1>3, <2>2
    <3>2. n > 1 => (Held(<<c, n - 1>>)' <=> Held(<<c, n - 1>>))
      BY <1>37, <2>2
    <3> QED BY <1>29, <2>2, <3>1, <3>2 DEF Clean, Expected
  <2> QED BY <2>1, <2>2
<1>39. \A c \in Client : Current(c)' = Current(c) /\ Current(c) = <<c, link[c]>>
                       /\ (st[c] # "away" => link[c] \in Number)
  <2>1. \A c \in Client : link[c] \in 0..Links
    BY DEF TypeOK
  <2> QED BY <1>1, <2>1, SessionAssumption DEF Current, Number, Places
<1>40. Clients'
  <2> SUFFICES ASSUME NEW c \in Client, NEW n \in Number, n = link[c], st[c] # "away"
               PROVE  /\ st[c] \in {"in", "asking"} => Held(<<c, n>>)'
                      /\ st[c] = "linking" =>
                            \A i \in DOMAIN reply'[<<c, n>>] : reply'[<<c, n>>][i].ok => Held(<<c, n>>)'
                      /\ st[c] = "suspended" =>
                            IF Held(<<c, n>>)' THEN Ends(c, n)' ELSE c \in suspended'
    <3>1. ASSUME NEW c \in Client PROVE ClientKept(c)'
      <4>1. CASE st[c] = "away"
        BY <1>1, <4>1 DEF ClientKept
      <4>2. CASE st[c] # "away"
        <5>1. PICK n \in Number : n = link[c]
          BY <1>39, <4>2
        <5>2. Current(c)' = <<c, n>> /\ link'[c] = n
          BY <1>1, <1>39, <5>1
        <5> QED BY <1>1, <4>2, <5>1, <5>2 DEF ClientKept
      <4> QED BY <4>1, <4>2
    <3> QED BY <3>1 DEF Clients
  <2>1. /\ st[c] \in {"in", "asking"} => Held(<<c, n>>)
        /\ st[c] = "linking" => \A i \in DOMAIN reply[<<c, n>>] : reply[<<c, n>>][i].ok => Held(<<c, n>>)
        /\ st[c] = "suspended" => IF Held(<<c, n>>) THEN Ends(c, n) ELSE c \in suspended
    BY <1>39 DEF Clean, Clients, ClientKept
  <2>2. CASE ~(c = c0 /\ n = n0)
    <3>1. (Held(<<c, n>>)' <=> Held(<<c, n>>)) /\ reply'[<<c, n>>] = reply[<<c, n>>]
          /\ (Ends(c, n)' <=> Ends(c, n))
      BY <1>22, <2>2 DEF Ends
    <3>2. ~Held(<<c, n>>) => c # c0
      <4>1. c = c0 => n0 < n
        BY <1>2, <1>26, <2>2 DEF Number
      <4>2. c = c0 => Waits(<<c, n>>)
        <5>1. n <= n
          BY DEF Number
        <5> QED BY <1>27, <4>1, <5>1
      <4> QED BY <4>2 DEF Held
    <3> QED BY <1>29, <2>1, <3>1, <3>2
  <2>3. CASE c = c0 /\ n = n0 /\ stays
    BY <1>2, <1>8, <1>23, <1>25, <2>1, <2>3
  <2>4. CASE c = c0 /\ n = n0 /\ ~stays
    <3>1. m0.req \in {"old", "disconnect", "suspend"} /\ ~(n0 < link[c0])
      BY <1>2, <1>4, <2>4 DEF stays, Request
    <3>2. CASE m0.req = "old"
      <4>1. \A i \in DOMAIN reply'[h] : ~reply'[h][i].ok
        <5>1. PICK x : reply'[h] = <<x>> /\ x.ok = (m0.req # "old")
          BY <1>15, <3>2
        <5>2. \A i \in DOMAIN <<x>> : <<x>>[i] = x
          OBVIOUS
        <5> QED BY <3>2, <5>1, <5>2
      <4> QED BY <1>2, <1>17, <2>4, <3>2, <4>1
    <3>3. CASE m0.req \in {"disconnect", "suspend"}
      <4>1. st[c] = "gone" \/ (m0.req = "suspend" /\ st[c] = "suspended")
        BY <1>17, <2>4, <3>1, <3>3
      <4>2. ~Held(<<c, n>>)'
        BY <1>2, <1>23, <2>4
      <4>3. m0.req = "suspend" => c \in suspended'
        BY <1>6, <2>4
      <4> QED BY <4>1, <4>2, <4>3
    <3> QED BY <3>1, <3>2, <3>3
  <2> QED BY <2>2, <2>3, <2>4
<1>41. Consecutive'
  <2> SUFFICES ASSUME NEW c \in Client, NEW n \in Number, NEW i \in DOMAIN wire'[<<c, n>>],
                      NEW j \in DOMAIN wire'[<<c, n>>], j = i + 1
               PROVE  wire'[<<c, n>>][j].no = wire'[<<c, n>>][i].no + 1
    BY DEF Consecutive
  <2>1. CASE c = c0 /\ n = n0
    <3>1. /\ i \in 1..(k0 - 1) /\ j \in 1..(k0 - 1)
          /\ i + 1 \in DOMAIN wire[<<c, n>>] /\ j + 1 \in DOMAIN wire[<<c, n>>]
          /\ j + 1 = (i + 1) + 1
      BY <1>2, <1>4, <2>1, SMTT(30)
    <3>2. wire[<<c, n>>][j + 1].no = wire[<<c, n>>][i + 1].no + 1
      BY <3>1 DEF Clean, Numbered, Consecutive
    <3> QED BY <1>2, <1>4, <2>1, <3>1, <3>2
  <2>2. CASE ~(c = c0 /\ n = n0)
    BY <1>22, <2>2 DEF Clean, Numbered, Consecutive
  <2> QED BY <2>1, <2>2
<1>42. NextServed'
  <2> SUFFICES ASSUME NEW c \in Client, NEW n \in Number, data_socket' = <<c, n>>, wire'[<<c, n>>] # <<>>
               PROVE  wire'[<<c, n>>][1].no = done'[c] + 1
    BY DEF NextServed
  <2>1. stays /\ c = c0 /\ n = n0
    BY <1>3, <1>18, LinkPair
  <2>2. 1 \in 1..(k0 - 1) /\ 1 \in DOMAIN wire[<<c, n>>] /\ 1 + 1 \in DOMAIN wire[<<c, n>>]
    BY <1>2, <1>4, <2>1
  <2>3. wire[<<c, n>>][1 + 1].no = wire[<<c, n>>][1].no + 1
    BY <2>2 DEF Clean, Numbered, Consecutive
  <2>4. wire'[<<c, n>>][1] = wire[<<c, n>>][1 + 1] /\ wire[<<c, n>>][1] = m0
    BY <1>2, <1>4, <2>1, <2>2 DEF m0
  <2> QED BY <1>6, <2>1, <2>3, <2>4
<1>43. NextAccepted'
  <2> SUFFICES ASSUME NEW c \in Client, NEW n \in Number, Waits(<<c, n>>), end[<<c, n>>] # "reset"
               PROVE  /\ Alone(c, n)' => wire[<<c, n>>][1].no = done'[c] + 1
                      /\ ~Alone(c, n)' => wire[<<c, n>>][1].no = Last(c, n - 1)' + 1
    <3>1. ASSUME NEW c \in Client, NEW n \in Number, Waits(<<c, n>>)
          PROVE  wire'[<<c, n>>] = wire[<<c, n>>]
      BY <1>2, <1>20, <1>22, <3>1
    <3> QED BY <1>1, <1>19, <3>1 DEF NextAccepted
  <2>1. /\ Alone(c, n) => wire[<<c, n>>][1].no = done[c] + 1
        /\ ~Alone(c, n) => wire[<<c, n>>][1].no = Last(c, n - 1) + 1
    BY DEF Clean, Numbered, NextAccepted
  <2>2. CASE c = c0 /\ n - 1 = n0
    <3>1. n # 1 /\ Held(<<c, n - 1>>)
      BY <1>2, <1>8, <2>2 DEF Number
    <3>2. wire[<<c, n>>][1].no = wire[h][k0].no + 1
      BY <1>2, <2>1, <2>2, <3>1 DEF Alone, Last, k0
    <3>3. CASE stays
      <4>1. n0 < link[c0]
        BY <2>2 DEF Clean, Unused, Held, Number, TypeOK
      <4>2. k0 > 1
        BY <1>2, <1>8, <1>25, <3>3, <4>1 DEF Clean, Suspending
      <4>3. k0 - 1 \in 1..(k0 - 1) /\ (k0 - 1) + 1 = k0
        BY <1>4, <4>2
      <4>4. wire'[h][Len(wire'[h])] = wire[h][k0]
        BY <1>4, <4>3
      <4>5. Last(c, n - 1)' = wire[h][k0].no
        BY <1>2, <2>2, <4>4 DEF Last
      <4>6. ~Alone(c, n)'
        BY <1>2, <1>23, <2>2, <3>1, <3>3 DEF Alone
      <4> QED BY <3>2, <4>5, <4>6
    <3>4. CASE ~stays
      <4>1. k0 = 1
        BY <1>4, <1>14, <3>4 DEF stays, Request
      <4>2. Alone(c, n)'
        BY <1>2, <1>23, <2>2, <3>4 DEF Alone
      <4> QED BY <1>6, <2>2, <3>2, <4>1, <4>2 DEF m0
    <3> QED BY <3>3, <3>4
  <2>3. CASE ~(c = c0 /\ n - 1 = n0)
    <3>1. Alone(c, n)' = Alone(c, n)
      BY <1>37, <2>3 DEF Alone, Number
    <3>2. n # 1 => Last(c, n - 1)' = Last(c, n - 1)
      BY <1>22, <1>37, <2>3 DEF Last, Number
    <3>3. c = c0 => ~Alone(c, n)
      <4> SUFFICES ASSUME c = c0 PROVE ~Alone(c, n)
        OBVIOUS
      <4>1. n0 < n /\ n <= link[c0]
        <5>1. n0 < n
          BY <1>20
        <5>2. ~(n > link[c0])
          BY DEF Clean, Unused, Held
        <5> QED BY <5>1, <5>2 DEF Number, TypeOK
      <4>2. n - 1 \in Number /\ n0 < n - 1 /\ n - 1 <= link[c0]
        BY <1>2, <1>37, <2>3, <4>1, SessionAssumption DEF Number, TypeOK
      <4>3. Held(<<c0, n - 1>>)
        BY <1>27, <4>2 DEF Held
      <4> QED BY <4>1, <4>3, <1>2 DEF Alone, Number
    <3> QED BY <1>6, <2>1, <3>1, <3>2, <3>3 DEF Alone
  <2> QED BY <2>2, <2>3
<1>44. LastSent'
  <2> SUFFICES ASSUME NEW c \in Client, NEW n \in Number, n = link[c], Held(<<c, n>>)', end[<<c, n>>] # "reset"
               PROVE  /\ wire'[<<c, n>>] = <<>> => sent[c] = done'[c]
                      /\ wire'[<<c, n>>] # <<>> => sent[c] = wire'[<<c, n>>][Len(wire'[<<c, n>>])].no
    <3>1. ASSUME NEW c \in Client, st'[c] # "away", Held(Current(c))', end'[Current(c)'] # "reset"
          PROVE  /\ wire'[Current(c)'] = <<>> => sent'[c] = done'[c]
                 /\ wire'[Current(c)'] # <<>> => sent'[c] = Last(c, link[c])'
      <4>1. PICK n \in Number : n = link[c] /\ Current(c)' = <<c, n>>
        BY <1>1, <1>39, <3>1
      <4>2. Last(c, link[c])' = wire'[<<c, n>>][Len(wire'[<<c, n>>])].no
        BY <1>1, <4>1 DEF Last
      <4> QED BY <1>1, <3>1, <4>1, <4>2
    <3> QED BY <3>1 DEF LastSent
  <2>1. Held(<<c, n>>) /\ st[c] # "away"
    BY <1>22 DEF Places, Number
  <2>2. /\ wire[<<c, n>>] = <<>> => sent[c] = done[c]
        /\ wire[<<c, n>>] # <<>> => sent[c] = wire[<<c, n>>][Len(wire[<<c, n>>])].no
    BY <1>39, <2>1 DEF Clean, Numbered, LastSent, Last
  <2>3. CASE c = c0 /\ n = n0
    <3>1. sent[c] = wire[h][k0].no
      BY <1>1, <1>2, <2>2, <2>3 DEF k0
    <3>2. CASE k0 = 1
      BY <1>2, <1>4, <1>6, <2>3, <3>1, <3>2 DEF m0
    <3>3. CASE k0 # 1
      <4>1. k0 - 1 \in 1..(k0 - 1) /\ (k0 - 1) + 1 = k0
        BY <1>4, <3>3
      <4>2. wire'[h][Len(wire'[h])] = wire[h][k0] /\ wire'[h] # <<>>
        BY <1>4, <3>3, <4>1
      <4> QED BY <1>2, <2>3, <3>1, <4>2
    <3> QED BY <3>2, <3>3
  <2>4. CASE ~(c = c0 /\ n = n0)
    <3>1. wire'[<<c, n>>] = wire[<<c, n>>] /\ Waits(<<c, n>>)
      BY <1>22, <2>1, <2>4
    <3>2. wire[<<c, n>>] # <<>>
      BY <3>1 DEF Clean, Starts
    <3> QED BY <2>2, <3>1, <3>2
  <2> QED BY <2>3, <2>4
<1>45. AllDone'
  <2> SUFFICES ASSUME NEW c \in Client,
                      st[c] = "away" \/ (st[c] = "suspended" /\ ~Held(Current(c))')
               PROVE  sent[c] = done'[c]
    BY <1>1 DEF AllDone
  <2>1. CASE st[c] = "away"
    BY <1>6, <1>26, <2>1 DEF Clean, Numbered, AllDone
  <2>2. CASE st[c] # "away"
    <3>1. PICK n \in Number : n = link[c] /\ Current(c)' = <<c, n>> /\ Current(c) = <<c, n>>
      BY <1>39, <2>2
    <3>2. st[c] = "suspended" /\ ~Held(<<c, n>>)'
      BY <2>2, <3>1
    <3>3. CASE c = c0 /\ n = n0
      <4>1. k0 = 1
        BY <1>2, <1>4, <1>14, <1>23, <3>2, <3>3 DEF stays, Request
      <4>2. sent[c] = wire[h][k0].no
        <5>1. wire[Current(c)] # <<>> /\ Held(Current(c)) /\ end[Current(c)] # "reset"
          BY <1>1, <1>2, <1>8, <3>1, <3>3
        <5>2. Last(c, link[c]) = wire[h][k0].no
          BY <1>2, <3>1, <3>3 DEF Last, k0
        <5> QED BY <2>2, <5>1, <5>2 DEF Clean, Numbered, LastSent
      <4> QED BY <1>6, <3>3, <4>1, <4>2 DEF m0
    <3>4. CASE ~(c = c0 /\ n = n0)
      <4>1. ~Held(<<c, n>>)
        BY <1>22, <3>2, <3>4
      <4>2. c # c0
        <5>1. c = c0 => n0 < n /\ n <= n
          BY <1>2, <1>26, <3>1, <3>4 DEF Number
        <5> QED BY <1>27, <3>1, <4>1, <5>1 DEF Held
      <4> QED BY <1>6, <3>1, <3>2, <4>1, <4>2 DEF Clean, Numbered, AllDone
    <3> QED BY <3>3, <3>4
  <2> QED BY <2>1, <2>2
<1>46. DepthIsSuspended'
  <2>1. Cardinality(suspended) \in Nat /\ IsFiniteSet(suspended)
    BY SuspendedFinite
  <2>2. CASE m0.req \in {"connect", "ask", "tell"}
    BY <1>6, <1>13, <1>18, <2>2 DEF DepthIsSuspended, stays
  <2>3. CASE m0.req \in {"old", "disconnect"}
    BY <1>6, <1>13, <1>18, <2>1, <2>3 DEF DepthIsSuspended, stays
  <2>4. CASE m0.req = "suspend"
    <3>1. Cardinality(suspended') = Cardinality(suspended) + 1
      BY <1>6, <1>12, <2>1, <2>4, FS_AddElement
    <3> QED BY <1>13, <1>18, <2>1, <2>4, <3>1 DEF DepthIsSuspended, stays
  <2>5. CASE m0.req = "resume"
    <3>1. Cardinality(suspended') = Cardinality(suspended) - 1
      BY <1>6, <1>12, <2>1, <2>5, FS_RemoveElement
    <3>2. depth' = Cardinality(suspended') + 1
      BY <1>13, <1>18, <2>1, <2>5, <3>1
    <3> QED BY <1>18, <2>5, <3>2 DEF DepthIsSuspended, stays
  <2> QED BY <1>4, <2>2, <2>3, <2>4, <2>5 DEF Request
<1>47. AnswersMatch'
  <2> SUFFICES ASSUME NEW c \in Client, NEW n \in Number, reply'[<<c, n>>] # <<>>
               PROVE  /\ Len(reply'[<<c, n>>]) = 1 /\ n = link[c]
                      /\ reply'[<<c, n>>][1].no = sent[c]
                      /\ st[c] \in {"linking", "asking", "gone"}
    BY <1>1 DEF AnswersMatch, Number
  <2>1. CASE reply'[<<c, n>>] = reply[<<c, n>>]
    BY <2>1 DEF Clean, AnswersMatch, Number
  <2>2. CASE reply'[<<c, n>>] # reply[<<c, n>>]
    <3>1. c = c0 /\ n = n0 /\ m0.req \in {"connect", "old", "ask"}
      BY <1>16, <1>22, <2>2
    <3>2. PICK x : reply'[h] = <<x>> /\ x.no = m0.no
      BY <1>15, <3>1
    <3> QED BY <1>2, <1>15, <3>1, <3>2
  <2> QED BY <2>1, <2>2
<1>48. Numbered'
  BY <1>41, <1>42, <1>43, <1>44, <1>45 DEF Numbered
<1> QED BY <1>30, <1>31, <1>32, <1>33, <1>34, <1>35, <1>36, <1>38, <1>40, <1>46, <1>47, <1>48
        DEF Clean

-----------------------------------------------------------------------------
(* The invariant, and what follows from it *)

LEMMA AgainStays == [Next]_vars /\ again => again'
<1> USE DEF history, vars
<1>1. Server => (again => again')
  BY DEF Server, Accept, Poll, Key, Serve, ServeStale, Spin
<1>2. \A c \in Client : Connect(c) \/ Ask(c) \/ Suspend(c) \/ Answered(c) => (again => again')
  BY DEF Connect, Ask, Suspend, Answered
<1>3. \A c \in Client : Failed(c) \/ Resume(c) \/ Disconnect(c) \/ Crash(c) => (again => again')
  BY DEF Failed, Resume, Disconnect, Crash
<1> QED BY <1>1, <1>2, <1>3 DEF Next, Proceeds

LEMMA StepInv == IInv /\ [Next]_vars => IInv'
<1> SUFFICES ASSUME IInv, [Next]_vars PROVE IInv'
  OBVIOUS
<1>1. TypeOK /\ Places /\ TypeOK' /\ Places'
  BY TypeStep DEF IInv
<1>2. CASE again
  BY <1>1, <1>2, AgainStays DEF IInv
<1>3. CASE ~again
  <2>1. Clean
    BY <1>3 DEF IInv
  <2>2. ASSUME NEW c \in Client, Connect(c) PROVE Clean'
    <3>1. PICK req \in {"connect", "old"} : Dial(c, req)
      BY <2>2 DEF Connect
    <3>2. req \in {"connect", "old", "resume"} /\ req # "resume"
      OBVIOUS
    <3>3. st[c] = "away" /\ Goes(c, "linking") /\ UNCHANGED <<reply, server, history>>
      BY <2>2 DEF Connect
    <3> QED BY <1>1, <1>3, <2>1, <3>1, <3>2, <3>3, DialsClean
  <2>3. ASSUME NEW c \in Client, Resume(c) PROVE Clean'
    <3>1. st[c] = "suspended" /\ Dial(c, "resume") /\ Goes(c, "in") /\ UNCHANGED <<reply, server, history>>
      BY <2>3 DEF Resume
    <3> QED BY <1>1, <1>3, <2>1, <3>1, DialsClean
  <2>4. ASSUME NEW c \in Client, Ask(c) PROVE Clean'
    <3>1. st[c] = "in" /\ UNCHANGED <<link, reply, backlog, server, history>>
      BY <2>4 DEF Ask
    <3>2. CASE Send(c, Current(c), "ask", "open") /\ Goes(c, "asking")
      BY <1>1, <1>3, <2>1, <3>1, <3>2, SendsClean
    <3>3. CASE Send(c, Current(c), "tell", "open") /\ UNCHANGED st
      <4>1. Goes(c, "in")
        BY <1>1, <3>1, <3>3 DEF Goes, TypeOK
      <4> QED BY <1>1, <1>3, <2>1, <3>1, <3>3, <4>1, SendsClean
    <3> QED BY <2>4, <3>2, <3>3 DEF Ask
  <2>5. ASSUME NEW c \in Client, Suspend(c) PROVE Clean'
    <3>1. /\ st[c] = "in" /\ UNCHANGED <<link, reply, backlog, server, history>>
          /\ Send(c, Current(c), "suspend", "closed") /\ Goes(c, "suspended")
      BY <2>5 DEF Suspend
    <3> QED BY <1>1, <1>3, <2>1, <3>1, SendsClean
  <2>6. ASSUME NEW c \in Client, Disconnect(c) PROVE Clean'
    <3>1. /\ st[c] = "in" /\ UNCHANGED <<link, reply, backlog, server, history>>
          /\ Send(c, Current(c), "disconnect", "closed") /\ Goes(c, "gone")
      BY <2>6 DEF Disconnect
    <3> QED BY <1>1, <1>3, <2>1, <3>1, SendsClean
  <2>7. ASSUME NEW c \in Client, Answered(c) PROVE Clean'
    BY <1>1, <1>3, <2>1, <2>7, AnsweredClean
  <2>8. ASSUME NEW c \in Client, Failed(c) \/ Crash(c) PROVE Clean'
    BY <1>1, <1>3, <2>1, <2>8, GoneClean
  <2>9. ASSUME Accept PROVE Clean'
    BY <1>1, <1>3, <2>1, <2>9, AcceptClean
  <2>10. ASSUME Serve PROVE Clean'
    BY <1>1, <1>3, <2>1, <2>10, ServeClean
  <2>11. ASSUME Poll \/ Key \/ Spin \/ UNCHANGED vars PROVE Clean'
    BY <1>1, <2>1, <2>11, IdleClean
  <2>12. ASSUME ServeStale PROVE again'
    BY <2>12 DEF ServeStale
  <2> QED
    BY <1>1, <2>2, <2>3, <2>4, <2>5, <2>6, <2>7, <2>8, <2>9, <2>10, <2>11, <2>12
       DEF Next, Server, Proceeds, IInv
<1> QED BY <1>2, <1>3

\* What the links hold, in which order they are accepted, and whom the server knows to
\* be suspended: the invariant of Session, RemoteConnect and the requests.
THEOREM Invariant == Spec => []IInv
BY InitInv, StepInv, PTL DEF Spec

\* The state of the debuggers, of the links between them and the server, and of the
\* nested Sessions stays of its type, whichever client crashes and whenever.
THEOREM TypesOK == Spec => []TypeOK
<1>1. IInv => TypeOK
  BY DEF IInv
<1> QED BY <1>1, Invariant, PTL

\* Session nests as deep as there are clients that have suspended their link: when
\* it returns to main, nobody is left to be waited for.
THEOREM Depth == Spec => []DepthIsSuspended
<1>1. IInv => DepthIsSuspended
  BY DEF IInv, Clean, DepthIsSuspended
<1> QED BY <1>1, Invariant, PTL

\* DoRequest on the client's side gets the answer to the request that it has sent,
\* never that to an earlier one, although the server answers whoever it serves.
THEOREM Answers == Spec => []AnswersMatch
<1>1. IInv => AnswersMatch
  BY DEF IInv, Clean, AnswersMatch
<1> QED BY <1>1, Invariant, PTL

LEMMA ServeStep ==
    ASSUME TypeOK, Places, Clean, ~again, Serve
    PROVE  /\ \A c \in Client : done'[c] \in {done[c], done[c] + 1}
           /\ \A c \in suspended \ suspended' :
                 pc' = "get" /\ data_socket' = data_socket /\ data_socket[1] = c
<1> DEFINE c0 == data_socket[1]
           m0 == Head(wire[data_socket])
<1>1. data_socket \in Link /\ pc = "get" /\ wire[data_socket] # <<>>
  BY DEF Serve, TypeOK, Places
<1>2. c0 \in Client /\ data_socket[2] \in Number /\ data_socket = <<c0, data_socket[2]>>
  BY <1>1, LinkPair
<1>3. m0 = wire[data_socket][1]
  BY <1>1, Shapes, TailShape
<1>4. m0.no = done[c0] + 1
  BY <1>1, <1>2, <1>3 DEF Clean, Numbered, NextServed
<1>5. done' = [done EXCEPT ![c0] = m0.no]
  BY DEF Serve
<1>6. Execute(m0.req, m0.no)
  BY DEF Serve
<1>7. suspended' = CASE m0.req = "suspend" -> suspended \cup {c0}
                     [] m0.req = "resume" -> suspended \ {c0}
                     [] OTHER -> suspended
  BY DEF Serve
<1> HIDE DEF c0, m0
<1>8. \A c \in Client : done'[c] \in {done[c], done[c] + 1}
  BY <1>4, <1>5 DEF TypeOK
<1>9. ASSUME NEW c \in suspended \ suspended'
      PROVE  pc' = "get" /\ data_socket' = data_socket /\ data_socket[1] = c
  <2>1. m0.req = "resume" /\ c = c0
    BY <1>7, <1>9
  <2>2. Return(FALSE)
    BY <1>6, <2>1 DEF Execute
  <2>3. UNCHANGED <<pc, data_socket>>
    BY <1>1, <1>9, <2>2, ResumeReturns
  <2> QED BY <1>1, <2>1, <2>3 DEF c0
<1> QED BY <1>8, <1>9

LEMMA OthersServeNone == [Next]_vars /\ ~Serve => UNCHANGED <<done, suspended>>
<1> USE DEF history, vars
<1>1. Server /\ ~Serve => UNCHANGED <<done, suspended>>
  BY DEF Server, Accept, Poll, Key, ServeStale, Spin
<1>2. \A c \in Client : Connect(c) \/ Ask(c) \/ Suspend(c) \/ Answered(c) => UNCHANGED <<done, suspended>>
  BY DEF Connect, Ask, Suspend, Answered
<1>3. \A c \in Client : Failed(c) \/ Resume(c) \/ Disconnect(c) \/ Crash(c) => UNCHANGED <<done, suspended>>
  BY DEF Failed, Resume, Disconnect, Crash
<1> QED BY <1>1, <1>2, <1>3 DEF Next, Proceeds

LEMMA StepServes ==
    ASSUME IInv, [Next]_vars, ~again'
    PROVE  /\ \A c \in Client : done'[c] \in {done[c], done[c] + 1}
           /\ \A c \in suspended \ suspended' :
                 pc' = "get" /\ data_socket' = data_socket /\ data_socket[1] = c
<1>1. ~again
  BY AgainStays
<1>2. CASE Serve
  BY <1>1, <1>2, ServeStep DEF IInv
<1>3. CASE ~Serve
  BY <1>3, OthersServeNone
<1> QED BY <1>2, <1>3

\* GetPacket takes the requests of a client in the order in which RemotePut sent
\* them, none twice and none left out, over all the links of its session.
THEOREM InOrder == Spec => OnceInOrder
<1>1. IInv /\ [Next]_vars =>
         [again' \/ \A c \in Client : done'[c] \in {done[c], done[c] + 1}]_vars
  BY StepServes
<1> QED BY <1>1, Invariant, PTL DEF Spec, OnceInOrder

\* REQ_RESUME returns from the Session of the new link to the loop of the one that
\* was suspended, which goes on with that link.
THEOREM Resumes == Spec => ResumeContinues
<1>1. IInv /\ [Next]_vars =>
         [again' \/ \A c \in suspended \ suspended' :
             pc' = "get" /\ data_socket' = data_socket /\ data_socket[1] = c]_vars
  BY StepServes
<1> QED BY <1>1, Invariant, PTL DEF Spec, ResumeContinues
==============================================================================
