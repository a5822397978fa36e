---------------------------- MODULE TrapSession ------------------------------
(***************************************************************************)
(* A debug server and the debuggers that link to it over TCP: the request  *)
(* loop of bld/trap/common (Session, which nests when a debugger suspends  *)
(* its link, and main), the client's side of the same requests, and        *)
(* bld/trap/tcp.                                                           *)
(*                                                                         *)
(* TCP is external: a connection keeps what is sent in order, and ends     *)
(* either after all of it (closed) or at once (reset).  A link is a        *)
(* connection of a client, numbered by the client.                         *)
(***************************************************************************)
EXTENDS Naturals, Sequences, FiniteSets

CONSTANTS
    Client,       \* the debuggers
    None,         \* INVALID_SOCKET
    Backlog,      \* how many connections may wait for accept
    Asks,         \* bound: requests of a client besides those that make and end links
    Links         \* bound: links of a client

ASSUME SessionAssumption ==
    /\ IsFiniteSet(Client) /\ None \notin Client \X (1..Links)
    /\ Backlog \in Nat \ {0} /\ Asks \in Nat /\ Links \in Nat \ {0}

Link == Client \X (1..Links)

VARIABLES
    st,           \* where each client is
    link,         \* the number of its last link
    asks,         \* how many plain requests it has made
    sent,         \* how many requests it has sent
    wire,         \* the requests on each link that the server has not read
    end,          \* how each link stands at the client's end
    reply,        \* the answers on each link: the number of the request and what it says
    backlog,      \* the links that wait for accept
    pc,           \* where the server is
    depth,        \* how many Sessions are nested
    data_socket,  \* the link of the innermost one
    PackBuff,     \* the last request read
    OneShot,      \* the server ends after one session
    done,         \* history: the number of the last request executed for each client
    suspended,    \* history: the clients that the server knows to be suspended
    again,        \* history: a request has been executed that nobody sent
    crashed       \* history: the clients that went without ending their session

client == <<st, link, asks, sent>>
network == <<wire, end, reply, backlog>>
server == <<pc, depth, data_socket, PackBuff, OneShot>>
history == <<done, suspended, again, crashed>>
vars == <<client, network, server, history>>

Request == {"connect", "old", "ask", "tell", "suspend", "resume", "disconnect"}

TypeOK ==
    /\ st \in [Client -> {"away", "linking", "in", "asking", "suspended", "gone"}]
    /\ link \in [Client -> 0..Links] /\ asks \in [Client -> 0..Asks]
    /\ sent \in [Client -> Nat] /\ done \in [Client -> Nat]
    /\ wire \in [Link -> Seq([req : Request, no : Nat])]
    /\ end \in [Link -> {"none", "open", "closed", "reset"}]
    /\ reply \in [Link -> Seq([no : Nat, ok : BOOLEAN])]
    /\ backlog \in Seq(Link)
    /\ pc \in {"main", "key", "accept", "get", "stuck", "exited"}
    /\ depth \in Nat
    /\ data_socket \in Link \cup {None}
    /\ PackBuff \in Request /\ OneShot \in BOOLEAN
    /\ suspended \subseteq Client /\ crashed \subseteq Client /\ again \in BOOLEAN

\* PackBuff is zero: a REQ_CONNECT of version 0.
Init ==
    /\ st = [c \in Client |-> "away"] /\ link = [c \in Client |-> 0]
    /\ asks = [c \in Client |-> 0] /\ sent = [c \in Client |-> 0]
    /\ wire = [l \in Link |-> <<>>] /\ end = [l \in Link |-> "none"]
    /\ reply = [l \in Link |-> <<>>] /\ backlog = <<>>
    /\ pc = "main" /\ depth = 0 /\ data_socket = None /\ PackBuff = "old"
    /\ OneShot \in BOOLEAN
    /\ done = [c \in Client |-> 0] /\ suspended = {} /\ crashed = {} /\ again = FALSE

-----------------------------------------------------------------------------
(* The client *)

Current(c) == <<c, link[c]>>

\* RemotePut of one request, on the link l, which the client then leaves as it says.
Send(c, l, req, after) ==
    /\ wire' = [wire EXCEPT ![l] = Append(@, [req |-> req, no |-> sent[c] + 1])]
    /\ sent' = [sent EXCEPT ![c] = @ + 1]
    /\ end' = [end EXCEPT ![l] = after]

\* RemoteConnect: the kernel completes the connection, whatever the server does.
Dial(c, req) ==
    /\ link[c] < Links /\ Len(backlog) < Backlog /\ pc # "exited"
    /\ link' = [link EXCEPT ![c] = @ + 1]
    /\ backlog' = Append(backlog, <<c, link[c] + 1>>)
    /\ Send(c, <<c, link[c] + 1>>, req, "open")

Goes(c, place) == st' = [st EXCEPT ![c] = place]

\* InitTrap, by a debugger of this version or of another.
Connect(c) ==
    /\ st[c] = "away"
    /\ Dial(c, "connect") \/ Dial(c, "old")
    /\ Goes(c, "linking")
    /\ UNCHANGED <<asks, reply, server, history>>

\* DoRequest: a request that has an answer, and one that has none.
Ask(c) ==
    /\ st[c] = "in" /\ asks[c] < Asks
    /\ asks' = [asks EXCEPT ![c] = @ + 1]
    /\ \/ Send(c, Current(c), "ask", "open") /\ Goes(c, "asking")
       \/ Send(c, Current(c), "tell", "open") /\ UNCHANGED st
    /\ UNCHANGED <<link, reply, backlog, server, history>>

Answered(c) ==
    /\ st[c] \in {"linking", "asking"} /\ reply[Current(c)] # <<>>
    /\ reply' = [reply EXCEPT ![Current(c)] = Tail(@)]
    /\ IF Head(reply[Current(c)]).ok
       THEN Goes(c, "in") /\ UNCHANGED end
       ELSE Goes(c, "gone") /\ end' = [end EXCEPT ![Current(c)] = "closed"]
    /\ UNCHANGED <<link, asks, sent, wire, backlog, server, history>>

\* RemoteSuspend: ReqRemoteDisco closes the link behind the request.
Suspend(c) ==
    /\ st[c] = "in" /\ link[c] < Links
    /\ Send(c, Current(c), "suspend", "closed")
    /\ Goes(c, "suspended")
    /\ UNCHANGED <<link, asks, reply, backlog, server, history>>

\* RemoteResume: ReqRemoteResume links again before the request.
Resume(c) ==
    /\ st[c] = "suspended"
    /\ Dial(c, "resume")
    /\ Goes(c, "in")
    /\ UNCHANGED <<asks, reply, server, history>>

\* FiniTrap
Disconnect(c) ==
    /\ st[c] = "in"
    /\ Send(c, Current(c), "disconnect", "closed")
    /\ Goes(c, "gone")
    /\ UNCHANGED <<link, asks, reply, backlog, server, history>>

\* The server has gone, and the kernel has reset the links that waited for it.
Failed(c) ==
    /\ st[c] \in {"linking", "asking"} /\ pc = "exited" /\ reply[Current(c)] = <<>>
    /\ Goes(c, "gone")
    /\ UNCHANGED <<link, asks, sent, network, server, history>>

\* The client is killed, or its machine is switched off.
Crash(c) ==
    /\ st[c] \notin {"away", "gone"}
    /\ Goes(c, "gone")
    /\ crashed' = crashed \cup {c}
    /\ \/ end' = [end EXCEPT ![Current(c)] = "closed"] /\ UNCHANGED wire
       \/ /\ end[Current(c)] = "open"
          /\ end' = [end EXCEPT ![Current(c)] = "reset"]
          /\ wire' = [wire EXCEPT ![Current(c)] = <<>>]
    /\ UNCHANGED <<link, asks, sent, reply, backlog, server, done, suspended, again>>

-----------------------------------------------------------------------------
(* The server *)

\* mutant: the link that has waited least comes first
Newest ==
    /\ pc \in {"main", "accept"} /\ backlog # <<>>
    /\ data_socket' = backlog[Len(backlog)]
    /\ backlog' = SubSeq(backlog, 1, Len(backlog) - 1)
    /\ depth' = depth + 1
    /\ pc' = "get"
    /\ UNCHANGED <<client, wire, end, reply, PackBuff, OneShot, history>>

\* main, between two sessions, and the loop of REQ_SUSPEND.
Accept ==
    /\ pc \in {"main", "accept"} /\ backlog # <<>>
    /\ data_socket' = Head(backlog) /\ backlog' = Tail(backlog)
    /\ depth' = depth + 1
    /\ pc' = "get"
    /\ UNCHANGED <<client, wire, end, reply, PackBuff, OneShot, history>>

\* Nobody has connected for 10 ms; then main looks at the keyboard.
Poll ==
    /\ pc = "main" /\ backlog = <<>>
    /\ pc' = "key"
    /\ UNCHANGED <<client, network, depth, data_socket, PackBuff, OneShot, history>>

Key ==
    /\ pc = "key"
    /\ pc' \in {"main", "exited"}
    /\ UNCHANGED <<client, network, depth, data_socket, PackBuff, OneShot, history>>

DropsLink(result) ==                 \* mutant: RemoteDisco before the result is looked at
    /\ depth' = depth - 1
    /\ data_socket' = None
    /\ pc' = IF depth > 1 THEN "accept" ELSE IF OneShot THEN "exited" ELSE "main"

\* Session returns, to main or to the loop of REQ_SUSPEND in the Session around it.
Return(result) ==
    /\ depth' = depth - 1
    /\ IF depth = 1
       THEN data_socket' = None /\ pc' = IF OneShot THEN "exited" ELSE "main"
       ELSE IF result
            THEN data_socket' = None /\ pc' = "accept"
            ELSE UNCHANGED <<data_socket, pc>>

Stay == UNCHANGED <<pc, depth, data_socket>>

Leaves == Return(TRUE)               \* mutant: REQ_SUSPEND ends the Session
StaysOn == Stay                      \* mutant: no RemoteDisco

\* RemoteDisco, and the loop in which REQ_SUSPEND waits for a link.
WaitForResume == data_socket' = None /\ pc' = "accept" /\ depth' = depth

AnswersAll(req, no) ==               \* mutant: the bit for no answer is ignored
    /\ CASE req \in {"old", "disconnect"} -> Return(TRUE)
         [] req = "suspend" -> WaitForResume
         [] req = "resume" -> Return(FALSE)
         [] OTHER -> Stay
    /\ reply' = [reply EXCEPT ![data_socket] = Append(@, [no |-> no, ok |-> req # "old"])]

\* Session's switch, for a request with the number no.
Execute(req, no) ==
    /\ CASE req \in {"old", "disconnect"} -> Return(TRUE)
         [] req = "suspend" -> WaitForResume
         [] req = "resume" -> Return(FALSE)
         [] OTHER -> Stay
    /\ reply' = IF req \in {"connect", "old", "ask"} /\ end[data_socket] # "reset"
                THEN [reply EXCEPT ![data_socket] = Append(@, [no |-> no, ok |-> req # "old"])]
                ELSE reply

\* GetPacket and what follows.  Session clears the bit that says that no answer is
\* wanted in the buffer itself.
Serve ==
    /\ pc = "get" /\ wire[data_socket] # <<>>
    /\ LET m == Head(wire[data_socket])
           c == data_socket[1]
       IN  /\ wire' = [wire EXCEPT ![data_socket] = Tail(@)]
           /\ PackBuff' = IF m.req = "tell" THEN "ask" ELSE m.req
           /\ Execute(m.req, m.no)
           /\ done' = [done EXCEPT ![c] = m.no]
           /\ suspended' = CASE m.req = "suspend" -> suspended \cup {c}
                             [] m.req = "resume" -> suspended \ {c}
                             [] OTHER -> suspended
    /\ UNCHANGED <<client, end, backlog, OneShot, again, crashed>>

\* The link was reset: REQUEST_FAILED is taken for a length, and the request that is
\* still in the buffer for a new one.
ServeStale ==
    /\ pc = "get" /\ end[data_socket] = "reset"
    /\ Execute(PackBuff, 0)
    /\ again' = TRUE
    /\ UNCHANGED <<client, wire, end, backlog, PackBuff, OneShot, done, suspended, crashed>>

\* recv returns 0 at the end of a link, and recvData calls it again and again.
Spin ==
    /\ pc = "get" /\ wire[data_socket] = <<>> /\ end[data_socket] = "closed"
    /\ pc' = "stuck"
    /\ UNCHANGED <<client, network, depth, data_socket, PackBuff, OneShot, history>>

-----------------------------------------------------------------------------
Server == Accept \/ Poll \/ Key \/ Serve \/ ServeStale \/ Spin

Proceeds(c) == Answered(c) \/ Failed(c) \/ Resume(c) \/ Disconnect(c)

Next ==
    \/ Server
    \/ \E c \in Client : Connect(c) \/ Ask(c) \/ Suspend(c) \/ Proceeds(c) \/ Crash(c)

\* The server runs, TCP delivers, and a debugger that has connected or suspended its
\* link ends its session some day.
Fairness == WF_vars(Server) /\ \A c \in Client : WF_vars(Proceeds(c))

Spec == Init /\ [][Next]_vars /\ Fairness

-----------------------------------------------------------------------------
\* However sessions nest, and whoever returns first, there are as many Sessions as
\* there are suspended clients, and one more for the client that is being served.  So
\* the server is back in main, where it looks at the keyboard and OneShot, only when
\* no client is to return.
DepthIsSuspended ==
    again \/ depth = Cardinality(suspended) + IF pc \in {"get", "stuck"} THEN 1 ELSE 0

\* The server executes the requests of a client in the order in which they were sent,
\* each once, over any number of links.
OnceInOrder ==
    [][again' \/ \A c \in Client : done'[c] \in {done[c], done[c] + 1}]_vars

\* A client that returns finds its session: the link it comes with is served on.
ResumeContinues ==
    [][again' \/ \A c \in suspended \ suspended' :
                    pc' = "get" /\ data_socket' = data_socket /\ data_socket[1] = c]_vars

\* An answer is that to the last request of its client, who waits for it.
AnswersMatch ==
    again \/ \A c \in Client, n \in 1..Links : reply[<<c, n>>] # <<>> =>
        /\ Len(reply[<<c, n>>]) = 1 /\ n = link[c]
        /\ reply[<<c, n>>][1].no = sent[c]
        /\ st[c] \in {"linking", "asking", "gone"}

\* Every request is executed, unless a client has crashed or the server has ended.
AllServed ==
    \A c \in Client : []<>(done[c] = sent[c] \/ crashed # {} \/ pc = "exited")
==============================================================================
