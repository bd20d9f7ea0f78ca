----------------------------- MODULE Connection -----------------------------
(***************************************************************************)
(* The connections of the server: TcpListener accepts them, HmpServer reads *)
(* a handshake and then requests from each and answers them, and            *)
(* bus_callback writes DTMF events to the connection that first configured  *)
(* the tool.                                                                *)
(*                                                                          *)
(* One thread runs all handlers of all connections, a step is one handler;  *)
(* the order in which ready handlers run is left open.  Events are written  *)
(* by the GLib thread at any time.  A message is sent in one or two chunks: *)
(* boost::asio::async_write sends at once what the kernel takes and leaves  *)
(* the rest to later handlers.                                              *)
(***************************************************************************)
EXTENDS Integers, Sequences, FiniteSets

CONSTANTS
  Conn,      \* clients, each with one connection
  NoConn,    \* core.sock before there is a core
  Capacity,  \* chunks the kernel holds for a client that does not read
  MaxSent,   \* messages each client sends, the handshake included
  MaxWrites  \* writes of a connection that wait, when an event is added

ASSUME ConnectionAssumption ==
  /\ NoConn \notin Conn
  /\ Capacity \in Nat /\ Capacity >= 2
  /\ MaxSent \in [Conn -> Nat]
  /\ MaxWrites \in Nat

VARIABLES
  phase,      \* what the server's HmpServer of a connection waits for
  peer,       \* the client's end: "left" has sent FIN, "rejecting" RST
  inbox,      \* sent by the client and not yet read
  kernel,     \* chunks sent by the server and not yet read
  queue,      \* writes in asio's reactor that wait for room
  posted,     \* writes sent in part, their continuation is ready to run
  sock,       \* core.sock: the connection the core was made for
  receiving,  \* the receiver of the tool is there
  death,      \* what ended the process
  client,     \* a client's sent, due (answers) and the answer it is within
  mangled,    \* history: clients that read something that is no answer or event
  hasty,      \* history: clients that left before their answers had come
  pipelining, \* history: clients that sent before their answers had come
  called,     \* history: clients an event was written to
  configured, \* history: clients that sent a set_config that was answered
  deserted    \* history: the client core.sock belongs to left a live receiver

network == <<peer, inbox, kernel>>
writes == <<queue, posted>>
core == <<sock, receiving>>
clients == <<client, mangled, hasty, pipelining>>
events == <<called, configured, deserted>>
vars == <<phase, network, writes, core, death, clients, events>>

Phases == {"offline", "backlog", "handshake", "request", "closed"}
Ends == {"here", "left", "rejecting", "reset"}

\* What a client may send first, and then.  "other" stands for connect, sys_req
\* and the commands, "malformed" for what makes proc throw.
Openings == {"surfapi", "wrong"}
Requests == {"config", "remove", "other", "malformed"}

Size == [hello |-> 1, answer |-> 2, event |-> 2]

\* Mutant: the handler of an event's write throws as those of answers do.
ThrowsAll == {"hello", "answer", "event"}

\* The writes whose handler throws when it is called with an error.
Throws == {"hello", "answer"}

Init ==
  /\ phase = [c \in Conn |-> "offline"]
  /\ peer = [c \in Conn |-> "here"]
  /\ inbox = [c \in Conn |-> << >>]
  /\ kernel = [c \in Conn |-> << >>]
  /\ queue = [c \in Conn |-> << >>]
  /\ posted = [c \in Conn |-> << >>]
  /\ sock = NoConn /\ receiving = FALSE
  /\ death = "none"
  /\ client = [c \in Conn |-> [sent |-> 0, due |-> 0, within |-> "none"]]
  /\ mangled = {} /\ hasty = {} /\ pipelining = {}
  /\ called = {} /\ configured = {} /\ deserted = FALSE

Up == death = "none"

\* The process ends, and with it every socket and all that waits there.
Die(cause) ==
  /\ death' = cause
  /\ phase' = [c \in Conn |-> "closed"]
  /\ inbox' = [c \in Conn |-> << >>]
  /\ kernel' = [c \in Conn |-> << >>]
  /\ queue' = [c \in Conn |-> << >>]
  /\ posted' = [c \in Conn |-> << >>]

-----------------------------------------------------------------------------
\* Writing.  A write is [kind, left]: the chunks of a message not yet sent.

Smaller(m, n) == IF m < n THEN m ELSE n

Room(c) == Capacity - Len(kernel[c])

\* n chunks of w reach the kernel.  late: they are taken from the buffers after
\* the function that started the write has returned.  A client that has left
\* gets nothing and answers with RST.
Transfer(c, w, n, late) ==
  LET Sent(i) == [kind |-> w.kind, part |-> Size[w.kind] - w.left + i, late |-> late]
  IN  /\ kernel' = IF peer[c] = "here"
                     THEN [kernel EXCEPT ![c] = @ \o [i \in 1 .. n |-> Sent(i)]]
                     ELSE kernel
      /\ peer' = IF peer[c] = "left" /\ n > 0 THEN [peer EXCEPT ![c] = "rejecting"] ELSE peer

\* async_write and each of its continuations: async_write_some sends what there
\* is room for unless another write is waiting, and joins the queue if that is
\* nothing.
Submit(c, w, others, late) ==
  LET n == IF queue[c] = << >> /\ peer[c] # "reset" THEN Smaller(Room(c), w.left) ELSE 0
      rest == [w EXCEPT !.left = @ - n]
  IN  /\ Transfer(c, w, n, late)
      /\ queue' = IF n = 0 THEN [queue EXCEPT ![c] = Append(@, w)] ELSE queue
      /\ posted' = [posted EXCEPT ![c] = IF n \in 1 .. w.left - 1 THEN Append(others, rest)
                                                                 ELSE others]

Send(c, kind) == Submit(c, [kind |-> kind, left |-> Size[kind]], posted[c], FALSE)

\* The socket has room: the write that waits first goes on.
Reactor(c) ==
  /\ Up /\ phase[c] # "closed" /\ peer[c] # "reset"
  /\ queue[c] # << >> /\ Room(c) > 0
  /\ LET w == Head(queue[c])
         n == Smaller(Room(c), w.left)
     IN  /\ Transfer(c, w, n, TRUE)
         /\ posted' = IF n < w.left
                        THEN [posted EXCEPT ![c] = Append(@, [w EXCEPT !.left = @ - n])]
                        ELSE posted
  /\ queue' = [queue EXCEPT ![c] = Tail(@)]
  /\ UNCHANGED <<phase, inbox, core, death, clients, events>>

\* async_write goes on with the rest of a write.
Continue(c) ==
  /\ Up /\ phase[c] # "closed" /\ posted[c] # << >>
  /\ Submit(c, Head(posted[c]), Tail(posted[c]), TRUE)
  /\ UNCHANGED <<phase, inbox, core, death, clients, events>>

Waiting(c) == {queue[c][i].kind : i \in DOMAIN queue[c]}
                \cup {posted[c][i].kind : i \in DOMAIN posted[c]}

\* A write that waits fails when its socket is closed or reset; the exception of
\* its handler leaves tcpio.run().
WriteFails(c) ==
  /\ Up
  /\ phase[c] = "closed" \/ peer[c] = "reset"
  /\ Waiting(c) \cap Throws # {}
  /\ Die("write")
  /\ UNCHANGED <<peer, core, clients, events>>

\* Those of s whose handler throws, in their order.
Heard(s) ==
  LET f[i \in 0 .. Len(s)] ==
        IF i = 0 THEN << >>
        ELSE IF s[i].kind \in Throws THEN Append(f[i - 1], s[i]) ELSE f[i - 1]
  IN  f[Len(s)]

\* The writes of events that wait on c fail, and nobody hears of it.
DropEvents(c) ==
  /\ queue' = [queue EXCEPT ![c] = Heard(@)]
  /\ posted' = [posted EXCEPT ![c] = Heard(@)]

-----------------------------------------------------------------------------
\* Accepting and reading.

\* start() reads the handshake; the listener goes on accepting.
Accept(c) ==
  /\ Up /\ phase[c] = "backlog"
  /\ phase' = [phase EXCEPT ![c] = "handshake"]
  /\ UNCHANGED <<network, writes, core, death, clients, events>>

\* accept fails, for want of descriptors, and the exception ends the process.
AcceptFails(c) ==
  /\ Up /\ phase[c] = "backlog"
  /\ Die("accept")
  /\ UNCHANGED <<peer, core, clients, events>>

Reads(c, at) ==
  /\ Up /\ phase[c] = at /\ inbox[c] # << >>
  /\ inbox' = [inbox EXCEPT ![c] = Tail(@)]

\* Mutant: the answer is sent whatever was read.
ReadHandshakeUnchecked(c) ==
  /\ Reads(c, "handshake")
  /\ Send(c, "hello")
  /\ phase' = [phase EXCEPT ![c] = "request"]
  /\ UNCHANGED <<core, death, clients, events>>

\* A wrong handshake is not answered, and the connection goes on.
ReadHandshake(c) ==
  /\ Reads(c, "handshake")
  /\ IF Head(inbox[c]) = "surfapi" THEN Send(c, "hello")
                                   ELSE UNCHANGED <<peer, kernel, writes>>
  /\ phase' = [phase EXCEPT ![c] = "request"]
  /\ UNCHANGED <<core, death, clients, events>>

\* The core is made by the first set_config and keeps that one's socket.
Configure(c) ==
  /\ sock' = IF sock = NoConn THEN c ELSE sock
  /\ receiving' = TRUE
  /\ configured' = configured \cup {c}

\* Mutant: after a remove nothing more is read, which lets go of the HmpServer.
ServeLast(c) ==
  /\ Reads(c, "request") /\ Head(inbox[c]) # "malformed"
  /\ Send(c, "answer")
  /\ CASE Head(inbox[c]) = "config" -> Configure(c)
       [] Head(inbox[c]) = "remove" -> receiving' = FALSE /\ UNCHANGED <<sock, configured>>
       [] Head(inbox[c]) = "other" -> UNCHANGED <<core, configured>>
  /\ phase' = [phase EXCEPT ![c] = IF Head(inbox[c]) = "remove" THEN "closed" ELSE @]
  /\ UNCHANGED <<death, clients, called, deserted>>

\* Mutant: proc leaves the writing of its answer to a later handler.
ServePosted(c) ==
  /\ Reads(c, "request") /\ Head(inbox[c]) # "malformed"
  /\ posted' = [posted EXCEPT ![c] = Append(@, [kind |-> "answer", left |-> Size["answer"]])]
  /\ CASE Head(inbox[c]) = "config" -> Configure(c)
       [] Head(inbox[c]) = "remove" -> receiving' = FALSE /\ UNCHANGED <<sock, configured>>
       [] Head(inbox[c]) = "other" -> UNCHANGED <<core, configured>>
  /\ UNCHANGED <<phase, peer, kernel, queue, death, clients, called, deserted>>

\* Length and data have been read, proc runs, answers, and the next length is
\* waited for.
Serve(c) ==
  /\ Reads(c, "request") /\ Head(inbox[c]) # "malformed"
  /\ Send(c, "answer")
  /\ CASE Head(inbox[c]) = "config" -> Configure(c)
       [] Head(inbox[c]) = "remove" -> receiving' = FALSE /\ UNCHANGED <<sock, configured>>
       [] Head(inbox[c]) = "other" -> UNCHANGED <<core, configured>>
  /\ UNCHANGED <<phase, death, clients, called, deserted>>

\* parse throws on what is empty, longer than buffer, or not JSON.
ServeMalformed(c) ==
  /\ Up /\ phase[c] = "request" /\ inbox[c] # << >>
  /\ Head(inbox[c]) = "malformed"
  /\ Die("request")
  /\ UNCHANGED <<peer, core, clients, events>>

\* A read meets the end of the stream, or RST: proc_error shuts down and closes.
ProcError(c) ==
  /\ Up /\ phase[c] \in {"handshake", "request"}
  /\ inbox[c] = << >> /\ peer[c] # "here"
  /\ phase' = [phase EXCEPT ![c] = "closed"]
  /\ DropEvents(c)
  /\ UNCHANGED <<network, core, death, clients, events>>

Asio(c) ==
  \/ Accept(c) \/ ReadHandshake(c) \/ Serve(c) \/ ServeMalformed(c) \/ ProcError(c)
  \/ Reactor(c) \/ Continue(c) \/ WriteFails(c)

-----------------------------------------------------------------------------
\* The HmpServer of c is gone: no read handler holds it, nor does one of the
\* writes that do.
Destroyed(c) == phase[c] = "closed" /\ Waiting(c) \cap Throws = {}

\* The GLib thread: rtpdtmfdepay reports a digit.  The write fails silently on a
\* socket that is closed or reset; one that has been destroyed is used all the
\* same, and nothing can be said of what follows.
DtmfEvent ==
  /\ Up /\ receiving
  /\ Len(queue[sock]) + Len(posted[sock]) < MaxWrites
  /\ IF Destroyed(sock)
       THEN Die("freed") /\ UNCHANGED <<peer, called>>
       ELSE /\ IF phase[sock] = "closed" \/ peer[sock] = "reset"
                 THEN UNCHANGED <<peer, kernel, writes, called>>
                 ELSE Send(sock, "event") /\ called' = called \cup {sock}
            /\ UNCHANGED <<phase, inbox, death>>
  /\ UNCHANGED <<core, clients, configured, deserted>>

-----------------------------------------------------------------------------
\* Clients.

Connect(c) ==
  /\ Up /\ phase[c] = "offline"
  /\ phase' = [phase EXCEPT ![c] = "backlog"]
  /\ UNCHANGED <<network, writes, core, death, clients, events>>

ClientSend(c, message) ==
  /\ Up /\ phase[c] # "offline" /\ peer[c] = "here"
  /\ client[c].sent < MaxSent[c]
  /\ message \in IF client[c].sent = 0 THEN Openings ELSE Requests
  /\ inbox' = [inbox EXCEPT ![c] = Append(@, message)]
  /\ client' = [client EXCEPT ![c].sent = @ + 1,
                              ![c].due = IF message = "wrong" THEN @ ELSE @ + 1]
  /\ pipelining' = IF client[c].due > 0 THEN pipelining \cup {c} ELSE pipelining
  /\ UNCHANGED <<phase, peer, kernel, writes, core, death, mangled, hasty, events>>

\* The client reads a chunk.  What was taken from buffers that are gone may be
\* anything, a hello's are a member of HmpServer.
ClientRead(c) ==
  /\ Up /\ peer[c] = "here" /\ kernel[c] # << >>
  /\ kernel' = [kernel EXCEPT ![c] = Tail(@)]
  /\ LET chunk == Head(kernel[c])
         fits == IF client[c].within = "none" THEN chunk.part = 1
                                              ELSE chunk.part = 2 /\ chunk.kind = client[c].within
         last == chunk.part = Size[chunk.kind]
     IN \E intact \in IF chunk.late /\ chunk.kind # "hello" THEN BOOLEAN ELSE {TRUE} :
          IF c \notin mangled /\ fits /\ intact
            THEN /\ client' = [client EXCEPT
                      ![c].within = IF last THEN "none" ELSE chunk.kind,
                      ![c].due = IF last /\ chunk.kind # "event" THEN @ - 1 ELSE @]
                 /\ UNCHANGED mangled
            ELSE mangled' = mangled \cup {c} /\ UNCHANGED client
  /\ UNCHANGED <<phase, peer, inbox, writes, core, death, hasty, pipelining, events>>

\* The client closes; what it has not read turns its FIN into RST.
HangUp(c) ==
  /\ Up /\ phase[c] # "offline" /\ peer[c] = "here"
  /\ peer' = [peer EXCEPT ![c] = IF kernel[c] = << >> THEN "left" ELSE "rejecting"]
  /\ kernel' = [kernel EXCEPT ![c] = << >>]
  /\ hasty' = IF client[c].due > 0 THEN hasty \cup {c} ELSE hasty
  /\ deserted' = (deserted \/ (receiving /\ sock = c))
  /\ UNCHANGED <<phase, inbox, writes, core, death, client, mangled, pipelining,
                 called, configured>>

\* RST arrives.
Reset(c) ==
  /\ Up /\ peer[c] = "rejecting"
  /\ peer' = [peer EXCEPT ![c] = "reset"]
  /\ DropEvents(c)
  /\ UNCHANGED <<phase, inbox, kernel, core, death, clients, events>>

Client(c) ==
  \/ Connect(c) \/ ClientRead(c) \/ HangUp(c) \/ Reset(c)
  \/ \E message \in Openings \cup Requests : ClientSend(c, message)

Next == DtmfEvent \/ \E c \in Conn : Asio(c) \/ AcceptFails(c) \/ Client(c)

Spec == Init /\ [][Next]_vars

\* io_service goes on running handlers, and clients go on reading.
FairSpec ==
  /\ Spec
  /\ \A c \in Conn :
       /\ WF_vars(Accept(c)) /\ WF_vars(ReadHandshake(c)) /\ WF_vars(Serve(c))
       /\ WF_vars(ServeMalformed(c))
       /\ WF_vars(Reactor(c)) /\ WF_vars(Continue(c))
       /\ WF_vars(ClientRead(c))

-----------------------------------------------------------------------------
Chunk == {x \in [kind : DOMAIN Size, part : 1 .. 2, late : BOOLEAN] : x.part <= Size[x.kind]}
Write == {w \in [kind : DOMAIN Size, left : 1 .. 2] : w.left <= Size[w.kind]}

\* Every connection, the network and the clients hold what they may hold; the
\* kernel never takes more than it has room for.
TypeOK ==
  /\ phase \in [Conn -> Phases]
  /\ peer \in [Conn -> Ends]
  /\ inbox \in [Conn -> Seq(Openings \cup Requests)]
  /\ kernel \in [Conn -> Seq(Chunk)]
  /\ \A c \in Conn : Len(kernel[c]) <= Capacity
  /\ queue \in [Conn -> Seq(Write)]
  /\ posted \in [Conn -> Seq(Write)]
  /\ sock \in Conn \cup {NoConn} /\ receiving \in BOOLEAN
  /\ death \in {"none", "accept", "request", "write", "freed"}
  /\ client \in [Conn -> [sent : Nat, due : Nat, within : {"none", "answer", "event"}]]
  /\ \A c \in Conn : client[c].sent <= MaxSent[c]
  /\ mangled \subseteq Conn /\ hasty \subseteq Conn /\ pipelining \subseteq Conn
  /\ called \subseteq Conn /\ configured \subseteq Conn /\ deserted \in BOOLEAN

Count(s, S) == Cardinality({i \in DOMAIN s : s[i] \in S})

\* What is answered, what ends an answer, and what has an answer's end to send.
Answered == (Openings \cup Requests) \ {"wrong"}
Ending == {x \in Chunk : x.kind # "event" /\ x.part = Size[x.kind]}
Answering == {w \in Write : w.kind # "event"}

\* The requests of c still to be served, and the answers on their way to it: the
\* last chunk of each is in the kernel or part of a write that waits.
Unserved(c) == Count(inbox[c], Answered)
Underway(c) ==
  Count(kernel[c], Ending) + Count(queue[c], Answering) + Count(posted[c], Answering)

\* HmpServer answers each request once: what a client waits for is either a
\* request not yet served or an answer underway, however its writes were split
\* and whatever events came between.
OneAnswerPerRequest ==
  \A c \in Conn :
    Up /\ peer[c] = "here" /\ c \notin mangled => client[c].due = Unserved(c) + Underway(c)

\* The throw in the handlers of hello and answer ends the server only because
\* a client closed before it had read its answers: neither events, nor other
\* clients, nor the shutdown of proc_error make a write of an answer fail.
WriteErrorsNeedHaste == death = "write" => hasty # {}

\* A client that sends one request at a time and is sent no event reads every
\* answer whole: dangling buffers and mixed writes need a second message.
WaitingClientsReadWhole == mangled \subseteq pipelining \cup called

\* bus_callback uses a socket that has been destroyed only if the client that
\* core.sock belongs to has closed, and it left its receiver running, or did not
\* wait for its answers, or another client has configured the same tool again.
FreedSocketNeedsHangUp ==
  death = "freed" => /\ peer[sock] # "here"
                     /\ deserted \/ sock \in hasty \/ configured # {sock}

\* A client that keeps reading and sends what can be parsed gets its answers,
\* unless it leaves, the server dies, or something else was mixed into them.
AnswersArrive ==
  \A c \in Conn :
    client[c].due > 0 ~> client[c].due = 0 \/ peer[c] # "here" \/ c \in mangled \/ ~Up

=============================================================================
