---------------------------- MODULE ServerProofs ----------------------------
(***************************************************************************)
(* For any number of clients, messages and signals and any backlog: the    *)
(* server closes every descriptor once unless signals cross, and no client *)
(* finds an answer that is not to the message it waits for.                *)
(***************************************************************************)
EXTENDS Server, TLAPS

Message == [kind : {"message", "TERMINATE", "part"}, n : Nat]

\* The streams of a connection never hold more than one message each way.
Streams(M) == {<<>>} \cup {<<m>> : m \in M}

Places == {"none", "test", "close", "clear", "done"}

Types ==
    /\ running \in BOOLEAN /\ listenFd \in BOOLEAN /\ crossed \in BOOLEAN
    /\ socket \in {"none", "open", "closed"} /\ listenCloses \in Nat
    /\ handler \in [Signals -> [by : Threads, at : Places]]
    /\ main \in {"start", "bind", "test", "accept", "blocked", "join", "exit", "stopped"}
    /\ backlog \in Seq(Clients)
    /\ conn \in [Clients -> {"none", "queued", "open", "closed"}]
    /\ worker \in [Clients -> {"none", "test", "recv", "handle", "close", "done"}]
    /\ closes \in [Clients -> Nat]
    /\ up \in [Clients -> Streams(Message)]
    /\ down \in [Clients -> Streams(Nat)]
    /\ client \in [Clients -> {"off", "prompt", "wait", "gone"}]
    /\ sent \in [Clients -> Nat]

\* A handler runs on main or on a worker that has not ended, the descriptor of an open
\* socket is in g_listen_fd, and main ends after the last worker and without a socket.
Signalled ==
    /\ \A s \in Signals : InHandler(s) =>
         handler[s].by = Main \/ worker[handler[s].by] \notin {"none", "done"}
    /\ socket = "open" => listenFd
    /\ socket = "none" => main \in {"start", "stopped"}
    /\ \A s \in Signals : handler[s].at = "clear" => socket # "open"
    /\ main = "start" =>
         /\ ~listenFd /\ socket = "none" /\ listenCloses = 0
         /\ \A s \in Signals : handler[s].at \notin {"close", "clear"}
    /\ main \in {"start", "bind"} => \A c \in Clients : worker[c] = "none"
    /\ main \in {"exit", "stopped"} => socket # "open"

\* As long as no signals cross, one handler runs at a time, and whoever is about to
\* close the descriptor is the first to do so.
Uncrossed ==
    ~crossed =>
      /\ \A q, s \in Signals : InHandler(q) /\ InHandler(s) => q = s
      /\ listenCloses <= 1
      /\ (/\ listenFd /\ main \notin {"exit", "stopped"}
          /\ \A s \in Signals : handler[s].at # "clear") => listenCloses = 0
      /\ \A s \in Signals : handler[s].at = "close" => listenFd /\ listenCloses = 0
      /\ main \in {"exit", "stopped"} => \A s \in Signals : ~InHandler(s)

InBacklog(c) == \E i \in 1 .. Len(backlog) : backlog[i] = c

\* A connection is queued, served by its worker or over, and its descriptor is closed
\* exactly when the worker is done; the queue dies with the listening socket.
Connections ==
    /\ \A i, j \in 1 .. Len(backlog) : backlog[i] = backlog[j] => i = j
    /\ \A c \in Clients :
         /\ conn[c] = "queued" <=> InBacklog(c)
         /\ client[c] = "off" => conn[c] = "none"
         /\ conn[c] = "open" <=> worker[c] \notin {"none", "done"}
         /\ worker[c] = "done" => conn[c] = "closed"
         /\ closes[c] = IF worker[c] = "done" THEN 1 ELSE 0
    /\ ~Alive => backlog = <<>>
    /\ main \in {"exit", "stopped"} => \A c \in Clients : worker[c] \in {"none", "done"}

\* Between a client and its worker there is one message at most, a question on its way
\* up or its answer on its way down, and it carries the number the client waits for.
Mailboxes ==
    \A c \in Clients :
        /\ up[c] = <<>> \/ down[c] = <<>>
        /\ client[c] \in {"off", "prompt"} => up[c] = <<>> /\ down[c] = <<>>
        /\ client[c] = "wait" =>
             /\ \A i \in DOMAIN up[c] : up[c][i].n = sent[c]
             /\ \A i \in DOMAIN down[c] : down[c][i] = sent[c]
        /\ worker[c] = "handle" => up[c] # <<>>

ServerInv == Types /\ Signalled /\ Uncrossed /\ Connections /\ Mailboxes
-----------------------------------------------------------------------------
\* The operators on streams of at most one message.
LEMMA StreamOps ==
    ASSUME NEW m
    PROVE  /\ Append(<<>>, m) = <<m>> /\ Tail(<<m>>) = <<>> /\ Head(<<m>>) = m
           /\ <<>> \o <<>> = <<>> /\ <<>> \o <<m>> = <<m>>
           /\ <<m>> # <<>> /\ Len(<<m>>) = 1 /\ Len(<<>>) = 0
           /\ DOMAIN <<m>> = {1} /\ DOMAIN <<>> = {} /\ <<m>>[1] = m
  OBVIOUS

LEMMA StreamCases ==
    ASSUME NEW M, NEW s \in Streams(M)
    PROVE  s = <<>> \/ \E m \in M : s = <<m>>
  BY DEF Streams

LEMMA InStreams ==
    ASSUME NEW M
    PROVE  <<>> \in Streams(M) /\ \A m \in M : <<m>> \in Streams(M)
  BY DEF Streams

\* What HandleQuery appends for one reply is one number.
LEMMA OneAnswer ==
    ASSUME NEW n, NEW ok \in BOOLEAN
    PROVE  [i \in DOMAIN Replies(ok) |-> n] = <<n>>
  <1>1. PICK k \in {"RESULT", "ERROR"} : Replies(ok) = <<k>>
    BY DEF Replies
  <1>2. [i \in DOMAIN <<k>> |-> n] = <<n>>
    OBVIOUS
  <1> QED  BY <1>1, <1>2

LEMMA InitServerInv == Init => ServerInv
  <1> SUFFICES ASSUME Init PROVE ServerInv
    OBVIOUS
  <1> USE DEF Init
  <1>1. Types
    <2>1. handler \in [Signals -> [by : Threads, at : Places]]
      BY DEF Threads, Places
    <2>2. /\ up \in [Clients -> Streams(Message)] /\ down \in [Clients -> Streams(Nat)]
          /\ backlog \in Seq(Clients)
      BY InStreams
    <2> QED  BY <2>1, <2>2 DEF Types
  <1>2. Signalled
    BY DEF Signalled, InHandler
  <1>5. Uncrossed
    BY DEF Uncrossed, InHandler
  <1>3. Connections
    BY DEF Connections, InBacklog, Alive
  <1>4. Mailboxes
    BY DEF Mailboxes
  <1> QED  BY <1>1, <1>2, <1>3, <1>4, <1>5 DEF ServerInv
-----------------------------------------------------------------------------
(* The client's steps. *)
LEMMA ConnectInv ==
    ASSUME ServerInv, NEW c \in Clients, Connect(c)
    PROVE  ServerInv'
  <1> USE DEF ServerInv
  <1>1. backlog' = Append(backlog, c) /\ Len(backlog') = Len(backlog) + 1
        /\ backlog'[Len(backlog) + 1] = c
        /\ \A i \in 1 .. Len(backlog) : backlog'[i] = backlog[i]
        /\ Len(backlog) \in Nat
    BY DEF Connect, Types
  <1>2. ~InBacklog(c) /\ conn[c] = "none" /\ worker[c] \in {"none", "done"}
        /\ up[c] = <<>> /\ down[c] = <<>> /\ worker[c] # "done"
    BY DEF Connect, Connections, Mailboxes, Types
  <1>3. Types'
    BY DEF Connect, Types, sig, listen
  <1>4. Signalled' /\ Uncrossed'
    BY DEF Connect, Signalled, Uncrossed, InHandler, sig, listen
  <1>5. \A b \in Clients : InBacklog(b)' <=> InBacklog(b) \/ b = c
    BY <1>1 DEF InBacklog
  <1>6. Connections'
    <2>1. \A i, j \in 1 .. Len(backlog)' : backlog'[i] = backlog'[j] => i = j
      BY <1>1, <1>2 DEF Connections, InBacklog
    <2>2. \A b \in Clients :
            /\ (conn[b] = "queued" <=> InBacklog(b))'
            /\ client'[b] = "off" => conn'[b] = "none"
            /\ conn'[b] = "open" <=> worker'[b] \notin {"none", "done"}
            /\ worker'[b] = "done" => conn'[b] = "closed"
            /\ closes'[b] = IF worker'[b] = "done" THEN 1 ELSE 0
      BY <1>2, <1>5 DEF Connect, Connections, Types
    <2>3. (~Alive => backlog = <<>>)'
          /\ (main \in {"exit", "stopped"} => \A b \in Clients : worker[b] \in {"none", "done"})'
      BY DEF Connect, Connections, Alive, sig, listen
    <2> QED  BY <2>1, <2>2, <2>3 DEF Connections
  <1>7. Mailboxes'
    BY <1>2 DEF Connect, Mailboxes, Types
  <1> QED  BY <1>3, <1>4, <1>6, <1>7

\* A step that leaves the server's own state alone, and moves a client without ever
\* taking it back to "off".
LEMMA ServerUntouched ==
    ASSUME ServerInv, Types', UNCHANGED server,
           \A c \in Clients : client'[c] = "off" => client[c] = "off"
    PROVE  Signalled' /\ Uncrossed' /\ Connections'
  <1>1. Signalled' /\ Uncrossed'
    BY DEF ServerInv, Signalled, Uncrossed, InHandler, server, sig, listen
  <1>2. Connections'
    BY DEF ServerInv, Connections, InBacklog, Alive, server, sig, listen
  <1> QED  BY <1>1, <1>2

LEMMA SendMessageInv ==
    ASSUME ServerInv, NEW c \in Clients, SendMessage(c)
    PROVE  ServerInv'
  <1> DEFINE m == [kind |-> "message", n |-> sent[c] + 1]
  <1> USE DEF ServerInv
  <1>1. up[c] = <<>> /\ down[c] = <<>> /\ client[c] = "prompt"
    BY DEF SendMessage, Mailboxes
  <1>2. m \in Message /\ Append(up[c], m) = <<m>> /\ m.n = sent[c] + 1
    BY <1>1, StreamOps DEF Message, Types
  <1>3. (up' = [up EXCEPT ![c] = <<m>>] \/ up' = up) /\ down' = down
        /\ client' = [client EXCEPT ![c] = "wait"]
        /\ sent' = [sent EXCEPT ![c] = @ + 1] /\ UNCHANGED server
    BY <1>2 DEF SendMessage
  <1> HIDE DEF m
  <1>4. Types'
    <2>1. up' \in [Clients -> Streams(Message)]
      <3>1. <<m>> \in Streams(Message) /\ up \in [Clients -> Streams(Message)]
        BY <1>2, InStreams DEF Types
      <3> QED  BY <1>3, <3>1
    <2>2. client' \in [Clients -> {"off", "prompt", "wait", "gone"}] /\ sent' \in [Clients -> Nat]
      BY <1>3 DEF Types
    <2> QED  BY <1>3, <2>1, <2>2 DEF Types, server, sig, listen
  <1>5. Signalled' /\ Uncrossed' /\ Connections'
    BY <1>3, <1>4, ServerUntouched DEF Types
  <1>6. Mailboxes'
    <2>1. worker' = worker
      BY <1>3 DEF server
    <2>2. \A i \in DOMAIN <<m>> : <<m>>[i].n = sent'[c]
      BY <1>2, <1>3, StreamOps DEF Types
    <2>3. <<m>> # <<>> /\ DOMAIN <<>> = {}
      BY StreamOps
    <2>4. \A b \in Clients : b # c => /\ up'[b] = up[b] /\ client'[b] = client[b]
                                      /\ sent'[b] = sent[b]
      BY <1>3 DEF Types
    <2>5. up'[c] \in {<<>>, <<m>>} /\ client'[c] = "wait"
      BY <1>1, <1>3 DEF Types
    <2> QED  BY <1>1, <1>3, <2>1, <2>2, <2>3, <2>4, <2>5 DEF Mailboxes
  <1> QED  BY <1>4, <1>5, <1>6

LEMMA RecvMessageInv ==
    ASSUME ServerInv, NEW c \in Clients, RecvMessage(c)
    PROVE  ServerInv'
  <1> USE DEF ServerInv
  <1>0. UNCHANGED <<server, up, sent>> /\ worker' = worker /\ client[c] = "wait"
    BY DEF RecvMessage, server
  <1>1. CASE down[c] # <<>> /\ down' = [down EXCEPT ![c] = Tail(@)]
             /\ client' = [client EXCEPT ![c] = "prompt"]
    <2>0. PICK a \in Nat : down[c] = <<a>>
      BY <1>1, StreamCases DEF Types
    <2>1. up[c] = <<>> /\ Tail(down[c]) = <<>>
      BY <1>1, <2>0, StreamOps DEF Mailboxes
    <2>2. down' = [down EXCEPT ![c] = <<>>]
      BY <1>1, <2>1
    <2>3. Types'
      <3>1. <<>> \in Streams(Nat)
        BY InStreams
      <3>2. client' \in [Clients -> {"off", "prompt", "wait", "gone"}]
        BY <1>1 DEF Types
      <3>3. down' \in [Clients -> Streams(Nat)]
        BY <2>2, <3>1 DEF Types
      <3> QED  BY <1>0, <3>2, <3>3 DEF Types, server, sig, listen
    <2>4. Signalled' /\ Uncrossed' /\ Connections'
      BY <1>0, <1>1, <2>3, ServerUntouched DEF Types
    <2>5. Mailboxes'
      BY <1>0, <1>1, <2>1, <2>2 DEF Mailboxes, Types
    <2> QED  BY <2>3, <2>4, <2>5
  <1>2. CASE client' = [client EXCEPT ![c] = "gone"] /\ UNCHANGED down
    <2>1. Types'
      BY <1>0, <1>2 DEF Types, server, sig, listen
    <2>2. Signalled' /\ Uncrossed' /\ Connections'
      BY <1>0, <1>2, <2>1, ServerUntouched DEF Types
    <2>3. Mailboxes'
      BY <1>0, <1>2 DEF Mailboxes, Types
    <2> QED  BY <2>1, <2>2, <2>3
  <1> QED  BY <1>1, <1>2 DEF RecvMessage

LEMMA QuitInv ==
    ASSUME ServerInv, NEW c \in Clients, NEW last \in {<<>>, Terminate, Part},
           Quit(c, last)
    PROVE  ServerInv'
  <1> USE DEF ServerInv
  <1>1. up[c] \o last \in Streams(Message)
        /\ (last # <<>> => down[c] = <<>>) /\ (last = <<>> => up[c] \o last = up[c])
    <2>1. CASE client[c] = "wait"
      <3>1. last = <<>>
        BY <2>1 DEF Quit
      <3>2. up[c] \o <<>> = up[c]
        BY StreamCases, StreamOps DEF Types
      <3> QED  BY <3>1, <3>2 DEF Types
    <2>2. CASE client[c] = "prompt"
      <3>1. up[c] = <<>> /\ down[c] = <<>>
        BY <2>2 DEF Mailboxes
      <3>2. last \in Streams(Message)
        <4>1. [kind |-> "TERMINATE", n |-> 0] \in Message
              /\ [kind |-> "part", n |-> 0] \in Message
          BY DEF Message
        <4> QED  BY <4>1, InStreams DEF Terminate, Part
      <3>3. <<>> \o last = last
        BY StreamOps DEF Terminate, Part
      <3> QED  BY <3>1, <3>2, <3>3
    <2> QED  BY <2>1, <2>2 DEF Quit
  <1>2. /\ client' = [client EXCEPT ![c] = "gone"]
        /\ up' = [up EXCEPT ![c] = @ \o last] \/ up' = up
        /\ down' = [down EXCEPT ![c] = <<>>]
        /\ UNCHANGED <<server, sent>> /\ worker' = worker
    BY DEF Quit, server
  <1>3. Types'
    BY <1>1, <1>2, InStreams DEF Types, server, sig, listen
  <1>4. Signalled' /\ Uncrossed' /\ Connections'
    BY <1>2, <1>3, ServerUntouched DEF Types
  <1>5. worker[c] = "handle" => last = <<>>
    BY DEF Mailboxes, Quit
  <1>6. Mailboxes'
    BY <1>1, <1>2, <1>5 DEF Mailboxes, Types
  <1> QED  BY <1>3, <1>4, <1>6
-----------------------------------------------------------------------------
(* The worker's steps. *)

\* A worker that moves from one place of its loop to another.
LEMMA WorkerMoves ==
    ASSUME ServerInv, NEW c \in Clients, Free(c),
           worker[c] \notin {"none", "done"},
           NEW at \in {"test", "recv", "handle", "close"}, Goto(c, at),
           at = "handle" => up[c] # <<>>,
           UNCHANGED <<listen, sig, main, backlog, conn, closes, up, down, client, sent>>
    PROVE  ServerInv'
  <1> USE DEF ServerInv
  <1>1. worker' = [worker EXCEPT ![c] = at]
    BY DEF Goto
  <1>2. Types'
    BY <1>1 DEF Types, sig, listen
  <1>3. Signalled' /\ Uncrossed'
    <2>1. main \notin {"start", "bind"}
      BY DEF Signalled
    <2>2. Signalled'
      BY <1>1, <2>1 DEF Signalled, InHandler, Types, sig, listen
    <2>3. Uncrossed'
      BY DEF Uncrossed, InHandler, sig, listen
    <2> QED  BY <2>2, <2>3
  <1>4. Connections'
    <2>1. main \notin {"exit", "stopped"}
      BY DEF Connections
    <2> QED  BY <1>1, <2>1 DEF Connections, InBacklog, Alive, Types, sig, listen
  <1>5. Mailboxes'
    BY <1>1 DEF Mailboxes, Types
  <1> QED  BY <1>2, <1>3, <1>4, <1>5

LEMMA TestRunningInv ==
    ASSUME ServerInv, NEW c \in Clients, Free(c), TestRunning(c)
    PROVE  ServerInv'
  BY WorkerMoves DEF TestRunning, ServerInv, Types

LEMMA RecvInv ==
    ASSUME ServerInv, NEW c \in Clients, Free(c), Recv(c)
    PROVE  ServerInv'
  BY WorkerMoves DEF Recv

LEMMA HandleQueryInv ==
    ASSUME ServerInv, NEW c \in Clients, Free(c), NEW ok \in BOOLEAN, HandleQuery(c, ok)
    PROVE  ServerInv'
  <1> USE DEF ServerInv
  <1>1. worker[c] = "handle" /\ Goto(c, "test")
        /\ UNCHANGED <<listen, sig, main, backlog, conn, closes, client, sent>>
    BY DEF HandleQuery
  <1>2. PICK m \in Message : up[c] = <<m>>
    BY <1>1, StreamCases DEF Mailboxes, Types
  <1>3. m.n \in Nat /\ [i \in DOMAIN Replies(ok) |-> m.n] = <<m.n>>
    BY OneAnswer DEF Message
  <1>4. down[c] = <<>> /\ Head(up[c]) = m /\ Tail(up[c]) = <<>>
        /\ <<>> \o <<m.n>> = <<m.n>>
    BY <1>2, StreamOps DEF Mailboxes
  <1>5. /\ up' = [up EXCEPT ![c] = <<>>]
        /\ down' = down \/ down' = [down EXCEPT ![c] = <<m.n>>]
    BY <1>3, <1>4 DEF HandleQuery
  <1>6. worker' = [worker EXCEPT ![c] = "test"]
    BY <1>1 DEF Goto
  <1>7. Types'
    <2>1. <<>> \in Streams(Message) /\ <<m.n>> \in Streams(Nat)
      BY <1>3, InStreams
    <2>2. up' \in [Clients -> Streams(Message)] /\ down' \in [Clients -> Streams(Nat)]
      BY <1>5, <2>1 DEF Types
    <2> QED  BY <1>1, <1>6, <2>2 DEF Types, sig, listen
  <1>8. Signalled' /\ Uncrossed'
    <2>1. main \notin {"start", "bind"}
      BY <1>1 DEF Signalled
    <2>2. Signalled'
      BY <1>1, <1>6, <2>1 DEF Signalled, InHandler, Types, sig, listen
    <2>3. Uncrossed'
      BY <1>1 DEF Uncrossed, InHandler, sig, listen
    <2> QED  BY <2>2, <2>3
  <1>9. Connections'
    <2>1. main \notin {"exit", "stopped"}
      BY <1>1 DEF Connections
    <2> QED  BY <1>1, <1>6, <2>1 DEF Connections, InBacklog, Alive, Types, sig, listen
  <1>10. Mailboxes'
    <2>1. client[c] \notin {"off", "prompt"}
      BY <1>2, StreamOps DEF Mailboxes
    <2>2. client[c] = "wait" => \A i \in DOMAIN <<m.n>> : <<m.n>>[i] = sent[c]
      BY <1>2, StreamOps DEF Mailboxes
    <2>3. DOMAIN <<>> = {}
      BY StreamOps
    <2>4. /\ up'[c] = <<>> /\ down'[c] \in {<<>>, <<m.n>>} /\ worker'[c] = "test"
          /\ \A b \in Clients : b # c => /\ up'[b] = up[b] /\ down'[b] = down[b]
                                         /\ worker'[b] = worker[b]
      BY <1>4, <1>5, <1>6 DEF Types
    <2> QED  BY <1>1, <2>1, <2>2, <2>3, <2>4 DEF Mailboxes
  <1> QED  BY <1>7, <1>8, <1>9, <1>10

LEMMA CloseInv ==
    ASSUME ServerInv, NEW c \in Clients, Free(c), Close(c)
    PROVE  ServerInv'
  <1> USE DEF ServerInv
  <1>1. /\ worker[c] = "close" /\ worker' = [worker EXCEPT ![c] = "done"]
        /\ conn' = [conn EXCEPT ![c] = "closed"]
        /\ closes' = [closes EXCEPT ![c] = @ + 1]
        /\ up' = [up EXCEPT ![c] = <<>>]
        /\ UNCHANGED <<listen, sig, main, backlog, down, client, sent>>
    BY DEF Close, Goto
  <1>2. Types'
    BY <1>1, InStreams DEF Types, sig, listen
  <1>3. Signalled' /\ Uncrossed'
    <2>1. main \notin {"start", "bind"}
      BY <1>1 DEF Signalled
    <2>2. Signalled'
      BY <1>1, <2>1 DEF Signalled, InHandler, Types, sig, listen, Free
    <2>3. Uncrossed'
      BY <1>1 DEF Uncrossed, InHandler, sig, listen
    <2> QED  BY <2>2, <2>3
  <1>4. Connections'
    <2>1. conn[c] = "open" /\ ~InBacklog(c) /\ closes[c] = 0
      BY <1>1 DEF Connections
    <2> QED  BY <1>1, <2>1 DEF Connections, InBacklog, Alive, Types, sig, listen
  <1>5. Mailboxes'
    BY <1>1, StreamOps DEF Mailboxes, Types
  <1> QED  BY <1>2, <1>3, <1>4, <1>5
-----------------------------------------------------------------------------
(* The signal handler's steps. *)

\* The connections of a queue that is given up: they are closed, the others as before.
LEMMA ResetConn ==
    ASSUME ServerInv, NEW queue \in Seq(Clients)
    PROVE  /\ Reset(queue) \in [Clients -> {"none", "queued", "open", "closed"}]
           /\ \A c \in Clients :
                Reset(queue)[c] = IF \E i \in 1 .. Len(queue) : queue[i] = c
                                  THEN "closed" ELSE conn[c]
  <1>1. DOMAIN queue = 1 .. Len(queue)
    OBVIOUS
  <1> QED  BY <1>1 DEF Reset, ServerInv, Types

\* The listening socket goes, and the connections in its queue with it, or nothing
\* happens to either.
Dropped == backlog' = <<>> /\ conn' = Reset(backlog)

LEMMA DropInv ==
    ASSUME ServerInv, Dropped \/ UNCHANGED <<backlog, conn>>,
           UNCHANGED <<worker, closes, client>>,
           main' \in {"exit", "stopped"} =>
             \/ main \in {"exit", "stopped"}
             \/ \A c \in Clients : worker[c] \in {"none", "done"},
           ~Alive' => Dropped \/ ~Alive
    PROVE  /\ Connections'
           /\ backlog' \in Seq(Clients)
           /\ conn' \in [Clients -> {"none", "queued", "open", "closed"}]
  <1> USE DEF ServerInv
  <1>1. /\ Reset(backlog) \in [Clients -> {"none", "queued", "open", "closed"}]
        /\ \A c \in Clients : Reset(backlog)[c] = IF InBacklog(c) THEN "closed" ELSE conn[c]
    BY ResetConn DEF Types, InBacklog
  <1>2. backlog' \in Seq(Clients) /\ conn' \in [Clients -> {"none", "queued", "open", "closed"}]
    <2>1. backlog' = backlog \/ backlog' = <<>>
      BY DEF Dropped
    <2>2. <<>> \in Seq(Clients) /\ backlog \in Seq(Clients)
      BY DEF Types
    <2> QED  BY <1>1, <2>1, <2>2 DEF Types, Dropped
  <1>3. (main \in {"exit", "stopped"} => \A c \in Clients : worker[c] \in {"none", "done"})'
    BY DEF Connections
  <1>4. CASE Dropped
    <2>1. backlog' = <<>> /\ Len(backlog') = 0 /\ conn' = Reset(backlog)
          /\ \A c \in Clients : ~InBacklog(c)'
      BY <1>4 DEF InBacklog, Dropped
    <2> QED  BY <1>1, <1>2, <1>3, <2>1 DEF Connections
  <1>5. CASE UNCHANGED <<backlog, conn>> /\ ~Dropped
    BY <1>2, <1>3, <1>5 DEF Connections, InBacklog
  <1> QED  BY <1>4, <1>5

LEMMA SignalInv ==
    ASSUME ServerInv, NEW t \in Threads, NEW s \in Signals, Signal(t, s)
    PROVE  ServerInv'
  <1> USE DEF ServerInv
  <1>1. /\ handler' = [handler EXCEPT ![s] = [by |-> t, at |-> "test"]]
        /\ handler[s].at = "none" /\ running' = FALSE /\ main # "stopped"
        /\ t = Main \/ worker[t] \notin {"none", "done"}
        /\ UNCHANGED <<listenFd, socket, listenCloses, worker, closes, up, down, client, sent>>
    BY DEF Signal
  <1>2. /\ main' = main \/ (main = "blocked" /\ main' = "accept")
        /\ Dropped \/ UNCHANGED <<backlog, conn>>
        /\ main' # main /\ socket = "closed" => Dropped
    BY DEF Signal, Dropped
  <1>3. /\ handler'[s] = [by |-> t, at |-> "test"]
        /\ \A q \in Signals : q # s => handler'[q] = handler[q]
        /\ handler' \in [Signals -> [by : Threads, at : Places]]
    BY <1>1 DEF Types, Places
  <1>4. /\ crossed' \in BOOLEAN
        /\ ~crossed' => ~crossed /\ main # "exit" /\ \A q \in Signals : ~InHandler(q)
    BY DEF Signal
  <1>5. /\ InHandler(s)' /\ ~InHandler(s) /\ handler'[s].by = t /\ handler'[s].at = "test"
        /\ \A q \in Signals : q # s => (InHandler(q)' <=> InHandler(q))
    BY <1>1, <1>3 DEF InHandler
  <1>6. Connections' /\ backlog' \in Seq(Clients)
        /\ conn' \in [Clients -> {"none", "queued", "open", "closed"}]
    <2>1. ~Alive' => Dropped \/ ~Alive
      BY <1>1, <1>2 DEF Alive, Types, Signalled
    <2> QED  BY <1>1, <1>2, <2>1, DropInv
  <1>7. Types'
    BY <1>1, <1>2, <1>3, <1>4, <1>6 DEF Types
  <1>8. Signalled'
    BY <1>1, <1>2, <1>3, <1>5 DEF Signalled, Types
  <1>9. Uncrossed'
    BY <1>1, <1>2, <1>3, <1>4, <1>5 DEF Uncrossed, Types
  <1>10. Mailboxes'
    BY <1>1 DEF Mailboxes
  <1> QED  BY <1>6, <1>7, <1>8, <1>9, <1>10

\* A handler that goes from one place to another.
LEMMA HandlerMoves ==
    ASSUME ServerInv, NEW s \in Signals, NEW from, NEW to \in Places \ {"none"},
           At(s, from, to)
    PROVE  /\ handler' \in [Signals -> [by : Threads, at : Places]]
           /\ handler[s].at = from /\ handler'[s].at = to
           /\ to # "done" => handler'[s].by = handler[s].by
           /\ \A q \in Signals : q # s => handler'[q] = handler[q]
           /\ InHandler(s)' <=> to # "done"
           /\ \A q \in Signals : q # s => (InHandler(q)' <=> InHandler(q))
  <1> DEFINE b == IF to = "done" THEN Main ELSE handler[s].by
  <1>1. handler[s].at = from /\ handler' = [handler EXCEPT ![s] = [by |-> b, at |-> to]]
    BY DEF At
  <1>2. b \in Threads
    BY DEF ServerInv, Types, Threads
  <1> HIDE DEF b
  <1>3. handler' \in [Signals -> [by : Threads, at : Places]]
        /\ handler'[s] = [by |-> b, at |-> to]
        /\ \A q \in Signals : q # s => handler'[q] = handler[q]
    BY <1>1, <1>2 DEF ServerInv, Types
  <1>4. handler'[s].at = to /\ handler'[s].by = b
    BY <1>3
  <1>5. InHandler(s)' <=> to # "done"
    BY <1>4 DEF InHandler
  <1>6. \A q \in Signals : q # s => (InHandler(q)' <=> InHandler(q))
    BY <1>3 DEF InHandler
  <1> QED  BY <1>1, <1>3, <1>4, <1>5, <1>6 DEF b

LEMMA TestListenInv ==
    ASSUME ServerInv, NEW s \in Signals, TestListen(s)
    PROVE  ServerInv'
  <1> USE DEF ServerInv
  <1>0. PICK to \in {"close", "done"} : to = IF listenFd THEN "close" ELSE "done"
    OBVIOUS
  <1>1. /\ At(s, "test", to)
        /\ UNCHANGED <<listen, crossed, main, backlog, conn, worker, closes, up, down,
                       client, sent>>
    BY <1>0 DEF TestListen
  <1>2. /\ handler' \in [Signals -> [by : Threads, at : Places]]
        /\ handler[s].at = "test" /\ handler'[s].at = to
        /\ to # "done" => handler'[s].by = handler[s].by
        /\ \A q \in Signals : q # s => handler'[q] = handler[q]
        /\ InHandler(s)' <=> to # "done"
        /\ \A q \in Signals : q # s => (InHandler(q)' <=> InHandler(q))
    BY <1>1, HandlerMoves DEF Places
  <1>3. Types'
    BY <1>1, <1>2 DEF Types, listen
  <1>4. InHandler(s)
    BY <1>2 DEF InHandler
  <1>5. Signalled'
    BY <1>0, <1>1, <1>2, <1>4 DEF Signalled, listen
  <1>6. Uncrossed'
    <2> SUFFICES ASSUME ~crossed PROVE Uncrossed'
      BY <1>1 DEF Uncrossed
    <2>1. \A q \in Signals : q # s => ~InHandler(q)
      BY <1>4 DEF Uncrossed
    <2>2. main \notin {"exit", "stopped"}
      BY <1>4 DEF Uncrossed
    <2>3. \A q \in Signals : handler[q].at # "clear"
      BY <1>2, <2>1 DEF InHandler
    <2>4. listenFd => listenCloses = 0
      BY <2>2, <2>3 DEF Uncrossed
    <2>5. \A q \in Signals : q # s => handler'[q].at \notin {"close", "clear"}
      BY <1>2, <2>1 DEF InHandler
    <2>6. to = "close" => listenFd
      BY <1>0
    <2>7. \A q \in Signals : handler'[q].at = "close" => listenFd /\ listenCloses = 0
      BY <1>2, <2>4, <2>5, <2>6
    <2>8. UNCHANGED <<listenFd, listenCloses, main>>
      BY <1>1 DEF listen
    <2> QED  BY <1>2, <2>1, <2>2, <2>4, <2>7, <2>8 DEF Uncrossed
  <1>7. Connections'
    BY <1>1 DEF Connections, InBacklog, Alive, listen
  <1>8. Mailboxes'
    BY <1>1 DEF Mailboxes
  <1> QED  BY <1>3, <1>5, <1>6, <1>7, <1>8

LEMMA CloseListenInv ==
    ASSUME ServerInv, NEW s \in Signals, CloseListen(s)
    PROVE  ServerInv'
  <1> USE DEF ServerInv
  <1>1. /\ At(s, "close", "clear")
        /\ UNCHANGED <<running, listenFd, crossed, main, worker, closes, up, down, client, sent>>
        /\ \/ /\ listenCloses' = listenCloses + 1 /\ socket' = "closed"
              /\ IF main = "blocked" THEN UNCHANGED <<backlog, conn>> ELSE Dropped
           \/ ~listenFd /\ UNCHANGED <<listenCloses, socket, backlog, conn>>
    BY DEF CloseListen, Dropped
  <1>2. /\ handler' \in [Signals -> [by : Threads, at : Places]]
        /\ handler[s].at = "close" /\ handler'[s].at = "clear"
        /\ handler'[s].by = handler[s].by
        /\ \A q \in Signals : q # s => handler'[q] = handler[q]
        /\ InHandler(s)'
        /\ \A q \in Signals : q # s => (InHandler(q)' <=> InHandler(q))
    BY <1>1, HandlerMoves DEF Places
  <1>3. InHandler(s)
    BY <1>2 DEF InHandler
  <1>4. Connections' /\ backlog' \in Seq(Clients)
        /\ conn' \in [Clients -> {"none", "queued", "open", "closed"}]
    <2>1. ~Alive' => Dropped \/ ~Alive
      BY <1>1 DEF Alive
    <2>2. Dropped \/ UNCHANGED <<backlog, conn>>
      BY <1>1
    <2> QED  BY <1>1, <2>1, <2>2, DropInv
  <1>5. Types'
    BY <1>1, <1>2, <1>4 DEF Types
  <1>6. socket' # "open"
    BY <1>1 DEF Signalled
  <1>7. Signalled'
    <2>1. main # "start"
      BY <1>2 DEF Signalled
    <2> QED  BY <1>1, <1>2, <1>3, <1>6, <2>1 DEF Signalled
  <1>8. Uncrossed'
    <2> SUFFICES ASSUME ~crossed PROVE Uncrossed'
      BY <1>1 DEF Uncrossed
    <2>1. listenFd /\ listenCloses = 0 /\ main \notin {"exit", "stopped"}
          /\ \A q \in Signals : q # s => ~InHandler(q)
      BY <1>2, <1>3 DEF Uncrossed
    <2>2. listenCloses' = 1
      BY <1>1, <2>1
    <2>3. \A q \in Signals : handler'[q].at # "close"
      BY <1>2, <2>1 DEF InHandler
    <2> QED  BY <1>1, <1>2, <2>1, <2>2, <2>3 DEF Uncrossed
  <1>9. Mailboxes'
    BY <1>1 DEF Mailboxes
  <1> QED  BY <1>4, <1>5, <1>7, <1>8, <1>9

LEMMA ClearListenInv ==
    ASSUME ServerInv, NEW s \in Signals, ClearListen(s)
    PROVE  ServerInv'
  <1> USE DEF ServerInv
  <1>1. /\ At(s, "clear", "done") /\ listenFd' = FALSE
        /\ UNCHANGED <<running, socket, listenCloses, crossed, main, backlog, conn, worker,
                       closes, up, down, client, sent>>
    BY DEF ClearListen, Cleared
  <1>2. /\ handler' \in [Signals -> [by : Threads, at : Places]]
        /\ handler[s].at = "clear" /\ handler'[s].at = "done"
        /\ \A q \in Signals : q # s => handler'[q] = handler[q]
        /\ ~InHandler(s)'
        /\ \A q \in Signals : q # s => (InHandler(q)' <=> InHandler(q))
    BY <1>1, HandlerMoves DEF Places
  <1>3. InHandler(s) /\ socket # "open" /\ main # "start"
    BY <1>2 DEF InHandler, Signalled
  <1>4. Types'
    BY <1>1, <1>2 DEF Types
  <1>5. Signalled'
    BY <1>1, <1>2, <1>3 DEF Signalled
  <1>6. Uncrossed'
    <2> SUFFICES ASSUME ~crossed PROVE Uncrossed'
      BY <1>1 DEF Uncrossed
    <2>1. \A q \in Signals : q # s => ~InHandler(q)
      BY <1>3 DEF Uncrossed
    <2>2. \A q \in Signals : handler'[q].at # "close" /\ ~InHandler(q)'
      BY <1>2, <2>1 DEF InHandler
    <2> QED  BY <1>1, <2>2 DEF Uncrossed
  <1>7. Connections'
    BY <1>1 DEF Connections, InBacklog, Alive
  <1>8. Mailboxes'
    BY <1>1 DEF Mailboxes
  <1> QED  BY <1>4, <1>5, <1>6, <1>7, <1>8
-----------------------------------------------------------------------------
(* The main thread's steps. *)

\* When main is not in the handler and no worker is left, no handler runs.
LEMMA Quiet ==
    ASSUME ServerInv, Free(Main), \A c \in Clients : worker[c] \in {"none", "done"}
    PROVE  \A s \in Signals : ~InHandler(s)
  <1> SUFFICES ASSUME NEW s \in Signals, InHandler(s) PROVE FALSE
    OBVIOUS
  <1>1. handler[s].by # Main /\ handler[s].by \in Threads
    BY DEF Free, ServerInv, Types
  <1>2. worker[handler[s].by] \notin {"none", "done"}
    BY <1>1 DEF ServerInv, Signalled
  <1> QED  BY <1>1, <1>2 DEF Threads

LEMMA SocketInv ==
    ASSUME ServerInv, Free(Main), Socket
    PROVE  ServerInv'
  <1> USE DEF ServerInv
  <1>1. /\ main = "start"
        /\ \/ main' = "bind" /\ socket' = "open" /\ listenFd' = TRUE
           \/ main' = "stopped" /\ UNCHANGED <<socket, listenFd>>
        /\ UNCHANGED <<running, listenCloses, handler, crossed, backlog, conn, worker, closes,
                       up, down, client, sent>>
    BY DEF Socket, sig
  <1>2. /\ ~listenFd /\ socket = "none" /\ listenCloses = 0
        /\ \A c \in Clients : worker[c] = "none"
        /\ \A s \in Signals : handler[s].at \notin {"close", "clear"} /\ ~InHandler(s)
    BY <1>1, Quiet DEF Signalled
  <1>3. Types'
    BY <1>1 DEF Types
  <1>4. Signalled'
    BY <1>1, <1>2 DEF Signalled, InHandler
  <1>5. Uncrossed'
    BY <1>1, <1>2 DEF Uncrossed, InHandler
  <1>6. Connections'
    BY <1>1, <1>2 DEF Connections, InBacklog, Alive
  <1>7. Mailboxes'
    BY <1>1 DEF Mailboxes
  <1> QED  BY <1>3, <1>4, <1>5, <1>6, <1>7

\* Main's own close, which leaves the loop's place for the end of main.
LEMMA CloseOwnInv ==
    ASSUME ServerInv, Free(Main), main \in {"bind", "join"}, main' = "exit", CloseOwn,
           \A c \in Clients : worker[c] \in {"none", "done"},
           UNCHANGED <<running, listenFd, handler, crossed, worker, closes, up, down, client, sent>>
    PROVE  ServerInv'
  <1> USE DEF ServerInv
  <1>1. \/ /\ listenFd /\ listenCloses' = listenCloses + 1 /\ socket' = "closed" /\ Dropped
        \/ ~listenFd /\ UNCHANGED <<listenCloses, socket, backlog, conn>>
    BY DEF CloseOwn, Dropped
  <1>2. \A s \in Signals : ~InHandler(s) /\ handler[s].at # "clear" /\ handler[s].at # "close"
    BY Quiet DEF InHandler
  <1>3. socket' # "open"
    BY <1>1 DEF Signalled
  <1>4. Connections' /\ backlog' \in Seq(Clients)
        /\ conn' \in [Clients -> {"none", "queued", "open", "closed"}]
    <2>1. ~Alive' => Dropped \/ ~Alive
      BY <1>1 DEF Alive, Signalled
    <2>2. Dropped \/ UNCHANGED <<backlog, conn>>
      BY <1>1
    <2> QED  BY <2>1, <2>2, DropInv
  <1>5. Types'
    BY <1>1, <1>4 DEF Types
  <1>6. Signalled'
    <2>1. socket' # "none"
      BY <1>1 DEF Signalled
    <2> QED  BY <1>2, <1>3, <2>1 DEF Signalled, InHandler
  <1>7. Uncrossed'
    <2> SUFFICES ASSUME ~crossed PROVE Uncrossed'
      BY DEF Uncrossed
    <2>1. listenFd => listenCloses = 0
      BY <1>2 DEF Uncrossed
    <2>2. listenCloses' <= 1
      BY <1>1, <2>1 DEF Uncrossed, Types
    <2> QED  BY <1>2, <2>2 DEF Uncrossed, InHandler
  <1>8. Mailboxes'
    BY DEF Mailboxes
  <1> QED  BY <1>4, <1>5, <1>6, <1>7, <1>8

LEMMA BindInv ==
    ASSUME ServerInv, Free(Main), Bind
    PROVE  ServerInv'
  <1> USE DEF ServerInv
  <1>1. /\ main = "bind" /\ \A c \in Clients : worker[c] \in {"none", "done"}
        /\ UNCHANGED <<running, listenFd, handler, crossed, worker, closes, up, down, client, sent>>
    BY DEF Bind, sig, Signalled
  <1>2. CASE main' = "exit" /\ CloseOwn
    BY <1>1, <1>2, CloseOwnInv
  <1>3. CASE socket = "open" /\ main' = "test" /\ UNCHANGED <<listenCloses, socket, backlog, conn>>
    <2>1. Types'
      BY <1>1, <1>3 DEF Types
    <2>2. Signalled'
      BY <1>1, <1>3 DEF Signalled, InHandler
    <2>3. Uncrossed'
      BY <1>1, <1>3 DEF Uncrossed, InHandler
    <2>4. Connections'
      BY <1>1, <1>3 DEF Connections, InBacklog, Alive
    <2>5. Mailboxes'
      BY <1>1 DEF Mailboxes
    <2> QED  BY <2>1, <2>2, <2>3, <2>4, <2>5
  <1> QED  BY <1>2, <1>3 DEF Bind

LEMMA MainMoves ==
    ASSUME ServerInv, TestLoop \/ CallAccept
    PROVE  ServerInv'
  <1> USE DEF ServerInv
  <1>1. /\ main' \in {"test", "accept", "blocked", "join"}
        /\ main \in {"test", "accept"}
        /\ UNCHANGED <<listen, sig, backlog, conn, worker, closes, up, down, client, sent>>
        /\ Alive => Alive'
    BY DEF TestLoop, CallAccept, Alive, listen
  <1>2. Types'
    BY <1>1 DEF Types, sig, listen
  <1>3. Signalled' /\ Uncrossed'
    BY <1>1 DEF Signalled, Uncrossed, InHandler, sig, listen
  <1>4. Connections'
    BY <1>1 DEF Connections, InBacklog
  <1>5. Mailboxes'
    BY <1>1 DEF Mailboxes
  <1> QED  BY <1>2, <1>3, <1>4, <1>5

LEMMA AcceptInv ==
    ASSUME ServerInv, Accept
    PROVE  ServerInv'
  <1> DEFINE c == Head(backlog)
             rest == IF socket = "open" THEN Tail(backlog) ELSE <<>>
             others == IF socket = "open" THEN conn ELSE Reset(Tail(backlog))
  <1> USE DEF ServerInv
  <1>1. /\ main = "blocked" /\ backlog # <<>> /\ main' = "test"
        /\ backlog' = rest /\ conn' = [others EXCEPT ![c] = "open"]
        /\ worker' = [worker EXCEPT ![c] = "test"]
        /\ UNCHANGED <<listen, sig, closes, up, down, client, sent>>
    BY DEF Accept, Goto
  <1>2. /\ c \in Clients /\ c = backlog[1] /\ Len(backlog) \in Nat \ {0}
        /\ Tail(backlog) \in Seq(Clients) /\ Len(Tail(backlog)) = Len(backlog) - 1
        /\ \A i \in 1 .. Len(backlog) - 1 : Tail(backlog)[i] = backlog[i + 1]
    BY <1>1 DEF Types
  <1>3. InBacklog(c) /\ conn[c] = "queued" /\ worker[c] \in {"none", "done"}
        /\ worker[c] # "done" /\ closes[c] = 0
    BY <1>2 DEF Connections, InBacklog, Types
  <1>4. \A b \in Clients : InBacklog(b) <=>
          b = c \/ \E i \in 1 .. Len(Tail(backlog)) : Tail(backlog)[i] = b
    <2> TAKE b \in Clients
    <2>1. ASSUME NEW i \in 1 .. Len(backlog), backlog[i] = b, b # c
          PROVE  \E j \in 1 .. Len(Tail(backlog)) : Tail(backlog)[j] = b
      <3>1. i - 1 \in 1 .. Len(backlog) - 1
        BY <1>2, <2>1
      <3>2. Tail(backlog)[i - 1] = backlog[i]
        BY <1>2, <3>1
      <3> QED  BY <1>2, <2>1, <3>1, <3>2
    <2>2. ASSUME NEW j \in 1 .. Len(Tail(backlog)), Tail(backlog)[j] = b
          PROVE  InBacklog(b)
      <3>1. j + 1 \in 1 .. Len(backlog) /\ backlog[j + 1] = b
        BY <1>2, <2>2
      <3> QED  BY <3>1 DEF InBacklog
    <2> QED  BY <1>3, <2>1, <2>2 DEF InBacklog
  <1>5. \A i \in 1 .. Len(Tail(backlog)) : Tail(backlog)[i] # c
    BY <1>2 DEF Connections
  <1>6. /\ others \in [Clients -> {"none", "queued", "open", "closed"}]
        /\ \A b \in Clients :
             others[b] = IF socket # "open"
                              /\ \E i \in 1 .. Len(Tail(backlog)) : Tail(backlog)[i] = b
                         THEN "closed" ELSE conn[b]
    <2>1. CASE socket = "open"
      BY <2>1 DEF Types
    <2>2. CASE socket # "open"
      BY <1>2, <2>2, ResetConn
    <2> QED  BY <2>1, <2>2
  <1>7. rest \in Seq(Clients)
    BY <1>2
  <1>8. /\ \A i, j \in 1 .. Len(rest) : rest[i] = rest[j] => i = j
        /\ socket = "open" => rest = Tail(backlog)
        /\ socket # "open" => rest = <<>>
        /\ Len(<<>>) = 0
    <2>1. \A i, j \in 1 .. Len(Tail(backlog)) :
             Tail(backlog)[i] = Tail(backlog)[j] => i = j
      BY <1>2 DEF Connections
    <2> QED  BY <2>1
  <1> HIDE DEF c, rest, others
  <1>9. Types'
    BY <1>1, <1>2, <1>6, <1>7 DEF Types, sig, listen
  <1>10. Signalled'
    BY <1>1, <1>2 DEF Signalled, InHandler, Types, sig, listen
  <1>13. Uncrossed'
    BY <1>1 DEF Uncrossed, InHandler, sig, listen
  <1>11. Connections'
    <2>1. \A b \in Clients : InBacklog(b)' <=>
            /\ socket = "open"
            /\ \E i \in 1 .. Len(Tail(backlog)) : Tail(backlog)[i] = b
      <3>1. CASE socket = "open"
        BY <1>1, <1>8, <3>1 DEF InBacklog
      <3>2. CASE socket # "open"
        BY <1>1, <1>8, <3>2 DEF InBacklog
      <3> QED  BY <3>1, <3>2
    <2>2. \A b \in Clients :
            /\ (conn[b] = "queued" <=> InBacklog(b))'
            /\ client'[b] = "off" => conn'[b] = "none"
            /\ conn'[b] = "open" <=> worker'[b] \notin {"none", "done"}
            /\ worker'[b] = "done" => conn'[b] = "closed"
            /\ closes'[b] = IF worker'[b] = "done" THEN 1 ELSE 0
      <3> TAKE b \in Clients
      <3>1. CASE b = c
        BY <1>1, <1>2, <1>3, <1>5, <1>6, <2>1, <3>1 DEF Connections, Types
      <3>2. CASE b # c
        <4>1. conn'[b] = others[b] /\ worker'[b] = worker[b] /\ closes'[b] = closes[b]
              /\ client'[b] = client[b]
          BY <1>1, <1>2, <1>6, <3>2 DEF Types
        <4> DEFINE behind == \E i \in 1 .. Len(Tail(backlog)) : Tail(backlog)[i] = b
        <4>2. /\ InBacklog(b) <=> behind
              /\ InBacklog(b)' <=> socket = "open" /\ behind
              /\ conn'[b] = IF socket # "open" /\ behind THEN "closed" ELSE conn[b]
          BY <1>4, <1>6, <2>1, <3>2, <4>1
        <4> HIDE DEF behind
        <4>3. /\ conn[b] = "queued" <=> behind
              /\ client[b] = "off" => conn[b] = "none"
              /\ conn[b] = "open" <=> worker[b] \notin {"none", "done"}
              /\ worker[b] = "done" => conn[b] = "closed"
              /\ closes[b] = IF worker[b] = "done" THEN 1 ELSE 0
          BY <4>2 DEF Connections
        <4> QED  BY <4>1, <4>2, <4>3
      <3> QED  BY <3>1, <3>2
    <2>3. (~Alive => backlog = <<>>)'
      BY <1>1, <1>8 DEF Alive, sig, listen
    <2> QED  BY <1>1, <1>8, <2>2, <2>3 DEF Connections
  <1>12. Mailboxes'
    BY <1>1, <1>2 DEF Mailboxes, Types
  <1> QED  BY <1>9, <1>10, <1>11, <1>12, <1>13

LEMMA JoinInv ==
    ASSUME ServerInv, Free(Main), Join
    PROVE  ServerInv'
  BY CloseOwnInv DEF Join, sig

LEMMA ExitInv ==
    ASSUME ServerInv, Exit
    PROVE  ServerInv'
  <1> USE DEF ServerInv
  <1>1. /\ main = "exit" /\ main' = "stopped"
        /\ UNCHANGED <<listen, sig, backlog, conn, worker, closes, up, down, client, sent>>
    BY DEF Exit
  <1>2. Types'
    BY <1>1 DEF Types, sig, listen
  <1>3. Signalled' /\ Uncrossed'
    BY <1>1 DEF Signalled, Uncrossed, InHandler, sig, listen
  <1>4. Connections'
    BY <1>1 DEF Connections, InBacklog, Alive, listen
  <1>5. Mailboxes'
    BY <1>1 DEF Mailboxes
  <1> QED  BY <1>2, <1>3, <1>4, <1>5
-----------------------------------------------------------------------------
LEMMA NextServerInv == ServerInv /\ [Next]_vars => ServerInv'
  <1> SUFFICES ASSUME ServerInv, [Next]_vars PROVE ServerInv'
    OBVIOUS
  <1>1. ASSUME NEW c \in Clients, User(c) PROVE ServerInv'
    BY <1>1, ConnectInv, SendMessageInv, QuitInv DEF User
  <1>2. ASSUME NEW c \in Clients, Worker(c) PROVE ServerInv'
    BY <1>2, TestRunningInv, RecvInv, CloseInv, HandleQueryInv DEF Worker
  <1>3. ASSUME NEW s \in Signals, SignalHandler(s) PROVE ServerInv'
    BY <1>3, TestListenInv, CloseListenInv, ClearListenInv DEF SignalHandler
  <1>4. ASSUME MainThread PROVE ServerInv'
    BY <1>4, SocketInv, BindInv, MainMoves, AcceptInv, JoinInv, ExitInv DEF MainThread
  <1>5. CASE UNCHANGED vars
    BY <1>5 DEF vars, server, sig, listen, ServerInv, Types, Signalled, Uncrossed, InHandler,
                Connections, InBacklog, Alive, Mailboxes
  <1> QED  BY <1>1, <1>2, <1>3, <1>4, <1>5, RecvMessageInv, SignalInv DEF Next

\* The server's threads, connections and streams stay consistent, for any number of
\* clients and signals, wherever the signals fall and whichever threads take them.
THEOREM ServerInvariance == Spec => []ServerInv
  BY InitServerInv, NextServerInv, PTL DEF Spec

\* A client only ever finds the answer to the message it waits for: HandleQuery sends
\* one reply for the one message under way, whatever the statement does.
THEOREM AnswersCorrect == Spec => []AnswersMatchQueries
  <1>1. ServerInv => AnswersMatchQueries
    <2> SUFFICES ASSUME ServerInv, NEW c \in Clients
                 PROVE  /\ Len(down[c]) <= 1
                        /\ client[c] = "prompt" => down[c] = <<>>
                        /\ client[c] = "wait" =>
                             \A i \in DOMAIN down[c] : down[c][i] = sent[c]
      BY DEF AnswersMatchQueries
    <2>1. Len(down[c]) <= 1
      <3>1. down[c] = <<>> \/ \E a \in Nat : down[c] = <<a>>
        BY StreamCases DEF ServerInv, Types
      <3>2. ASSUME NEW a, down[c] = <<a>> PROVE Len(down[c]) <= 1
        BY <3>2
      <3>3. ASSUME down[c] = <<>> PROVE Len(down[c]) <= 1
        BY <3>3
      <3> QED  BY <3>1, <3>2, <3>3
    <2> QED  BY <2>1 DEF ServerInv, Mailboxes
  <1> QED  BY <1>1, ServerInvariance, PTL

\* Every descriptor is closed once and none outlives main, for any number of signals on
\* any threads that do not cross: neither two handlers, nor a handler and main, nor a
\* worker and a reset, close the same one.
THEOREM ClosesCorrect == Spec => []DescriptorsClosedOnce
  <1>1. ServerInv => DescriptorsClosedOnce
    <2> SUFFICES ASSUME ServerInv PROVE DescriptorsClosedOnce
      OBVIOUS
    <2>1. (~crossed => listenCloses <= 1) /\ (main = "stopped" => socket # "open")
      BY DEF ServerInv, Signalled, Uncrossed
    <2>2. \A c \in Clients : closes[c] <= 1 /\ (conn[c] = "open" => closes[c] = 0)
      <3> TAKE c \in Clients
      <3>1. closes[c] = IF worker[c] = "done" THEN 1 ELSE 0
        BY DEF ServerInv, Connections
      <3>2. conn[c] = "open" => worker[c] # "done"
        BY DEF ServerInv, Connections
      <3> QED  BY <3>1, <3>2
    <2>3. main = "stopped" => \A c \in Clients : conn[c] \notin {"queued", "open"}
      <3>1. main = "stopped" => backlog = <<>>
        BY <2>1 DEF ServerInv, Connections, Alive
      <3>2. main = "stopped" => \A c \in Clients : ~InBacklog(c)
        BY <3>1 DEF InBacklog
      <3>3. main = "stopped" => \A c \in Clients : worker[c] \in {"none", "done"}
        BY DEF ServerInv, Connections
      <3> QED  BY <3>2, <3>3 DEF ServerInv, Connections
    <2> QED  BY <2>1, <2>2, <2>3 DEF DescriptorsClosedOnce
  <1> QED  BY <1>1, ServerInvariance, PTL
=============================================================================
