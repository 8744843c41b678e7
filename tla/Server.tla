------------------------------- MODULE Server -------------------------------
(***************************************************************************)
(* The server process and its clients: the accept loop, one worker thread  *)
(* per connection, the client's prompt, the framed messages between them,  *)
(* and the signals that stop the server, which come at any time, again and *)
(* again, to any thread.  What a statement does is left to SqlEngine; here *)
(* it succeeds or throws.                                                  *)
(***************************************************************************)
EXTENDS Naturals, Sequences, Functions

CONSTANTS
    Clients, Main,          \* client programs (one connection each), the main thread
    Backlog,                \* connections the kernel queues for accept
    MaxQueries,             \* bound: messages the clients send, all together
    MaxSignals              \* bound: deliveries of SIGINT and SIGTERM

ASSUME MaxSignalsAssumption == MaxSignals \in Nat

VARIABLES
    running,                \* g_running
    listenFd,               \* whether g_listen_fd is set
    socket,                 \* the listening socket: "none", "open" or "closed"
    listenCloses,           \* how often its descriptor was closed
    handler,                \* each delivery: the thread that took it, and where it is
    crossed,                \* history: a delivery met another one in the handler, or
                            \* came after main had closed the descriptor itself
    main,                   \* where the main thread is
    backlog,                \* connections nobody has accepted
    conn,                   \* each client's connection
    worker,                 \* where its worker thread is
    closes,                 \* how often its descriptor was closed
    up, down,               \* messages on their way to the server, to the client
    client, sent            \* where each client is, and the messages it has sent

sig == <<handler, crossed>>
listen == <<running, listenFd, socket, listenCloses>>
server == <<listen, sig, main, backlog, conn, worker, closes>>
vars == <<server, up, down, client, sent>>

Threads == Clients \cup {Main}

Signals == 1 .. MaxSignals

InHandler(s) == handler[s].at \notin {"none", "done"}

\* A thread that is in the signal handler does nothing else.
Free(t) == \A s \in Signals : handler[s].by = t => ~InHandler(s)

\* Clients can connect.  A blocked accept keeps the socket alive after another
\* thread closed it.
Alive == \/ socket = "open" /\ main \notin {"start", "bind"}
         \/ main = "blocked"

\* A connection nobody accepted is reset with its listening socket.
Reset(queue) ==
    [c \in Clients |-> IF \E i \in DOMAIN queue : queue[i] = c THEN "closed" ELSE conn[c]]
-----------------------------------------------------------------------------
(* The client. *)
Connect(c) ==
    /\ client[c] = "off" /\ Alive /\ Len(backlog) < Backlog
    /\ client' = [client EXCEPT ![c] = "prompt"]
    /\ conn' = [conn EXCEPT ![c] = "queued"]
    /\ backlog' = Append(backlog, c)
    /\ UNCHANGED <<listen, sig, main, worker, closes, up, down, sent>>

\* SendMessage, then the wait in RecvMessage.  On a closed connection the write
\* fails, or goes nowhere and the read fails.  client_main sends QUERY; what
\* another program may have sent is settled when the server reads it.
SendMessage(c) ==
    /\ client[c] = "prompt" /\ SumFunction(sent) < MaxQueries
    /\ client' = [client EXCEPT ![c] = "wait"]
    /\ sent' = [sent EXCEPT ![c] = @ + 1]
    /\ up' = IF conn[c] = "closed" THEN up
             ELSE [up EXCEPT ![c] = Append(@, [kind |-> "message", n |-> sent[c] + 1])]
    /\ UNCHANGED <<server, down>>

\* RecvMessage: the answer, or "Connection lost".
RecvMessage(c) ==
    /\ client[c] = "wait"
    /\ \/ /\ down[c] # <<>>
          /\ down' = [down EXCEPT ![c] = Tail(@)]
          /\ client' = [client EXCEPT ![c] = "prompt"]
       \/ /\ down[c] = <<>> /\ conn[c] = "closed"
          /\ client' = [client EXCEPT ![c] = "gone"]
          /\ UNCHANGED down
    /\ UNCHANGED <<server, up, sent>>

\* \q says so first; end of input, and a kill at any moment, do not; a kill
\* inside SendMessage leaves part of a message on the stream.
Quit(c, last) ==
    /\ client[c] \in {"prompt", "wait"}
    /\ client[c] = "wait" => last = <<>>
    /\ client' = [client EXCEPT ![c] = "gone"]
    /\ up' = IF conn[c] = "closed" THEN up ELSE [up EXCEPT ![c] = @ \o last]
    /\ down' = [down EXCEPT ![c] = <<>>]
    /\ UNCHANGED <<server, sent>>

Terminate == <<[kind |-> "TERMINATE", n |-> 0]>>
Part == <<[kind |-> "part", n |-> 0]>>
-----------------------------------------------------------------------------
(* A worker thread: HandleClient. *)
Goto(c, at) == worker' = [worker EXCEPT ![c] = at]

TestRunning(c) ==
    /\ worker[c] = "test"
    /\ Goto(c, IF running THEN "recv" ELSE "close")
    /\ UNCHANGED <<listen, sig, main, backlog, conn, closes, up, down, client, sent>>

\* Mutant: only an error ends ReadExact, and end of file does not.
AtEofNever(c) == FALSE

\* ReadExact answers false: the stream ended before the message did.
AtEof(c) ==
    /\ client[c] = "gone"
    /\ up[c] # <<>> => Head(up[c]).kind = "part"

\* The blocking read of the next message, and the switch on its type.  For a
\* length of 0 RecvMessage answers false, as at the end of the stream.
Recv(c) ==
    /\ worker[c] = "recv"
    /\ \/ AtEof(c) /\ Goto(c, "close")
       \/ /\ up[c] # <<>>
          /\ \/ Head(up[c]).kind = "TERMINATE" /\ Goto(c, "close")
             \/ Head(up[c]).kind = "message" /\ \E at \in {"handle", "close"} : Goto(c, at)
    /\ UNCHANGED <<listen, sig, main, backlog, conn, closes, up, down, client, sent>>

\* Mutant: RESULT goes out row by row, and a later row throws.
RepliesEach(ok) == IF ok THEN <<"RESULT">> ELSE <<"RESULT", "ERROR">>

\* Mutant: a statement that throws is not answered.
RepliesResult(ok) == IF ok THEN <<"RESULT">> ELSE <<>>

\* What HandleQuery sends, and, with ~ok, the default case: an unknown type is
\* answered as a statement that throws.
Replies(ok) == IF ok THEN <<"RESULT">> ELSE <<"ERROR">>

\* A reply carries the number of its message; RESULT and ERROR differ in wording
\* only.  To a client that has left it is not delivered, and nobody asks.
HandleQuery(c, ok) ==
    LET m == Head(up[c])
        texts == Replies(ok)
    IN  /\ worker[c] = "handle"
        /\ up' = [up EXCEPT ![c] = Tail(@)]
        /\ down' = IF client[c] = "gone" THEN down
                   ELSE [down EXCEPT ![c] = @ \o [i \in DOMAIN texts |-> m.n]]
        /\ Goto(c, "test")
        /\ UNCHANGED <<listen, sig, main, backlog, conn, closes, client, sent>>

Close(c) ==
    /\ worker[c] = "close"
    /\ Goto(c, "done")
    /\ conn' = [conn EXCEPT ![c] = "closed"]
    /\ closes' = [closes EXCEPT ![c] = @ + 1]
    /\ up' = [up EXCEPT ![c] = <<>>]
    /\ UNCHANGED <<listen, sig, main, backlog, down, client, sent>>

Worker(c) ==
    /\ Free(c)
    /\ TestRunning(c) \/ Recv(c) \/ Close(c) \/ \E ok \in BOOLEAN : HandleQuery(c, ok)
-----------------------------------------------------------------------------
(* The signals, each of which the kernel gives to any thread: SignalHandler. *)

\* The kernel masks a signal on the thread that handles it, so the handler is
\* entered at most twice on one thread, once for SIGINT and once for SIGTERM.
\* An accept that is interrupted lets go of the socket and is called again when
\* the handler returns.  The handler's first statement, g_running.store(false),
\* is part of the step: until then the thread only stands still.
Signal(t, s) ==
    /\ handler[s].at = "none" /\ \A r \in 1 .. s - 1 : handler[r].at # "none"
    /\ main # "stopped"
    /\ t \in {Main} \cup {c \in Clients : worker[c] \notin {"none", "done"}}
    /\ \A q, r \in Signals : InHandler(q) /\ InHandler(r)
                               /\ handler[q].by = t /\ handler[r].by = t => q = r
    /\ handler' = [handler EXCEPT ![s] = [by |-> t, at |-> "test"]]
    /\ running' = FALSE
    /\ crossed' = (crossed \/ main = "exit" \/ \E r \in Signals : InHandler(r))
    /\ main' = IF t = Main /\ main = "blocked" THEN "accept" ELSE main
    /\ IF main' # main /\ socket = "closed"
       THEN backlog' = <<>> /\ conn' = Reset(backlog)
       ELSE UNCHANGED <<backlog, conn>>
    /\ UNCHANGED <<listenFd, socket, listenCloses, worker, closes, up, down, client, sent>>

\* Of two handlers on one thread the later one runs.
Innermost(s) ==
    /\ InHandler(s)
    /\ \A r \in Signals : InHandler(r) /\ handler[r].by = handler[s].by => r <= s

\* A handler that has returned is nobody's.
At(s, from, to) ==
    /\ handler[s].at = from
    /\ handler' = [handler EXCEPT ![s] =
                      [by |-> IF to = "done" THEN Main ELSE @.by, at |-> to]]

\* if (g_listen_fd >= 0).
TestListen(s) ==
    /\ At(s, "test", IF listenFd THEN "close" ELSE "done")
    /\ UNCHANGED <<listen, crossed, main, backlog, conn, worker, closes, up, down,
                   client, sent>>

\* close(g_listen_fd).  The socket goes with the first close, unless an accept is
\* blocked on it.  g_listen_fd is neither atomic nor volatile: when another
\* handler cleared it after the test, the argument is the number the test saw,
\* or -1, which is no descriptor.  A number closed before is no descriptor either.
CloseListen(s) ==
    /\ At(s, "close", "clear")
    /\ \/ /\ listenCloses' = listenCloses + 1
          /\ socket' = "closed"
          /\ IF main = "blocked" THEN UNCHANGED <<backlog, conn>>
             ELSE backlog' = <<>> /\ conn' = Reset(backlog)
       \/ ~listenFd /\ UNCHANGED <<listenCloses, socket, backlog, conn>>
    /\ UNCHANGED <<running, listenFd, crossed, main, worker, closes, up, down, client, sent>>

\* Mutant: g_listen_fd keeps the number of the closed socket.
ClearedNot == listenFd

\* g_listen_fd = -1.
Cleared == FALSE

ClearListen(s) ==
    /\ At(s, "clear", "done")
    /\ listenFd' = Cleared
    /\ UNCHANGED <<running, socket, listenCloses, crossed, main, backlog, conn, worker,
                   closes, up, down, client, sent>>

SignalHandler(s) ==
    /\ Innermost(s)
    /\ TestListen(s) \/ CloseListen(s) \/ ClearListen(s)
-----------------------------------------------------------------------------
(* The main thread. *)

\* socket().  The handlers are installed before.
Socket ==
    /\ main = "start"
    /\ \/ main' = "bind" /\ socket' = "open" /\ listenFd' = TRUE
       \/ main' = "stopped" /\ UNCHANGED <<socket, listenFd>>
    /\ UNCHANGED <<running, listenCloses, sig, backlog, conn, worker, closes,
                   up, down, client, sent>>

\* Main closes g_listen_fd, if it is set, and leaves the number in it.
CloseOwn ==
    IF listenFd
    THEN /\ listenCloses' = listenCloses + 1 /\ socket' = "closed"
         /\ backlog' = <<>> /\ conn' = Reset(backlog)
    ELSE UNCHANGED <<listenCloses, socket, backlog, conn>>

\* bind() and listen() fail if a handler has closed the socket, and may fail
\* without.
Bind ==
    /\ main = "bind"
    /\ \/ /\ socket = "open" /\ main' = "test"
          /\ UNCHANGED <<listenCloses, socket, backlog, conn>>
       \/ main' = "exit" /\ CloseOwn
    /\ UNCHANGED <<running, listenFd, sig, worker, closes, up, down, client, sent>>

TestLoop ==
    /\ main = "test"
    /\ main' = IF running THEN "accept" ELSE "join"
    /\ UNCHANGED <<listen, sig, backlog, conn, worker, closes, up, down, client, sent>>

\* accept waits on an open socket and fails on a closed one.
CallAccept ==
    /\ main = "accept"
    /\ main' = CASE socket = "open" -> "blocked"
                 [] running -> "test"
                 [] OTHER -> "join"
    /\ UNCHANGED <<listen, sig, backlog, conn, worker, closes, up, down, client, sent>>

\* accept answers, and a worker starts.  The call was the last to hold a
\* socket that has been closed in the meantime.
Accept ==
    LET c == Head(backlog)
        rest == IF socket = "open" THEN Tail(backlog) ELSE <<>>
    IN  /\ main = "blocked" /\ backlog # <<>>
        /\ main' = "test"
        /\ backlog' = rest
        /\ conn' = [(IF socket = "open" THEN conn ELSE Reset(Tail(backlog)))
                      EXCEPT ![c] = "open"]
        /\ Goto(c, "test")
        /\ UNCHANGED <<listen, sig, closes, up, down, client, sent>>

\* Every worker is joined, and the listening socket closed if it still is open.
Join ==
    /\ main = "join"
    /\ \A c \in Clients : worker[c] \in {"none", "done"}
    /\ main' = "exit"
    /\ CloseOwn
    /\ UNCHANGED <<running, listenFd, sig, worker, closes, up, down, client, sent>>

\* The rest of main: the process ends.
Exit ==
    /\ main = "exit"
    /\ main' = "stopped"
    /\ UNCHANGED <<listen, sig, backlog, conn, worker, closes, up, down, client, sent>>

MainThread ==
    /\ Free(Main)
    /\ Socket \/ Bind \/ TestLoop \/ CallAccept \/ Accept \/ Join \/ Exit
-----------------------------------------------------------------------------
Init ==
    /\ running = TRUE /\ listenFd = FALSE /\ socket = "none" /\ listenCloses = 0
    /\ handler = [s \in Signals |-> [by |-> Main, at |-> "none"]] /\ crossed = FALSE
    /\ main = "start" /\ backlog = <<>>
    /\ conn = [c \in Clients |-> "none"]
    /\ worker = [c \in Clients |-> "none"]
    /\ closes = [c \in Clients |-> 0]
    /\ up = [c \in Clients |-> <<>>] /\ down = [c \in Clients |-> <<>>]
    /\ client = [c \in Clients |-> "off"] /\ sent = [c \in Clients |-> 0]

User(c) ==
    \/ Connect(c)
    \/ SendMessage(c)
    \/ \E last \in {<<>>, Terminate, Part} : Quit(c, last)

Next ==
    \/ \E c \in Clients : User(c) \/ RecvMessage(c) \/ Worker(c)
    \/ \E s \in Signals : SignalHandler(s) \/ \E t \in Threads : Signal(t, s)
    \/ MainThread

\* Threads and a waiting client go on; nobody has to type, leave or signal.
Fairness ==
    /\ WF_vars(MainThread) /\ \A s \in Signals : WF_vars(SignalHandler(s))
    /\ \A c \in Clients : WF_vars(Worker(c)) /\ WF_vars(RecvMessage(c))

Spec == Init /\ [][Next]_vars /\ Fairness
-----------------------------------------------------------------------------
\* A client only ever finds the answer to the message it waits for: none is
\* left over from an earlier one, sent twice, or sent to somebody at the
\* prompt, whatever failed and whenever the server was told to stop.
AnswersMatchQueries ==
    \A c \in Clients :
        /\ Len(down[c]) <= 1
        /\ client[c] = "prompt" => down[c] = <<>>
        /\ client[c] = "wait" => \A i \in DOMAIN down[c] : down[c][i] = sent[c]

\* A descriptor is closed once: each client's by its worker, the listening one by
\* whichever thread took a signal or by main, however often and whenever the signals
\* come, as long as none meets another in SignalHandler (both may pass the test
\* before either clears g_listen_fd) or follows main's own close.  No listening
\* socket and no connection outlives main.
DescriptorsClosedOnce ==
    /\ ~crossed => listenCloses <= 1
    /\ \A c \in Clients : closes[c] <= 1 /\ (conn[c] = "open" => closes[c] = 0)
    /\ main = "stopped" =>
         socket # "open" /\ \A c \in Clients : conn[c] \notin {"queued", "open"}

\* A client that waits is answered or told that the connection is lost, even
\* when the server is stopped before or while it handles the query.
QueriesAnswered == \A c \in Clients : client[c] = "wait" ~> client[c] # "wait"

\* Once the listening socket is gone, main stops when the clients have left:
\* no worker waits forever for one that said goodbye, or died halfway through
\* a message.
ShutdownCompletes ==
    (/\ socket = "closed" /\ main # "blocked"
     /\ \A c \in Clients : client[c] \in {"off", "gone"}) ~> main = "stopped"
=============================================================================
