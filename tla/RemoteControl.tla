---------------------------- MODULE RemoteControl ----------------------------
(***************************************************************************)
(* core/tcp_server.rs and core/control.rs on the loop of core/runtime.rs:  *)
(* the server spawns a task for every connection, the task runs a          *)
(* Dispatcher, the Dispatcher spawns a task for every request and writes   *)
(* the response that comes back through its own command channel.  A client *)
(* numbers its requests 1, 2, ...; the number is the transaction id.       *)
(***************************************************************************)
EXTENDS Integers, Sequences, Functions

CONSTANTS
    Conns,        \* connections that clients open, each once
    RequestLimit, \* requests a client sends
    ChanLimit     \* CHANNEL_BUFFER

ASSUME ControlAssumption == RequestLimit \in Nat /\ ChanLimit \in Nat \ {0}

VARIABLES
    cancelled,  \* cancel_token
    server,     \* control state of TcpServer::run
    conns,      \* keys of the map of connections
    conn,       \* the task of every connection
    emitter,    \* controllers registered in the Emitter
    chan,       \* command channel of every Dispatcher
    reader,     \* the read future: requests read, and the one it is sending
    handlers,   \* requests whose handle_request is running
    written     \* responses written to the socket

ctlVars == <<cancelled, server, conns, conn, emitter, chan, reader, handlers, written>>
talk == <<chan, reader, handlers, written>>

Request(n) == [kind |-> "request", n |-> n]
Response(n) == [kind |-> "response", n |-> n]

CtlInit ==
    /\ cancelled = FALSE
    /\ server = [pc |-> "bind", todo |-> {}, locked |-> {}]
    /\ conns = {}
    /\ conn = [c \in Conns |-> "none"]
    /\ emitter = {}
    /\ chan = [c \in Conns |-> <<>>]
    /\ reader = [c \in Conns |-> [got |-> 0, sending |-> FALSE]]
    /\ handlers = [c \in Conns |-> {}]
    /\ written = [c \in Conns |-> <<>>]

Move(c, from, to) == conn[c] = from /\ conn' = [conn EXCEPT ![c] = to]

-----------------------------------------------------------------------------
(* TcpServer *)

\* run_before_handle; an address that cannot be bound shuts the program down.
BindListener ==
    /\ server.pc = "bind"
    /\ \/ server' = [server EXCEPT !.pc = "run"] /\ UNCHANGED cancelled
       \/ server' = [server EXCEPT !.pc = "closing"] /\ cancelled' = TRUE
    /\ UNCHANGED <<conns, conn, emitter, talk>>

\* listener_accept: spawn.  The task may run, and end, before its key is inserted.
AcceptSpawn(c) ==
    /\ server.pc = "run"
    /\ Move(c, "none", "accept")
    /\ server' = [server EXCEPT !.pc = "insert", !.todo = {c}]
    /\ UNCHANGED <<cancelled, conns, emitter, talk>>

\* Mutant: the key is not inserted.
SkipInsert == conns
WithInsert == conns \cup server.todo
AcceptInsert ==
    /\ server.pc = "insert"
    /\ conns' = WithInsert
    /\ server' = [server EXCEPT !.pc = "run", !.todo = {}]
    /\ UNCHANGED <<cancelled, conn, emitter, talk>>

\* shutdown: the entries are visited under the lock of their shard, which is held
\* while the aborted task is awaited.
BeginShutdown ==
    /\ server.pc = "run" /\ cancelled
    /\ server' = [server EXCEPT !.pc = "closing", !.todo = conns]
    /\ UNCHANGED <<cancelled, conns, conn, emitter, talk>>

AbortConn(c) ==
    /\ server.pc = "closing" /\ c \in server.todo /\ server.locked = {}
    /\ server' = [server EXCEPT !.locked = {c}]
    \* A task that waits at an await ends there; one that has left its last await runs on.
    /\ conn' = [conn EXCEPT ![c] = IF @ \in {"accept", "handshake", "run"} THEN "aborted" ELSE @]
    /\ UNCHANGED <<cancelled, conns, emitter, talk>>

Joined(c) == conn[c] \in {"aborted", "done"}
JoinConn(c) ==
    /\ server.locked = {c} /\ Joined(c)
    /\ server' = [server EXCEPT !.locked = {}, !.todo = @ \ {c}]
    /\ UNCHANGED <<cancelled, conns, conn, emitter, talk>>

ServerStopped ==
    /\ server.pc = "closing" /\ server.todo = {}
    /\ server' = [server EXCEPT !.pc = "stopped"]
    /\ UNCHANGED <<cancelled, conns, conn, emitter, talk>>

-----------------------------------------------------------------------------
(* The task of a connection *)

\* accept: the protocol is read; another than RemoteControl, an error, or the
\* shutdown ends it.
ReadProtocol(c) ==
    /\ \/ Move(c, "accept", "handshake")
       \/ Move(c, "accept", "remove")
    /\ UNCHANGED <<cancelled, server, conns, emitter, talk>>

\* protocol_dispatch: the handshake is answered and the Dispatcher is run, which
\* registers its channel first.  It may also fail.
ProtocolDispatch(c) ==
    /\ \/ Move(c, "handshake", "run") /\ emitter' = emitter \cup {c}
       \/ Move(c, "handshake", "remove") /\ UNCHANGED emitter
    /\ UNCHANGED <<cancelled, server, conns, talk>>

\* remove_conn waits for the lock of the shard, and is no await.
RemoveConn(c) ==
    /\ c \notin server.locked
    /\ Move(c, "remove", "done")
    /\ conns' = conns \ {c}
    /\ UNCHANGED <<cancelled, server, emitter, talk>>

-----------------------------------------------------------------------------
(* Dispatcher *)

\* The read future has parsed a request, and sends it once the channel has room.
ReadRequest(c) ==
    /\ conn[c] = "run" /\ ~reader[c].sending /\ reader[c].got < RequestLimit
    /\ reader' = [reader EXCEPT ![c] = [got |-> @.got + 1, sending |-> TRUE]]
    /\ UNCHANGED <<cancelled, server, conns, conn, emitter, chan, handlers, written>>

SendRequest(c) ==
    /\ conn[c] = "run" /\ reader[c].sending /\ Len(chan[c]) < ChanLimit
    /\ chan' = [chan EXCEPT ![c] = Append(@, Request(reader[c].got))]
    /\ reader' = [reader EXCEPT ![c].sending = FALSE]
    /\ UNCHANGED <<cancelled, server, conns, conn, emitter, handlers, written>>

Spawned(c) == handlers[c] \cup {Head(chan[c]).n}
\* command_handle: a request is given to a new task, a response is written.
\* WriteFirst answers with the oldest request under way.
WriteFirst(c) == Append(written[c], Len(written[c]) + 1)
WriteOwn(c) == Append(written[c], Head(chan[c]).n)
Command(c) ==
    /\ conn[c] = "run" /\ chan[c] # <<>>
    /\ IF Head(chan[c]).kind = "request"
       THEN /\ handlers' = [handlers EXCEPT ![c] = Spawned(c)]
            /\ UNCHANGED written
       ELSE /\ written' = [written EXCEPT ![c] = WriteOwn(c)]
            /\ UNCHANGED handlers
    /\ chan' = [chan EXCEPT ![c] = Tail(@)]
    /\ UNCHANGED <<cancelled, server, conns, conn, emitter, reader>>

\* handle_request returns: its response is sent when there is room; if the
\* Dispatcher has gone the task panics and the response is lost.
Handled(c, n) ==
    /\ n \in handlers[c]
    /\ handlers' = [handlers EXCEPT ![c] = @ \ {n}]
    /\ \/ /\ conn[c] = "run" /\ Len(chan[c]) < ChanLimit
          /\ chan' = [chan EXCEPT ![c] = Append(@, Response(n))]
       \/ conn[c] # "run" /\ UNCHANGED chan
    /\ UNCHANGED <<cancelled, server, conns, conn, emitter, reader, written>>

Unregistered(c) == emitter \ {c}
\* The loop of Runnable::run ends: cancelled, the peer has gone, or a response
\* cannot be written.  The channel is taken from the Emitter.
ExitRun(c) ==
    /\ Move(c, "run", "remove")
    /\ emitter' = Unregistered(c)
    /\ chan' = [chan EXCEPT ![c] = <<>>]
    /\ UNCHANGED <<cancelled, server, conns, reader, handlers, written>>

\* TaskManager::shutdown and the signal handler.
Cancel ==
    /\ ~cancelled /\ cancelled' = TRUE
    /\ UNCHANGED <<server, conns, conn, emitter, talk>>

ServerStep ==
    \/ BindListener \/ AcceptInsert \/ BeginShutdown \/ ServerStopped
    \/ \E c \in Conns : AbortConn(c) \/ JoinConn(c)
DispatcherStep(c) == SendRequest(c) \/ Command(c)
CtlNext ==
    \/ ServerStep \/ Cancel
    \/ \E c \in Conns :
         \/ AcceptSpawn(c) \/ ReadProtocol(c) \/ ProtocolDispatch(c) \/ RemoveConn(c)
         \/ ReadRequest(c) \/ DispatcherStep(c) \/ ExitRun(c)
         \/ \E n \in handlers[c] : Handled(c, n)

CtlSpec == CtlInit /\ [][CtlNext]_ctlVars

-----------------------------------------------------------------------------
(* Properties *)

CtlTypeOK ==
    /\ conns \subseteq Conns /\ emitter \subseteq Conns
    /\ \A c \in Conns : Len(chan[c]) <= ChanLimit /\ handlers[c] \subseteq 1 .. RequestLimit

\* The task has been spawned and not ended.
Alive(c) == conn[c] \in {"accept", "handshake", "run", "remove"}

\* No request is answered twice and no response is made up: dispatch, the handlers
\* and the channel they share with the reader keep the transaction ids apart.
AnsweredOnce ==
    \A c \in Conns :
        /\ \A i, j \in DOMAIN written[c] : written[c][i] = written[c][j] => i = j
        /\ \A i \in DOMAIN written[c] :
              /\ written[c][i] \in 1 .. reader[c].got
              /\ written[c][i] \notin handlers[c]
              /\ Request(written[c][i]) \notin Range(chan[c])

\* Every live task is in the map that shutdown goes through, or is the one that is
\* being inserted, so a server that has stopped leaves none behind; a controller in
\* the Emitter has a Dispatcher that will take it out, unless the task was aborted.
ConnsTracked ==
    /\ \A c \in Conns : Alive(c) => c \in conns \/ server.todo = {c}
    /\ \A c \in emitter : conn[c] \in {"run", "aborted"}

\* sync.rs:81: the aborted tasks are waited for, and they end: a server that is shut
\* down stops.
ServerStops == cancelled ~> (server.pc = "stopped")
=============================================================================
