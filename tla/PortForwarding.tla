-------------------------- MODULE PortForwarding --------------------------
(* Port forwarding of SshTransport: a thread that accepts local clients, a *)
(* fixed pool of worker threads that tunnel them, and disconnect().        *)
(*                                                                         *)
(* A client takes two tasks of the pool.  The first opens a channel to the *)
(* target (for a dynamic forward after a SOCKS handshake), submits the     *)
(* second, the uplink, to the same pool, and stays as the downlink; it     *)
(* closes the channel and the socket when it ends.  What travels through a *)
(* tunnel is left out: a read brings something or the end.                 *)
EXTENDS Naturals, Sequences, FiniteSets

CONSTANTS
  Client,     \* the local connections (each is made at most once)
  Forward,    \* the forwarded ports
  PortOf,     \* the port each client connects to
  Dynamic,    \* the forwards of startDynamicForwarding
  Pool        \* forwardPoolSize: the threads of the worker pool

ASSUME ForwardAssumption ==
  /\ PortOf \in [Client -> Forward] /\ Dynamic \subseteq Forward
  /\ Pool \in Nat /\ Pool >= 2
  /\ IsFiniteSet(Client)

VARIABLES
  phase,      \* how far disconnect() has come
  start,      \* how far start...Forwarding(f) has come
  listening,  \* the server sockets that are open
  acceptQ,    \* forwards whose accept loop waits for the accept thread
  acceptor,   \* the accept thread: where it is, its forward and its client
  socket,     \* the socket of each client
  ended,      \* clients that have ended their output
  workQ,      \* tasks that wait for a worker thread
  down,       \* the first task of each client
  up,         \* its uplink task
  closes,     \* how often its channel has been closed
  crashed     \* an exception nobody catches has ended the process

clientVars == <<socket, ended, down, up, closes>>
vars == <<phase, start, listening, acceptQ, acceptor, workQ, clientVars, crashed>>

NoOne == "none"
Idle  == [at |-> "idle", forward |-> NoOne, client |-> NoOne]

Task == {"serve", "uplink"} \X Client
DownTunnel  == {"submit", "loop", "close", "closeSocket"}   \* with a channel
DownRunning == {"handshake", "open"} \cup DownTunnel

TypeOK ==
  /\ phase \in {"connected", "stopped", "freed", "acceptShut", "done"}
  /\ start \in [Forward -> {"no", "checked", "bound", "started", "refused", "failed"}]
  /\ listening \subseteq Forward /\ acceptQ \in Seq(Forward)
  /\ acceptor \in [at : {"idle", "check", "accept", "hand"},
                   forward : Forward \cup {NoOne}, client : Client \cup {NoOne}]
  /\ socket \in [Client -> {"out", "backlog", "open", "closed"}]
  /\ ended \subseteq Client
  /\ workQ \in Seq(Task)
  /\ down \in [Client -> {"none", "queued", "dropped", "done"} \cup DownRunning]
  /\ up \in [Client -> {"none", "queued", "read", "dropped", "done"}]
  /\ closes \in [Client -> 0 .. 1] /\ crashed \in BOOLEAN

Init ==
  /\ phase = "connected" /\ start = [f \in Forward |-> "no"] /\ listening = {}
  /\ acceptQ = <<>> /\ acceptor = Idle /\ workQ = <<>> /\ crashed = FALSE
  /\ socket = [c \in Client |-> "out"] /\ ended = {}
  /\ down = [c \in Client |-> "none"] /\ up = [c \in Client |-> "none"]
  /\ closes = [c \in Client |-> 0]

Connected   == phase \in {"connected", "stopped"}    \* the handle and connected
AcceptShut  == phase \in {"acceptShut", "done"}
WorkersShut == phase = "done"
-----------------------------------------------------------------------------
(* startLocalForwarding and startDynamicForwarding, on the main thread; a  *)
(* forward is started once (of an active one a second start does nothing,  *)
(* and of one whose port is still open it fails to bind).                  *)
NobodyStarts == \A f \in Forward : start[f] \notin {"checked", "bound"}
StartCheck(f) ==
  /\ NobodyStarts /\ start[f] = "no" /\ Connected
  /\ start' = [start EXCEPT ![f] = "checked"]
  /\ UNCHANGED <<phase, listening, acceptQ, acceptor, workQ, clientVars, crashed>>
Bind(f) ==
  /\ start[f] = "checked"
  /\ start' = [start EXCEPT ![f] = "bound"] /\ listening' = listening \cup {f}
  /\ UNCHANGED <<phase, acceptQ, acceptor, workQ, clientVars, crashed>>
(* A shut accept executor throws, which the screen shows to the user.      *)
SubmitLoop(f) ==
  /\ start[f] = "bound"
  /\ IF AcceptShut
     THEN start' = [start EXCEPT ![f] = "refused"] /\ UNCHANGED acceptQ
     ELSE /\ start' = [start EXCEPT ![f] = "started"]
          /\ acceptQ' = Append(acceptQ, f)
  /\ UNCHANGED <<phase, listening, acceptor, workQ, clientVars, crashed>>

(* The accept thread: one loop at a time, to its end.                      *)
BeginLoop ==
  /\ acceptor.at = "idle" /\ acceptQ # <<>>
  /\ acceptor' = [Idle EXCEPT !.at = "check", !.forward = Head(acceptQ)]
  /\ acceptQ' = Tail(acceptQ)
  /\ UNCHANGED <<phase, start, listening, workQ, clientVars, crashed>>
CheckLoop ==
  /\ acceptor.at = "check"
  /\ acceptor' = IF Connected /\ acceptor.forward \in listening
                 THEN [acceptor EXCEPT !.at = "accept"] ELSE Idle
  /\ UNCHANGED <<phase, start, listening, acceptQ, workQ, clientVars, crashed>>
Accept(c) ==
  /\ acceptor.at = "accept" /\ socket[c] = "backlog" /\ PortOf[c] = acceptor.forward
  /\ acceptor' = [acceptor EXCEPT !.at = "hand", !.client = c]
  /\ socket' = [socket EXCEPT ![c] = "open"]
  /\ UNCHANGED <<phase, start, listening, acceptQ, workQ, ended, down, up, closes, crashed>>
AcceptFails ==
  /\ acceptor.at = "accept" /\ acceptor.forward \notin listening
  /\ acceptor' = Idle
  /\ UNCHANGED <<phase, start, listening, acceptQ, workQ, clientVars, crashed>>
(* accept() may also throw while its socket is open, with no descriptor    *)
(* left say.  The loop ends all the same and forgets the forward, but the  *)
(* socket stays open: a new start of it cannot bind the port.              *)
AcceptError ==
  /\ acceptor.at = "accept" /\ acceptor.forward \in listening
  /\ acceptor' = Idle /\ start' = [start EXCEPT ![acceptor.forward] = "failed"]
  /\ UNCHANGED <<phase, listening, acceptQ, workQ, clientVars, crashed>>
(* handle...Connection submits the first task.  The accept loop catches    *)
(* IOException only: a shut worker pool ends the process.                  *)
(* Mutant: an if in place of the loop's while.                             *)
AfterHandOverOnce == Idle
AfterHandOver == [acceptor EXCEPT !.at = "check", !.client = NoOne]
HandOver(c) ==
  /\ acceptor.at = "hand" /\ acceptor.client = c
  /\ IF WorkersShut
     THEN crashed' = TRUE /\ UNCHANGED <<workQ, down, acceptor>>
     ELSE /\ workQ' = Append(workQ, <<"serve", c>>)
          /\ down' = [down EXCEPT ![c] = "queued"]
          /\ acceptor' = AfterHandOver
          /\ UNCHANGED crashed
  /\ UNCHANGED <<phase, start, listening, acceptQ, socket, ended, up, closes>>
-----------------------------------------------------------------------------
(* The worker pool.                                                        *)
Running == {c \in Client : down[c] \in DownRunning}
Sending == {c \in Client : up[c] = "read"}
(* Mutant: a pool one thread short.                                        *)
FreeThreadButOne == Cardinality(Running) + Cardinality(Sending) < Pool - 1
FreeThread == Cardinality(Running) + Cardinality(Sending) < Pool

FirstStep(c) == IF PortOf[c] \in Dynamic THEN "handshake" ELSE "open"
TakeServe(c) ==
  /\ workQ # <<>> /\ Head(workQ) = <<"serve", c>> /\ FreeThread
  /\ workQ' = Tail(workQ)
  /\ down' = [down EXCEPT ![c] = FirstStep(c)]
  /\ UNCHANGED <<phase, start, listening, acceptQ, acceptor, socket, ended, up, closes,
                 crashed>>
TakeUplink(c) ==
  /\ workQ # <<>> /\ Head(workQ) = <<"uplink", c>> /\ FreeThread
  /\ workQ' = Tail(workQ)
  /\ up' = [up EXCEPT ![c] = "read"]
  /\ UNCHANGED <<phase, start, listening, acceptQ, acceptor, socket, ended, down, closes,
                 crashed>>

(* How the first task goes on: to another place of its own.                *)
DownTo(c, place) ==
  /\ down' = [down EXCEPT ![c] = place]
  /\ UNCHANGED <<phase, start, listening, acceptQ, acceptor, workQ, socket, ended, up,
                 closes, crashed>>
(* Giving up before there is a channel: the socket is closed.              *)
GivesUp(c) ==
  /\ down' = [down EXCEPT ![c] = "done"] /\ socket' = [socket EXCEPT ![c] = "closed"]
  /\ UNCHANGED <<phase, start, listening, acceptQ, acceptor, workQ, ended, up, closes,
                 crashed>>

(* The SOCKS handshake waits for the client and for nothing else: its      *)
(* greeting and request are in order, or they are not, or it ends.         *)
HandshakeOk(c)  == down[c] = "handshake" /\ c \notin ended /\ DownTo(c, "open")
HandshakeBad(c) == down[c] = "handshake" /\ c \notin ended /\ GivesUp(c)
HandshakeEnd(c) == down[c] = "handshake" /\ c \in ended /\ GivesUp(c)

(* openDirectTcpIp gives 0 when it fails and when the handle is 0.         *)
Opened(c)    == down[c] = "open" /\ Connected /\ DownTo(c, "submit")
NotOpened(c) == down[c] = "open" /\ GivesUp(c)

(* The uplink is submitted; a shut pool throws, and the channel and the    *)
(* socket are closed in the catch block.                                   *)
SubmitUplink(c) ==
  /\ down[c] = "submit" /\ ~WorkersShut
  /\ workQ' = Append(workQ, <<"uplink", c>>)
  /\ up' = [up EXCEPT ![c] = "queued"] /\ down' = [down EXCEPT ![c] = "loop"]
  /\ UNCHANGED <<phase, start, listening, acceptQ, acceptor, socket, ended, closes, crashed>>
(* Mutant: the catch block closes the socket only.                         *)
UplinkRefusedHalf(c) ==
  /\ down[c] = "submit" /\ WorkersShut
  /\ up' = [up EXCEPT ![c] = "dropped"]
  /\ down' = [down EXCEPT ![c] = "done"] /\ socket' = [socket EXCEPT ![c] = "closed"]
  /\ UNCHANGED <<phase, start, listening, acceptQ, acceptor, workQ, ended, closes, crashed>>
UplinkRefused(c) ==
  /\ down[c] = "submit" /\ WorkersShut
  /\ closes' = [closes EXCEPT ![c] = @ + 1] /\ up' = [up EXCEPT ![c] = "dropped"]
  /\ down' = [down EXCEPT ![c] = "done"] /\ socket' = [socket EXCEPT ![c] = "closed"]
  /\ UNCHANGED <<phase, start, listening, acceptQ, acceptor, workQ, ended, crashed>>

DownMustEnd  == ~Connected
DownEnds(c)  == down[c] = "loop" /\ DownMustEnd /\ DownTo(c, "close")
FarEnds(c)   == down[c] = "loop" /\ DownTo(c, "close")
DownFails(c) == down[c] = "loop" /\ c \in ended /\ DownTo(c, "close")
(* Mutant: the end of the downlink leaves the socket open.                 *)
CloseSocketNever(c) == down[c] = "closeSocket" /\ DownTo(c, "done")
CloseChannel(c) ==
  /\ down[c] = "close"
  /\ closes' = [closes EXCEPT ![c] = @ + 1] /\ down' = [down EXCEPT ![c] = "closeSocket"]
  /\ UNCHANGED <<phase, start, listening, acceptQ, acceptor, workQ, socket, ended, up, crashed>>
CloseSocket(c) ==
  /\ down[c] = "closeSocket"
  /\ socket' = [socket EXCEPT ![c] = "closed"] /\ down' = [down EXCEPT ![c] = "done"]
  /\ UNCHANGED <<phase, start, listening, acceptQ, acceptor, workQ, ended, up, closes, crashed>>

(* The uplink reads from the client and writes to the channel, which       *)
(* changes nothing here.  It ends when its read does, with the client's    *)
(* output or with the socket, and when there is no handle to write to.     *)
UpEnds(c) ==
  /\ up[c] = "read" /\ (socket[c] = "closed" \/ c \in ended)
  /\ up' = [up EXCEPT ![c] = "done"]
  /\ UNCHANGED <<phase, start, listening, acceptQ, acceptor, workQ, socket, ended, down, closes,
                 crashed>>
UpFails(c) ==
  /\ up[c] = "read" /\ ~Connected
  /\ up' = [up EXCEPT ![c] = "done"]
  /\ UNCHANGED <<phase, start, listening, acceptQ, acceptor, workQ, socket, ended, down, closes,
                 crashed>>
-----------------------------------------------------------------------------
(* disconnect(): stopAllForwards, the native disconnect with the handle    *)
(* and connected, and shutdownNow of both executors, which drops what      *)
(* waits in their queues.                                                  *)
(* A closed server socket resets the clients in its backlog.               *)
StopAllForwards ==
  /\ phase = "connected" /\ phase' = "stopped"
  /\ listening' = {}
  /\ socket' = [c \in Client |-> IF socket[c] = "backlog" THEN "closed" ELSE socket[c]]
  /\ UNCHANGED <<start, acceptQ, acceptor, workQ, ended, down, up, closes, crashed>>
FreeHandle ==
  /\ phase = "stopped" /\ phase' = "freed"
  /\ UNCHANGED <<start, listening, acceptQ, acceptor, workQ, clientVars, crashed>>
ShutAccept ==
  /\ phase = "freed" /\ phase' = "acceptShut"
  /\ acceptQ' = <<>>
  /\ UNCHANGED <<start, listening, acceptor, workQ, clientVars, crashed>>
Dropped(state) == [c \in Client |-> IF state[c] = "queued" THEN "dropped" ELSE state[c]]
ShutWorkers ==
  /\ phase = "acceptShut" /\ phase' = "done"
  /\ workQ' = <<>> /\ down' = Dropped(down) /\ up' = Dropped(up)
  /\ UNCHANGED <<start, listening, acceptQ, acceptor, socket, ended, closes, crashed>>
Disconnect == FreeHandle \/ ShutAccept \/ ShutWorkers

(* The clients.                                                            *)
ClientConnects(c) ==
  /\ socket[c] = "out" /\ PortOf[c] \in listening
  /\ socket' = [socket EXCEPT ![c] = "backlog"]
  /\ UNCHANGED <<phase, start, listening, acceptQ, acceptor, workQ, ended, down, up, closes,
                 crashed>>
ClientEnds(c) ==
  /\ socket[c] = "open" /\ c \notin ended /\ ended' = ended \cup {c}
  /\ UNCHANGED <<phase, start, listening, acceptQ, acceptor, workQ, socket, down, up, closes,
                 crashed>>
Starter == \E f \in Forward : Bind(f) \/ SubmitLoop(f)
Acceptor == BeginLoop \/ CheckLoop \/ AcceptFails \/ (\E c \in Client : Accept(c) \/ HandOver(c))
Worker(c) ==
  \/ TakeServe(c) \/ HandshakeEnd(c) \/ Opened(c) \/ NotOpened(c)
  \/ SubmitUplink(c) \/ UplinkRefused(c) \/ DownEnds(c) \/ CloseChannel(c) \/ CloseSocket(c)
Uplink(c) == TakeUplink(c) \/ UpEnds(c)

Next ==
  /\ ~crashed
  /\ \/ StopAllForwards \/ Disconnect \/ Starter \/ Acceptor \/ AcceptError
     \/ \E f \in Forward : StartCheck(f)
     \/ \E c \in Client :
          \/ Worker(c) \/ Uplink(c) \/ UpFails(c)
          \/ HandshakeOk(c) \/ HandshakeBad(c) \/ DownFails(c)
          \/ ClientConnects(c) \/ ClientEnds(c) \/ FarEnds(c)

SafetySpec == Init /\ [][Next]_vars

(* Every thread that can go on does, disconnect() once begun included.     *)
(* Clients and far ends do as they like: nothing makes a client speak or   *)
(* end, and nothing but disconnect() makes a silent tunnel end.            *)
Spec ==
  /\ SafetySpec
  /\ WF_vars(~crashed /\ Disconnect) /\ WF_vars(~crashed /\ Starter)
  /\ WF_vars(~crashed /\ Acceptor)
  /\ \A c \in Client : WF_vars(~crashed /\ Worker(c)) /\ WF_vars(~crashed /\ Uplink(c))
-----------------------------------------------------------------------------
(* When the first task of a client is over, by whichever of its paths, the *)
(* client's socket is closed; and its channel, if it had one, has been     *)
(* closed exactly once: by the downlink's finally block or by the catch    *)
(* block of the refused uplink, never neither, and never both (TypeOK has  *)
(* one as the most).                                                       *)
NothingLeft ==
  \A c \in Client :
    /\ down[c] = "done" => socket[c] = "closed"
    /\ down[c] = "done" /\ up[c] # "none" => closes[c] = 1
    /\ down[c] \in {"queued", "handshake", "open", "submit", "loop"} => closes[c] = 0

(* An uplink waits in a read that only its client or the downlink can end: *)
(* as long as the socket is open there is a downlink that will close it.   *)
UplinkHasDownlink ==
  \A c \in Client :
    up[c] \in {"queued", "read"} /\ socket[c] # "closed"
      => down[c] \in {"loop", "close", "closeSocket"}

(* A started forward whose port is open has a loop, which runs or waits    *)
(* for the accept thread, until disconnect() begins.  The exception is the *)
(* code's: an accept() that threw on the open socket has ended the loop    *)
(* for good, and the port stays open until disconnect() closes it.         *)
PortIsServed ==
  \A f \in listening :
    \/ start[f] \in {"bound", "failed"} \/ phase # "connected"
    \/ acceptor.at # "idle" /\ acceptor.forward = f
    \/ \E i \in 1 .. Len(acceptQ) : acceptQ[i] = f


(* With two threads for each client, a tunnel that is open gets its uplink *)
(* (or ends).  With fewer it may wait for ever: the downlinks of others    *)
(* hold the threads, and theirs end only with the far side.                *)
UplinkStarts ==
  2 * Cardinality(Client) <= Pool =>
    \A c \in Client : (up[c] = "queued") ~> (up[c] # "queued" \/ crashed)
=============================================================================
