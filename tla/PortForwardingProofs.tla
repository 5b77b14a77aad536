----------------------- MODULE PortForwardingProofs -----------------------
(* Safety of port forwarding for any clients, forwards and size of the     *)
(* pool.                                                                   *)
(*                                                                         *)
(* The argument follows one client through its two tasks: which task is in *)
(* the queue tells where the client is (Queued), each task stands there    *)
(* once (NoTwice), the client the accept thread holds has no task yet      *)
(* (InHand), and the place of the first task tells whether there is an     *)
(* uplink and whether the channel has been closed (Stage).                 *)
EXTENDS PortForwarding, TLAPS

Holds(q, x) == \E i \in 1 .. Len(q) : q[i] = x
NoTwice(q)  == \A i, j \in 1 .. Len(q) : q[i] = q[j] => i = j

Stage(c) ==
  /\ socket[c] \in {"out", "backlog"} => down[c] = "none"
  /\ down[c] \in {"none", "queued", "dropped", "handshake", "open", "submit"} => up[c] = "none"
  /\ down[c] \in {"none", "queued", "dropped", "handshake", "open", "submit", "loop", "close"}
       => closes[c] = 0
  /\ down[c] = "closeSocket" => closes[c] = 1
  /\ down[c] = "done" => socket[c] = "closed" /\ (up[c] # "none" => closes[c] = 1)
  /\ up[c] \in {"queued", "read"} /\ socket[c] # "closed"
       => down[c] \in {"loop", "close", "closeSocket"}
Queued(c) ==
  /\ Holds(workQ, <<"serve", c>>) => down[c] = "queued"
  /\ Holds(workQ, <<"uplink", c>>) => up[c] = "queued"
InHand(c) == acceptor.at = "hand" /\ acceptor.client = c => down[c] = "none" /\ socket[c] = "open"

Clients == NoTwice(workQ) /\ \A c \in Client : Stage(c) /\ Queued(c) /\ InHand(c)
IInv == TypeOK /\ Clients /\ PortIsServed

(* What Append and Tail do to the contents of a queue.                     *)
LEMMA AppendFacts ==
  ASSUME NEW S, NEW q \in Seq(S), NEW y \in S
  PROVE  /\ Append(q, y) \in Seq(S)
         /\ \A x : Holds(Append(q, y), x) <=> Holds(q, x) \/ x = y
         /\ NoTwice(q) /\ ~Holds(q, y) => NoTwice(Append(q, y))
<1>1. /\ Append(q, y) \in Seq(S) /\ Len(Append(q, y)) = Len(q) + 1
      /\ Append(q, y)[Len(q) + 1] = y
      /\ \A i \in 1 .. Len(q) : Append(q, y)[i] = q[i]
  OBVIOUS
<1>2. Len(q) \in Nat
  OBVIOUS
<1>3. ASSUME NEW x PROVE Holds(Append(q, y), x) <=> Holds(q, x) \/ x = y
  <2>1. 1 .. Len(q) + 1 = (1 .. Len(q)) \cup {Len(q) + 1}
    BY <1>2
  <2> QED BY <1>1, <2>1 DEF Holds
<1>4. NoTwice(q) /\ ~Holds(q, y) => NoTwice(Append(q, y))
  BY <1>1, <1>2 DEF NoTwice, Holds
<1> QED BY <1>1, <1>3, <1>4

LEMMA TailFacts ==
  ASSUME NEW S, NEW q \in Seq(S), q # <<>>
  PROVE  /\ Head(q) \in S /\ Tail(q) \in Seq(S)
         /\ Holds(q, Head(q))
         /\ \A x : Holds(Tail(q), x) => Holds(q, x)
         /\ \A x : Holds(q, x) => x = Head(q) \/ Holds(Tail(q), x)
         /\ NoTwice(q) => NoTwice(Tail(q)) /\ ~Holds(Tail(q), Head(q))
<1>1. /\ Len(q) \in Nat /\ Len(q) > 0 /\ Head(q) = q[1] /\ Head(q) \in S
      /\ Tail(q) \in Seq(S) /\ Len(Tail(q)) = Len(q) - 1
      /\ \A i \in 1 .. Len(q) - 1 : Tail(q)[i] = q[i + 1]
  OBVIOUS
<1>2. Holds(q, Head(q))
  BY <1>1 DEF Holds
<1>3. ASSUME NEW x, Holds(Tail(q), x) PROVE Holds(q, x)
  BY <1>1, <1>3 DEF Holds
<1>4. ASSUME NEW x, Holds(q, x) PROVE x = Head(q) \/ Holds(Tail(q), x)
  <2>1. PICK i \in 1 .. Len(q) : q[i] = x
    BY <1>4 DEF Holds
  <2>2. CASE i = 1
    BY <2>1, <2>2, <1>1
  <2>3. CASE i # 1
    <3>1. i - 1 \in 1 .. Len(q) - 1 /\ Tail(q)[i - 1] = x
      BY <2>1, <2>3, <1>1
    <3> QED BY <3>1, <1>1 DEF Holds
  <2> QED BY <2>2, <2>3
<1>5. NoTwice(q) => NoTwice(Tail(q)) /\ ~Holds(Tail(q), Head(q))
  BY <1>1 DEF NoTwice, Holds
<1> QED BY <1>1, <1>2, <1>3, <1>4, <1>5

LEMMA InitIInv == Init => IInv
<1> SUFFICES ASSUME Init PROVE IInv
  OBVIOUS
<1>1. TypeOK
  <2>1. Idle \in [at : {"idle", "check", "accept", "hand"},
                   forward : Forward \cup {NoOne}, client : Client \cup {NoOne}]
    BY DEF Idle
  <2>2. <<>> \in Seq(Forward) /\ <<>> \in Seq(Task) /\ FALSE \in BOOLEAN
    OBVIOUS
  <2>3. /\ down \in [Client -> {"none", "queued", "dropped", "done"} \cup DownRunning]
        /\ up \in [Client -> {"none", "queued", "read", "dropped", "done"}]
        /\ closes \in [Client -> 0 .. 1]
        /\ socket \in [Client -> {"out", "backlog", "open", "closed"}]
        /\ start \in [Forward -> {"no", "checked", "bound", "started", "refused"}]
        /\ ended \subseteq Client /\ listening \subseteq Forward
    BY DEF Init
  <2>4. /\ acceptor = Idle /\ acceptQ = <<>> /\ workQ = <<>> /\ crashed = FALSE
        /\ phase = "connected"
    BY DEF Init
  <2> QED BY <2>1, <2>2, <2>3, <2>4 DEF TypeOK
<1>2. Clients
  BY DEF Init, Clients, NoTwice, Stage, Queued, InHand, Holds, Idle
<1>3. PortIsServed
  BY DEF Init, PortIsServed
<1> QED BY <1>1, <1>2, <1>3 DEF IInv

(* Steps that do not touch the clients, their tasks or the work queue.     *)
LEMMA ClientsSame ==
  ASSUME Clients, UNCHANGED <<workQ, clientVars>>,
         acceptor'.at = "hand" => acceptor' = acceptor
  PROVE  Clients'
BY DEF Clients, clientVars, Stage, Queued, InHand

LEMMA PortsSame ==
  ASSUME PortIsServed, UNCHANGED <<start, listening, acceptQ, acceptor>>,
         phase # "connected" => phase' # "connected"
  PROVE  PortIsServed'
BY DEF PortIsServed

-----------------------------------------------------------------------------
LEMMA StartKeeps ==
  ASSUME IInv, NEW f \in Forward, StartCheck(f) \/ Bind(f) \/ SubmitLoop(f)
  PROVE  IInv'
<1>1. CASE StartCheck(f)
  <2>1. TypeOK'
    BY <1>1 DEF IInv, TypeOK, StartCheck, clientVars
  <2>2. PortIsServed'
    BY <1>1 DEF IInv, TypeOK, PortIsServed, StartCheck
  <2> QED BY <1>1, <2>1, <2>2, ClientsSame DEF IInv, StartCheck
<1>2. CASE Bind(f)
  <2>1. TypeOK'
    BY <1>2 DEF IInv, TypeOK, Bind, clientVars
  <2>2. PortIsServed'
    BY <1>2 DEF IInv, TypeOK, PortIsServed, Bind
  <2> QED BY <1>2, <2>1, <2>2, ClientsSame DEF IInv, Bind
<1>3. CASE SubmitLoop(f)
  <2>1. acceptQ' \in Seq(Forward) /\ (~AcceptShut => Holds(acceptQ', f))
        /\ \A g : Holds(acceptQ, g) => Holds(acceptQ', g)
    <3>1. acceptQ \in Seq(Forward)
      BY DEF IInv, TypeOK
    <3>2. Append(acceptQ, f) \in Seq(Forward)
          /\ \A x : Holds(Append(acceptQ, f), x) <=> Holds(acceptQ, x) \/ x = f
      BY <3>1, AppendFacts
    <3>3. (acceptQ' = acceptQ /\ AcceptShut) \/ acceptQ' = Append(acceptQ, f)
      BY <1>3 DEF SubmitLoop
    <3> QED BY <3>1, <3>2, <3>3
  <2>2. TypeOK'
    BY <1>3, <2>1 DEF IInv, TypeOK, SubmitLoop, clientVars
  <2>3. PortIsServed'
    BY <1>3, <2>1, ZenonT(60) DEF IInv, TypeOK, PortIsServed, SubmitLoop, Holds, AcceptShut
  <2> QED BY <1>3, <2>2, <2>3, ClientsSame DEF IInv, SubmitLoop
<1> QED BY <1>1, <1>2, <1>3

LEMMA LoopKeeps ==
  ASSUME IInv, BeginLoop \/ CheckLoop \/ AcceptFails
  PROVE  IInv'
<1>1. CASE BeginLoop
  <2>1. /\ acceptQ' \in Seq(Forward) /\ Head(acceptQ) \in Forward
        /\ \A g : Holds(acceptQ, g) => g = Head(acceptQ) \/ Holds(acceptQ', g)
    BY <1>1, TailFacts DEF IInv, TypeOK, BeginLoop
  <2>2. acceptor' = [at |-> "check", forward |-> Head(acceptQ), client |-> NoOne]
    BY <1>1 DEF BeginLoop, Idle
  <2>3. TypeOK'
    <3>1. acceptor' \in [at : {"idle", "check", "accept", "hand"},
                         forward : Forward \cup {NoOne}, client : Client \cup {NoOne}]
      BY <2>1, <2>2
    <3>2. UNCHANGED <<phase, start, listening, workQ, clientVars, crashed>>
      BY <1>1 DEF BeginLoop
    <3> QED BY <2>1, <3>1, <3>2 DEF IInv, TypeOK, clientVars
  <2>4. PortIsServed'
    BY <1>1, <2>1, <2>2 DEF IInv, TypeOK, PortIsServed, BeginLoop, Holds
  <2> QED BY <1>1, <2>2, <2>3, <2>4, ClientsSame DEF IInv, BeginLoop
<1>2. CASE CheckLoop \/ AcceptFails
  <2>1. /\ UNCHANGED <<phase, start, listening, acceptQ, workQ, clientVars, crashed>>
        /\ acceptor' \in {Idle, [acceptor EXCEPT !.at = "accept"]}
        /\ acceptor' = Idle => ~Connected \/ acceptor.forward \notin listening
        /\ acceptor.at # "idle"
    BY <1>2 DEF CheckLoop, AcceptFails, IInv, TypeOK, Idle
  <2>2. TypeOK' /\ acceptor'.at \in {"idle", "accept"}
        /\ (acceptor'.at = "accept" => acceptor'.forward = acceptor.forward)
        /\ (acceptor'.at = "idle" => acceptor' = Idle)
    BY <2>1 DEF IInv, TypeOK, Idle, clientVars
  <2>3. PortIsServed'
    BY <2>1, <2>2 DEF IInv, TypeOK, PortIsServed, Connected
  <2> QED BY <2>1, <2>2, <2>3, ClientsSame DEF IInv
<1> QED BY <1>1, <1>2

LEMMA AcceptErrorKeeps ==
  ASSUME IInv, AcceptError
  PROVE  IInv'
<1> DEFINE f == acceptor.forward
<1>1. f \in Forward /\ acceptor' = Idle /\ acceptor'.at = "idle"
      /\ start' = [start EXCEPT ![f] = "failed"]
      /\ UNCHANGED <<phase, listening, acceptQ, workQ, clientVars, crashed>>
  BY DEF AcceptError, IInv, TypeOK, Idle
<1>2. TypeOK'
  BY <1>1 DEF IInv, TypeOK, Idle, clientVars
<1>3. ASSUME NEW g \in listening'
      PROVE  \/ start'[g] \in {"bound", "failed"} \/ phase' # "connected"
             \/ \E i \in 1 .. Len(acceptQ') : acceptQ'[i] = g
  <2>1. CASE g = f
    BY <1>1, <2>1 DEF IInv, TypeOK
  <2>2. CASE g # f
    <3>1. start'[g] = start[g] /\ g \in listening
      BY <1>1, <2>2 DEF IInv, TypeOK
    <3> QED BY <1>1, <2>2, <3>1 DEF IInv, PortIsServed
  <2> QED BY <2>1, <2>2
<1>4. PortIsServed'
  BY <1>3 DEF PortIsServed
<1> QED BY <1>1, <1>2, <1>4, ClientsSame DEF IInv

LEMMA AcceptKeeps ==
  ASSUME IInv, NEW c \in Client, Accept(c)
  PROVE  IInv'
<1>1. /\ acceptor' = [at |-> "hand", forward |-> acceptor.forward, client |-> c]
      /\ acceptor.at = "accept"
  BY DEF Accept, IInv, TypeOK
<1>2. TypeOK'
  BY <1>1 DEF IInv, TypeOK, Accept
<1>3. Clients'
  BY <1>1 DEF IInv, TypeOK, Clients, Stage, Queued, InHand, Accept
<1>4. PortIsServed'
  BY <1>1 DEF IInv, TypeOK, PortIsServed, Accept
<1> QED BY <1>2, <1>3, <1>4 DEF IInv

LEMMA HandOverKeeps ==
  ASSUME IInv, NEW c \in Client, HandOver(c)
  PROVE  IInv'
<1>1. CASE WorkersShut
  <2>1. /\ UNCHANGED <<phase, start, listening, acceptQ, acceptor, workQ, clientVars>>
        /\ crashed' = TRUE
    BY <1>1 DEF HandOver, clientVars
  <2>2. TypeOK'
    BY <2>1 DEF IInv, TypeOK, clientVars
  <2> QED BY <2>1, <2>2, ClientsSame, PortsSame DEF IInv
<1>2. CASE ~WorkersShut
  <2>1. /\ acceptor' = [at |-> "check", forward |-> acceptor.forward, client |-> NoOne]
        /\ acceptor.at = "hand" /\ workQ' = Append(workQ, <<"serve", c>>)
        /\ down' = [down EXCEPT ![c] = "queued"]
        /\ UNCHANGED <<phase, start, listening, acceptQ, socket, ended, up, closes, crashed>>
    BY <1>2 DEF HandOver, AfterHandOver, IInv, TypeOK
  <2>2. down[c] = "none" /\ socket[c] = "open" /\ ~Holds(workQ, <<"serve", c>>)
        /\ <<"serve", c>> \in Task
    BY DEF HandOver, IInv, Clients, InHand, Queued, Task
  <2>3. /\ workQ' \in Seq(Task) /\ NoTwice(workQ')
        /\ \A x : Holds(workQ', x) <=> Holds(workQ, x) \/ x = <<"serve", c>>
    <3>1. workQ \in Seq(Task) /\ NoTwice(workQ)
      BY DEF IInv, TypeOK, Clients
    <3>2. LET q == Append(workQ, <<"serve", c>>) IN
          /\ q \in Seq(Task) /\ NoTwice(q)
          /\ \A x : Holds(q, x) <=> Holds(workQ, x) \/ x = <<"serve", c>>
      BY <2>2, <3>1, AppendFacts
    <3> QED BY <2>1, <3>2
  <2>4. TypeOK'
    BY <2>1, <2>3 DEF IInv, TypeOK
  <2>5. ASSUME NEW d \in Client PROVE (Stage(d) /\ Queued(d) /\ InHand(d))'
    <3>1. CASE d = c
      BY <3>1, <2>1, <2>2, <2>3, ZenonT(60) DEF IInv, TypeOK, Clients, Stage, Queued, InHand
    <3>2. CASE d # c
      BY <3>2, <2>1, <2>3, ZenonT(60) DEF IInv, TypeOK, Clients, Stage, Queued, InHand
    <3> QED BY <3>1, <3>2
  <2>6. PortIsServed'
    BY <2>1 DEF IInv, PortIsServed
  <2> QED BY <2>3, <2>4, <2>5, <2>6 DEF IInv, Clients
<1> QED BY <1>1, <1>2

LEMMA TakeKeeps ==
  ASSUME IInv, NEW c \in Client, TakeServe(c) \/ TakeUplink(c)
  PROVE  IInv'
<1> DEFINE h == Head(workQ)
<1>1. /\ h \in Task /\ workQ' \in Seq(Task) /\ Holds(workQ, h) /\ NoTwice(workQ')
      /\ ~Holds(workQ', h) /\ \A x : Holds(workQ', x) => Holds(workQ, x)
  <2>1. workQ \in Seq(Task) /\ NoTwice(workQ)
    BY DEF IInv, TypeOK, Clients
  <2>2. workQ # <<>> /\ workQ' = Tail(workQ)
    BY DEF TakeServe, TakeUplink
  <2> QED BY <2>1, <2>2, TailFacts
<1>2. UNCHANGED <<phase, start, listening, acceptQ, acceptor, socket, ended, closes, crashed>>
  BY DEF TakeServe, TakeUplink
<1>3. CASE TakeServe(c)
  <2>1. /\ h = <<"serve", c>> /\ down[c] = "queued" /\ UNCHANGED up
        /\ down' = [down EXCEPT ![c] = FirstStep(c)]
    BY <1>1, <1>3 DEF TakeServe, IInv, Clients, Queued
  <2>2. FirstStep(c) \in {"handshake", "open"}
    BY DEF FirstStep
  <2>3. TypeOK'
    BY <1>1, <1>2, <2>1, <2>2 DEF IInv, TypeOK, DownRunning
  <2>4. ASSUME NEW d \in Client PROVE (Stage(d) /\ Queued(d) /\ InHand(d))'
    <3>1. \A t \in {"serve", "uplink"} : Holds(workQ', <<t, d>>)
             => Holds(workQ, <<t, d>>) /\ <<t, d>> # <<"serve", c>>
      BY <1>1, <2>1
    <3>2. CASE d = c
      BY <3>1, <3>2, <1>2, <2>1, <2>2 DEF IInv, TypeOK, Clients, Stage, Queued, InHand
    <3>3. CASE d # c
      BY <3>1, <3>3, <1>2, <2>1, <2>2 DEF IInv, TypeOK, Clients, Stage, Queued, InHand
    <3> QED BY <3>2, <3>3
  <2> QED BY <1>1, <1>2, <2>3, <2>4, PortsSame DEF IInv, Clients
<1>4. CASE TakeUplink(c)
  <2>1. /\ h = <<"uplink", c>> /\ up[c] = "queued" /\ UNCHANGED down
        /\ up' = [up EXCEPT ![c] = "read"]
    BY <1>1, <1>4 DEF TakeUplink, IInv, Clients, Queued
  <2>2. TypeOK'
    BY <1>1, <1>2, <2>1 DEF IInv, TypeOK
  <2>3. ASSUME NEW d \in Client PROVE (Stage(d) /\ Queued(d) /\ InHand(d))'
    <3>1. \A t \in {"serve", "uplink"} : Holds(workQ', <<t, d>>)
             => Holds(workQ, <<t, d>>) /\ <<t, d>> # <<"uplink", c>>
      BY <1>1, <2>1
    <3>2. CASE d = c
      BY <3>1, <3>2, <1>2, <2>1 DEF IInv, TypeOK, Clients, Stage, Queued, InHand
    <3>3. CASE d # c
      BY <3>1, <3>3, <1>2, <2>1 DEF IInv, TypeOK, Clients, Stage, Queued, InHand
    <3> QED BY <3>2, <3>3
  <2> QED BY <1>1, <1>2, <2>2, <2>3, PortsSame DEF IInv, Clients
<1> QED BY <1>3, <1>4

(* The steps of the first task and of the uplink, once they run.           *)
Local(c) ==
  \/ HandshakeOk(c) \/ HandshakeBad(c) \/ HandshakeEnd(c) \/ Opened(c) \/ NotOpened(c)
  \/ UplinkRefused(c) \/ DownEnds(c) \/ FarEnds(c) \/ DownFails(c)
  \/ CloseChannel(c) \/ CloseSocket(c) \/ UpEnds(c) \/ UpFails(c)

LEMMA LocalKeeps ==
  ASSUME IInv, NEW c \in Client, Local(c)
  PROVE  IInv'
<1>0. /\ UNCHANGED <<phase, start, listening, acceptQ, acceptor, workQ, ended, crashed>>
  BY DEF Local, HandshakeOk, HandshakeBad, HandshakeEnd, Opened, NotOpened, UplinkRefused, DownEnds,
     FarEnds, DownFails, CloseChannel, CloseSocket, UpEnds, UpFails, DownTo, GivesUp
<1>1. CASE HandshakeOk(c) \/ HandshakeBad(c) \/ HandshakeEnd(c)
  <2>1. TypeOK'
    BY <1>0, <1>1 DEF IInv, TypeOK, HandshakeOk, HandshakeBad, HandshakeEnd, DownTo, GivesUp, DownRunning
  <2>2. Clients'
    BY <1>0, <1>1 DEF IInv, TypeOK, Clients, Stage, Queued, InHand, HandshakeOk, HandshakeBad, HandshakeEnd,
       DownTo, GivesUp
  <2> QED BY <1>0, <2>1, <2>2, PortsSame DEF IInv
<1>2. CASE Opened(c) \/ NotOpened(c)
  <2>1. TypeOK'
    BY <1>0, <1>2, SMTT(60) DEF IInv, TypeOK, Opened, NotOpened, DownTo, GivesUp, DownRunning, DownTunnel
  <2>2. Clients'
    BY <1>0, <1>2 DEF IInv, TypeOK, Clients, Stage, Queued, InHand, Opened, NotOpened, DownTo, GivesUp
  <2> QED BY <1>0, <2>1, <2>2, PortsSame DEF IInv
<1>3. CASE UplinkRefused(c)
  <2>1. closes[c] = 0
    BY <1>3 DEF UplinkRefused, IInv, Clients, Stage
  <2>2. TypeOK'
    BY <1>0, <1>3, <2>1 DEF IInv, TypeOK, UplinkRefused, DownRunning, DownTunnel
  <2>3. Clients'
    BY <1>0, <1>3, <2>1 DEF IInv, TypeOK, Clients, Stage, Queued, InHand, UplinkRefused
  <2> QED BY <1>0, <2>2, <2>3, PortsSame DEF IInv
<1>4. CASE DownEnds(c) \/ FarEnds(c) \/ DownFails(c)
  <2>1. TypeOK'
    BY <1>0, <1>4 DEF IInv, TypeOK, DownEnds, FarEnds, DownFails, DownTo, DownRunning, DownTunnel
  <2>2. Clients'
    BY <1>0, <1>4 DEF IInv, TypeOK, Clients, Stage, Queued, InHand, DownEnds, FarEnds, DownFails, DownTo
  <2> QED BY <1>0, <2>1, <2>2, PortsSame DEF IInv
<1>5. CASE CloseChannel(c)
  <2>1. closes[c] = 0
    BY <1>5 DEF CloseChannel, IInv, Clients, Stage
  <2>2. TypeOK'
    BY <1>0, <1>5, <2>1 DEF IInv, TypeOK, CloseChannel, DownRunning, DownTunnel
  <2>3. Clients'
    BY <1>0, <1>5, <2>1 DEF IInv, TypeOK, Clients, Stage, Queued, InHand, CloseChannel
  <2> QED BY <1>0, <2>2, <2>3, PortsSame DEF IInv
<1>6. CASE CloseSocket(c)
  <2>1. TypeOK'
    BY <1>0, <1>6 DEF IInv, TypeOK, CloseSocket, DownRunning, DownTunnel
  <2>2. Clients'
    BY <1>0, <1>6 DEF IInv, TypeOK, Clients, Stage, Queued, InHand, CloseSocket
  <2> QED BY <1>0, <2>1, <2>2, PortsSame DEF IInv
<1>7. CASE UpEnds(c) \/ UpFails(c)
  <2>1. TypeOK'
    BY <1>0, <1>7 DEF IInv, TypeOK, UpEnds, UpFails
  <2>2. Clients'
    BY <1>0, <1>7 DEF IInv, TypeOK, Clients, Stage, Queued, InHand, UpEnds, UpFails
  <2> QED BY <1>0, <2>1, <2>2, PortsSame DEF IInv
<1> QED BY <1>1, <1>2, <1>3, <1>4, <1>5, <1>6, <1>7 DEF Local

LEMMA SubmitUplinkKeeps ==
  ASSUME IInv, NEW c \in Client, SubmitUplink(c)
  PROVE  IInv'
<1>1. up[c] = "none" /\ closes[c] = 0 /\ <<"uplink", c>> \in Task
      /\ ~Holds(workQ, <<"uplink", c>>)
  BY DEF SubmitUplink, IInv, Clients, Stage, Queued, Task
<1>2. /\ workQ' \in Seq(Task) /\ NoTwice(workQ')
      /\ \A x : Holds(workQ', x) <=> Holds(workQ, x) \/ x = <<"uplink", c>>
  <2>1. workQ \in Seq(Task) /\ NoTwice(workQ)
    BY DEF IInv, TypeOK, Clients
  <2>2. workQ' = Append(workQ, <<"uplink", c>>)
    BY DEF SubmitUplink
  <2>3. LET q == Append(workQ, <<"uplink", c>>) IN
        /\ q \in Seq(Task) /\ NoTwice(q)
        /\ \A x : Holds(q, x) <=> Holds(workQ, x) \/ x = <<"uplink", c>>
    BY <1>1, <2>1, AppendFacts
  <2> QED BY <2>2, <2>3
<1>3. TypeOK'
  BY <1>2 DEF IInv, TypeOK, SubmitUplink, DownRunning, DownTunnel
<1>4. ASSUME NEW d \in Client PROVE (Stage(d) /\ Queued(d) /\ InHand(d))'
  BY <1>1, <1>2, ZenonT(60) DEF IInv, TypeOK, Clients, Stage, Queued, InHand, SubmitUplink
<1> QED BY <1>2, <1>3, <1>4, PortsSame DEF IInv, Clients, SubmitUplink

LEMMA DisconnectKeeps ==
  ASSUME IInv, StopAllForwards \/ Disconnect
  PROVE  IInv'
<1>1. CASE StopAllForwards
  <2>1. TypeOK'
    BY <1>1 DEF IInv, TypeOK, StopAllForwards
  <2>2. Clients'
    BY <1>1 DEF IInv, TypeOK, Clients, Stage, Queued, InHand, StopAllForwards
  <2>3. PortIsServed'
    BY <1>1 DEF PortIsServed, StopAllForwards
  <2> QED BY <2>1, <2>2, <2>3 DEF IInv
<1>2. CASE FreeHandle \/ ShutAccept
  <2>1. TypeOK'
    <3>1. acceptQ' \in Seq(Forward) /\ phase' \in {"freed", "acceptShut"}
          /\ UNCHANGED <<start, listening, acceptor, workQ, clientVars, crashed>>
      <4>1. CASE FreeHandle
        BY <4>1 DEF FreeHandle, IInv, TypeOK
      <4>2. CASE ShutAccept
        <5>1. <<>> \in Seq(Forward)
          OBVIOUS
        <5> QED BY <4>2, <5>1 DEF ShutAccept
      <4> QED BY <1>2, <4>1, <4>2
    <3> QED BY <3>1 DEF IInv, TypeOK, clientVars
  <2>2. Clients'
    BY <1>2, ClientsSame DEF IInv, FreeHandle, ShutAccept
  <2>3. PortIsServed'
    BY <1>2 DEF PortIsServed, FreeHandle, ShutAccept
  <2> QED BY <2>1, <2>2, <2>3 DEF IInv
<1>3. CASE ShutWorkers
  <2>1. TypeOK'
    BY <1>3 DEF IInv, TypeOK, ShutWorkers, Dropped
  <2>2. NoTwice(workQ') /\ \A x : ~Holds(workQ', x)
    BY <1>3 DEF ShutWorkers, NoTwice, Holds
  <2>3. ASSUME NEW d \in Client PROVE (Stage(d) /\ Queued(d) /\ InHand(d))'
    BY <1>3, <2>2 DEF IInv, TypeOK, Clients, Stage, Queued, InHand, ShutWorkers, Dropped
  <2>4. PortIsServed'
    BY <1>3 DEF PortIsServed, ShutWorkers
  <2> QED BY <2>1, <2>2, <2>3, <2>4 DEF IInv, Clients
<1> QED BY <1>1, <1>2, <1>3 DEF Disconnect

LEMMA ClientKeeps ==
  ASSUME IInv, NEW c \in Client, ClientConnects(c) \/ ClientEnds(c)
  PROVE  IInv'
<1>1. TypeOK'
  BY DEF IInv, TypeOK, ClientConnects, ClientEnds
<1>2. Clients'
  BY DEF IInv, TypeOK, Clients, Stage, Queued, InHand, ClientConnects, ClientEnds
<1> QED BY <1>1, <1>2, PortsSame DEF IInv, ClientConnects, ClientEnds

LEMMA NextKeeps == IInv /\ [Next]_vars => IInv'
<1> SUFFICES ASSUME IInv, [Next]_vars PROVE IInv'
  OBVIOUS
<1>1. CASE UNCHANGED vars
  <2>1. TypeOK'
    BY <1>1 DEF IInv, TypeOK, vars, clientVars
  <2> QED BY <1>1, <2>1, ClientsSame, PortsSame DEF IInv, vars
<1>2. CASE StopAllForwards \/ Disconnect
  BY <1>2, DisconnectKeeps
<1>3. CASE Starter \/ \E f \in Forward : StartCheck(f)
  BY <1>3, StartKeeps DEF Starter
<1>4. CASE Acceptor
  BY <1>4, LoopKeeps, AcceptKeeps, HandOverKeeps DEF Acceptor
<1>7. CASE AcceptError
  BY <1>7, AcceptErrorKeeps
<1>5. CASE \E c \in Client : ClientConnects(c) \/ ClientEnds(c)
  BY <1>5, ClientKeeps
<1>6. CASE \E c \in Client : TakeServe(c) \/ TakeUplink(c) \/ SubmitUplink(c) \/ Local(c)
  BY <1>6, TakeKeeps, SubmitUplinkKeeps, LocalKeeps
<1> QED BY <1>1, <1>2, <1>3, <1>4, <1>5, <1>6, <1>7 DEF Next, Worker, Uplink, Local

THEOREM Inductive == Spec => []IInv
BY InitIInv, NextKeeps, PTL DEF Spec, SafetySpec

(* SshTransport.java:310-313, 352-360, 474-479: on every path of its first *)
(* task a client's socket is closed, and its channel exactly once.         *)
THEOREM NothingLeftHolds == Spec => []NothingLeft
<1>1. IInv => NothingLeft
  BY DEF IInv, Clients, Stage, NothingLeft
<1> QED BY <1>1, Inductive, PTL

(* SshTransport.java:319-355: an uplink that waits or reads on an open     *)
(* socket has a downlink that will close it.                               *)
THEOREM UplinkHasDownlinkHolds == Spec => []UplinkHasDownlink
<1>1. IInv => UplinkHasDownlink
  BY DEF IInv, Clients, Stage, UplinkHasDownlink
<1> QED BY <1>1, Inductive, PTL

(* SshTransport.java:283-298: until disconnect() begins, an open port has  *)
(* its accept loop running or waiting for the accept thread, unless an     *)
(* accept() has thrown on it.                                              *)
THEOREM PortIsServedHolds == Spec => []PortIsServed
BY Inductive, PTL DEF IInv
=============================================================================
