--------------------------- MODULE TerminalSession ---------------------------
(***************************************************************************)
(* The life of one TerminalSession over an SshTransport: the main thread   *)
(* opens and disconnects it, the control thread connects it, the read      *)
(* thread polls it, and each of the three may run disconnect().  Nothing   *)
(* is locked: isConnected, transport and disconnectNotified are single     *)
(* cells, and the native context is freed by whoever sees a handle.        *)
(*                                                                         *)
(* One step is one access to such a cell or one native call (two steps     *)
(* when the call takes long).  The data read is the matter of              *)
(* OutputDelivery; a session object is opened once, as every screen does.  *)
(***************************************************************************)
EXTENDS Naturals, Sequences

CONSTANTS
  Openings,          \* the ways a screen opens the session
  Faults             \* what may fail

ASSUME ConstantsAssumption ==
  /\ Openings \subseteq {"screen", "container", "reconnect", "attach"}
  /\ Faults \subseteq {"dial", "auth", "gone"}

VARIABLES
  opening,       \* how the session was opened
  pc,            \* where each thread is
  mine,          \* the local variable current of disconnect()
  transport,     \* the field transport is not null
  isConnected,
  disconnectNotified,
  closed,        \* the executors have been shut down
  sshHandle,     \* the field sshHandle of the transport is not 0
  connected,     \* the field connected of the transport
  context,       \* the native SshContext
  peer,          \* the server's end of the connection is there
  looper,        \* callbacks posted to the main thread
  listener,      \* the screen has added its listener
  screen,        \* what the screen shows
  asked,         \* the user has asked to disconnect: not, during the attempt or after it
  told,          \* history: onDisconnected callbacks posted so far
  late           \* history: what the attempt did after one had been posted

fieldVars == <<transport, isConnected, disconnectNotified, closed>>
linkVars == <<sshHandle, connected, context, peer>>
screenVars == <<looper, listener, screen, asked, told, late>>
vars == <<opening, pc, mine, fieldVars, linkVars, screenVars>>

Thread == {"main", "control", "read"}
Disconnecting == {"stop", "grab", "drop", "probe", "free", "forget", "shut", "notify"}
Connecting == {"queued", "create", "dial", "dialing", "auth", "authing", "shell",
               "mark", "reset", "tell", "start", "fail"}
Reading == {"queued", "loop", "field", "reading", "sleep"}
Event == {"connected", "disconnected", "error"}

TypeOK ==
  /\ opening \in {"none"} \cup Openings
  /\ pc \in [Thread -> {"idle", "bind"} \cup Disconnecting \cup Connecting \cup Reading]
  /\ mine \in [Thread -> BOOLEAN]
  /\ transport \in BOOLEAN /\ isConnected \in BOOLEAN /\ disconnectNotified \in BOOLEAN
  /\ closed \in BOOLEAN /\ sshHandle \in BOOLEAN /\ connected \in BOOLEAN
  /\ context \in {"none", "live", "freed"}
  /\ peer \in BOOLEAN /\ listener \in BOOLEAN
  /\ asked \in {"no", "during", "after"}
  /\ looper \in Seq(Event) /\ told \in Nat /\ late \subseteq {"reset", "tell"}
  /\ screen \in {"none", "waiting", "connected", "disconnected"}

Init ==
  /\ opening = "none"
  /\ pc = [th \in Thread |-> "idle"]
  /\ mine = [th \in Thread |-> FALSE]
  /\ transport = FALSE /\ isConnected = FALSE
  /\ disconnectNotified = FALSE /\ closed = FALSE
  /\ sshHandle = FALSE /\ connected = FALSE
  /\ context = "none" /\ peer = TRUE
  /\ looper = <<>> /\ listener = FALSE
  /\ screen = "none" /\ asked = "no" /\ told = 0 /\ late = {}

Goto(th, to) == pc' = [pc EXCEPT ![th] = to]

(* notifyConnected, notifyDisconnected, notifyError: nothing is posted when *)
(* there is no listener at the moment of the call.                          *)
PostOnlyEnds(event) ==
  looper' = IF listener /\ event = "disconnected" THEN Append(looper, event) ELSE looper
Post(event) == looper' = IF listener THEN Append(looper, event) ELSE looper

-----------------------------------------------------------------------------
(* The screens, on the main thread.                                        *)

(* SshTerminalActivity adds its listener and then connects.                *)
OpenScreen ==
  /\ "screen" \in Openings
  /\ opening = "none" /\ opening' = "screen"
  /\ listener' = TRUE /\ screen' = "waiting"
  /\ Goto("control", "queued")
  /\ UNCHANGED <<mine, fieldVars, linkVars, looper, asked, told, late>>

(* createContainer and reconnectContainer of BackTerminalActivity connect   *)
(* first and add their listener later.                                     *)
OpenAndBind(way) ==
  /\ way \in Openings
  /\ opening = "none" /\ opening' = way
  /\ screen' = "waiting"
  /\ pc' = [pc EXCEPT !["main"] = "bind", !["control"] = "queued"]
  /\ UNCHANGED <<mine, fieldVars, linkVars, looper, listener, asked, told, late>>

CreateContainer == OpenAndBind("container")
ReconnectContainer == OpenAndBind("reconnect")

(* attachExistingSshHandle takes a live handle over, on the main thread.   *)
AttachExistingSshHandle ==
  /\ "attach" \in Openings
  /\ opening = "none" /\ opening' = "attach"
  /\ screen' = "waiting"
  /\ transport' = TRUE /\ sshHandle' = TRUE /\ connected' = TRUE /\ context' = "live"
  /\ isConnected' = TRUE /\ disconnectNotified' = FALSE
  /\ pc' = [pc EXCEPT !["main"] = "bind", !["read"] = "queued"]
  /\ UNCHANGED <<mine, closed, peer, looper, listener, asked, told, late>>

BoundAsWaiting == "waiting"
BoundAs == IF isConnected THEN "connected" ELSE "waiting"

(* A new container reads isConnected after it has added its listener; the  *)
(* container of a reconnection takes it for granted that it is not.        *)
Bind ==
  /\ pc["main"] = "bind"
  /\ listener' = TRUE
  /\ screen' = IF opening = "reconnect" THEN "waiting" ELSE BoundAs
  /\ Goto("main", "idle")
  /\ UNCHANGED <<opening, mine, fieldVars, linkVars, looper, asked, told, late>>

(* A posted callback runs; both screens show an error as a disconnection.  *)
Deliver ==
  /\ pc["main"] = "idle"
  /\ looper # <<>>
  /\ looper' = Tail(looper)
  /\ screen' = IF Head(looper) = "connected" THEN "connected" ELSE "disconnected"
  /\ UNCHANGED <<opening, pc, mine, fieldVars, linkVars, listener, asked, told, late>>

UserDisconnect ==
  /\ pc["main"] = "idle"
  /\ opening # "none" /\ asked = "no"
  /\ asked' = IF pc["control"] \in Connecting THEN "during" ELSE "after"
  /\ Goto("main", "stop")
  /\ UNCHANGED <<opening, mine, fieldVars, linkVars, looper, listener, screen, told, late>>

-----------------------------------------------------------------------------
(* disconnect(), on any thread.                                            *)

Stop(th) ==
  /\ pc[th] = "stop"
  /\ isConnected' = FALSE
  /\ Goto(th, "grab")
  /\ UNCHANGED <<opening, mine, transport, disconnectNotified, closed, linkVars, screenVars>>

Grab(th) ==
  /\ pc[th] = "grab"
  /\ mine' = [mine EXCEPT ![th] = transport]
  /\ Goto(th, "drop")
  /\ UNCHANGED <<opening, fieldVars, linkVars, screenVars>>

Drop(th) ==
  /\ pc[th] = "drop"
  /\ transport' = FALSE
  /\ Goto(th, IF mine[th] THEN "probe" ELSE "shut")
  /\ UNCHANGED <<opening, mine, isConnected, disconnectNotified, closed, linkVars, screenVars>>

(* SshTransport.disconnect: the handle is tested, freed, and then cleared. *)
Probe(th) ==
  /\ pc[th] = "probe"
  /\ Goto(th, IF sshHandle THEN "free" ELSE "forget")
  /\ UNCHANGED <<opening, mine, fieldVars, linkVars, screenVars>>

Free(th) ==
  /\ pc[th] = "free"
  /\ context' = "freed"
  /\ Goto(th, "forget")
  /\ UNCHANGED <<opening, mine, fieldVars, sshHandle, connected, peer, screenVars>>

Forget(th) ==
  /\ pc[th] = "forget"
  /\ sshHandle' = FALSE /\ connected' = FALSE
  /\ Goto(th, "shut")
  /\ UNCHANGED <<opening, mine, fieldVars, context, peer, screenVars>>

(* shutdownNow drops a loop that has not started and interrupts one that   *)
(* has: the next sleep ends it.                                            *)
Shut(th) ==
  /\ pc[th] = "shut"
  /\ closed' = TRUE
  /\ pc' = [t \in Thread |-> IF t = th THEN "notify"
                             ELSE IF pc[t] = "queued" THEN "idle" ELSE pc[t]]
  /\ UNCHANGED <<opening, mine, transport, isConnected, disconnectNotified, linkVars, screenVars>>

TellAgain == TRUE
TellNever == disconnectNotified
TellNow == ~disconnectNotified

(* disconnectNotified.compareAndSet(false, true), which ends disconnect(). *)
(* disconnectContainer then shows its container as disconnected.           *)
Notify(th) ==
  /\ pc[th] = "notify"
  /\ disconnectNotified' = TRUE
  /\ IF TellNow THEN Post("disconnected") /\ told' = told + 1
                ELSE UNCHANGED <<looper, told>>
  /\ Goto(th, "idle")
  /\ screen' = IF th = "main" /\ opening # "screen" THEN "disconnected" ELSE screen
  /\ UNCHANGED <<opening, mine, transport, isConnected, closed, linkVars, listener, asked, late>>

Disconnect(th) == Stop(th) \/ Grab(th) \/ Drop(th) \/ Probe(th) \/ Free(th)
                  \/ Forget(th) \/ Shut(th) \/ Notify(th)

-----------------------------------------------------------------------------
(* connectInternal and SshTransport.connect, on the control thread.        *)

Create ==
  /\ pc["control"] = "queued"
  /\ transport' = TRUE
  /\ Goto("control", "dial")
  /\ UNCHANGED <<opening, mine, isConnected, disconnectNotified, closed, linkVars, screenVars>>

(* The field is read once more to call connect on it.                      *)
Dial ==
  /\ pc["control"] = "dial"
  /\ Goto("control", IF transport THEN "dialing" ELSE "fail")
  /\ UNCHANGED <<opening, mine, fieldVars, linkVars, screenVars>>

Dialed ==
  /\ pc["control"] = "dialing"
  /\ \/ /\ sshHandle' = TRUE /\ context' = "live"
        /\ Goto("control", "auth")
     \/ /\ "dial" \in Faults \/ ~peer
        /\ sshHandle' = FALSE
        /\ Goto("control", "fail")
        /\ UNCHANGED context
  /\ UNCHANGED <<opening, mine, fieldVars, connected, peer, screenVars>>

(* Host key check and authentication; a handle of 0 makes them fail.       *)
Authenticate ==
  /\ pc["control"] = "auth"
  /\ Goto("control", IF sshHandle THEN "authing" ELSE "fail")
  /\ UNCHANGED <<opening, mine, fieldVars, linkVars, screenVars>>

KeptOnFailure == context
FreedOnFailure == IF sshHandle THEN "freed" ELSE context

Authenticated ==
  /\ pc["control"] = "authing"
  /\ \/ /\ Goto("control", "shell")
        /\ UNCHANGED <<sshHandle, context>>
     \/ /\ "auth" \in Faults \/ ~peer \/ context = "freed"
        /\ context' = FreedOnFailure
        /\ sshHandle' = FALSE
        /\ Goto("control", "fail")
  /\ UNCHANGED <<opening, mine, fieldVars, connected, peer, screenVars>>

(* The result of openShell is not looked at.                               *)
OpenShell ==
  /\ pc["control"] = "shell"
  /\ connected' = TRUE
  /\ Goto("control", "mark")
  /\ UNCHANGED <<opening, mine, fieldVars, sshHandle, context, peer, screenVars>>

MarkConnected ==
  /\ pc["control"] = "mark"
  /\ isConnected' = TRUE
  /\ Goto("control", "reset")
  /\ UNCHANGED <<opening, mine, transport, disconnectNotified, closed, linkVars, screenVars>>

(* Nothing looks whether a disconnect() has run meanwhile: the flag is     *)
(* reset, and the connection told, even when its end has been told.        *)
DoneLate(step) == late' = IF told > 0 THEN late \cup {step} ELSE late

ResetNotified ==
  /\ pc["control"] = "reset"
  /\ disconnectNotified' = FALSE
  /\ DoneLate("reset")
  /\ Goto("control", "tell")
  /\ UNCHANGED <<opening, mine, transport, isConnected, closed, linkVars, looper, listener, screen,
                 asked, told>>

NotifyConnected ==
  /\ pc["control"] = "tell"
  /\ Post("connected")
  /\ DoneLate("tell")
  /\ Goto("control", "start")
  /\ UNCHANGED <<opening, mine, fieldVars, linkVars, listener, screen, asked, told>>

(* A shut executor rejects the loop: notifyError and disconnect().         *)
StartReadingAsync ==
  /\ pc["control"] = "start"
  /\ IF closed
     THEN Post("error") /\ Goto("control", "stop")
     ELSE /\ pc' = [pc EXCEPT !["control"] = "idle", !["read"] = "queued"]
          /\ UNCHANGED looper
  /\ UNCHANGED <<opening, mine, fieldVars, linkVars, listener, screen, asked, told, late>>

AfterFailureGoesOn == "mark"
AfterFailure == "stop"

ConnectFailed ==
  /\ pc["control"] = "fail"
  /\ Post("error")
  /\ Goto("control", AfterFailure)
  /\ UNCHANGED <<opening, mine, fieldVars, linkVars, listener, screen, asked, told, late>>

ConnectInternal ==
  Create \/ Dial \/ Dialed \/ Authenticate \/ Authenticated \/ OpenShell \/ MarkConnected
  \/ ResetNotified \/ NotifyConnected \/ StartReadingAsync \/ ConnectFailed

-----------------------------------------------------------------------------
(* startReading, on the read thread.                                       *)

StartReading ==
  /\ pc["read"] = "queued"
  /\ Goto("read", "loop")
  /\ UNCHANGED <<opening, mine, fieldVars, linkVars, screenVars>>

LoopCondition ==
  /\ pc["read"] = "loop"
  /\ Goto("read", IF isConnected THEN "field" ELSE "stop")
  /\ UNCHANGED <<opening, mine, fieldVars, linkVars, screenVars>>

(* A null field throws; the error is told if the flag is still set.        *)
CallRead ==
  /\ pc["read"] = "field"
  /\ IF transport
     THEN /\ Goto("read", IF connected /\ sshHandle THEN "reading" ELSE "sleep")
          /\ UNCHANGED looper
     ELSE /\ IF isConnected THEN Post("error") ELSE UNCHANGED looper
          /\ Goto("read", "stop")
  /\ UNCHANGED <<opening, mine, fieldVars, linkVars, listener, screen, asked, told, late>>

(* Nothing to read, an error and the end of the stream all come back as an *)
(* empty array.                                                            *)
Read ==
  /\ pc["read"] = "reading"
  /\ \/ peer /\ Goto("read", "loop")
     \/ Goto("read", "sleep")
  /\ UNCHANGED <<opening, mine, fieldVars, linkVars, screenVars>>

Sleep ==
  /\ pc["read"] = "sleep"
  /\ Goto("read", IF closed THEN "stop" ELSE "loop")
  /\ UNCHANGED <<opening, mine, fieldVars, linkVars, screenVars>>

ReadLoop == StartReading \/ LoopCondition \/ CallRead \/ Read \/ Sleep

(* The server ends the shell, or the network is gone.                      *)
PeerGone ==
  /\ "gone" \in Faults /\ peer /\ opening # "none"
  /\ peer' = FALSE
  /\ UNCHANGED <<opening, pc, mine, fieldVars, sshHandle, connected, context, screenVars>>

-----------------------------------------------------------------------------
Open == OpenScreen \/ CreateContainer \/ ReconnectContainer \/ AttachExistingSshHandle
MainThread == Bind \/ Deliver \/ Disconnect("main")
ControlThread == ConnectInternal \/ Disconnect("control")
ReadThread == ReadLoop \/ Disconnect("read")

Next == Open \/ UserDisconnect \/ PeerGone \/ MainThread \/ ControlThread \/ ReadThread

(* Every thread that can run does.  Native calls return in the end: a      *)
(* handle that connect() made has a timeout, and one that was attached,    *)
(* which may have none, is assumed to answer.  The user need not do        *)
(* anything.                                                               *)
Fairness == WF_vars(MainThread) /\ WF_vars(ControlThread) /\ WF_vars(ReadThread)

SafetySpec == Init /\ [][Next]_vars
Spec == SafetySpec /\ Fairness

-----------------------------------------------------------------------------
AtRest == /\ opening # "none" /\ pc["main"] = "idle" /\ pc["control"] = "idle"
          /\ pc["read"] \in {"idle", "loop", "field", "reading", "sleep"}
          /\ looper = <<>>

(* disconnect() "closes the Transport and releases the resources": once it *)
(* has run and every thread is done, the session does not call itself      *)
(* connected and its native context has been freed.                        *)
Released ==
  AtRest /\ closed /\ pc["read"] = "idle" => ~isConnected /\ context # "live"

(* So it is unless the user disconnected during the attempt, which does not *)
(* notice and connects all the same: an exception that ScreenAgrees and    *)
(* DisconnectCompletes have too.                                           *)
ReleasedAtRest == asked # "during" => Released

(* When every thread is done with a change, the screen shows the session   *)
(* as connected if and only if it is: no callback is lost between connect  *)
(* and addListener, and none overtakes another.  A container that          *)
(* reconnects adds its listener too late for this.                         *)
ScreenAgrees ==
  asked # "during" /\ opening # "reconnect" /\ AtRest /\ (closed => pc["read"] = "idle")
    => (screen = "connected" <=> isConnected)

(* SshTerminalActivity, told of the end of its session, is never told      *)
(* afterwards that it is connected, unless the end came while the attempt  *)
(* was on its way to tell: the attempt then tells all the same, and        *)
(* onConnected follows onDisconnected.  (A container that shows its own    *)
(* disconnection may still get an onConnected posted before it.)           *)
EndIsFinal ==
  [][opening = "screen" /\ screen = "disconnected" /\ "tell" \notin late
       => screen' = "disconnected"]_screen

(* disconnectNotified: whatever threads run disconnect(), one after another *)
(* or at once, the listeners are told of the end once; twice only when the *)
(* attempt has reset the flag after the first time.                        *)
ToldOnce == told <= IF "reset" \in late THEN 2 ELSE 1

(* A session the user disconnects after the attempt is shown as            *)
(* disconnected in the end, and its read loop ends.                        *)
DisconnectCompletes == asked = "after" ~> (screen = "disconnected" /\ pc["read"] = "idle")

(* A screen that listens before it connects learns how its attempt ended.  *)
AttemptIsReported == (opening = "screen") ~> (screen \in {"connected", "disconnected"})

(* onDisconnected, "the connection is down": a screen that shows a session *)
(* as connected learns that the server has gone.                           *)
PeerLossReported == (screen = "connected" /\ ~peer) ~> (screen = "disconnected")
=============================================================================
