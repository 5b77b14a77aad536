------------------------- MODULE TerminalSessionProofs -------------------------
(***************************************************************************)
(* However the threads that run disconnect() interleave, a session tells   *)
(* its end once and finally, but for the attempt that tells its connection *)
(* too late.  One that is not disconnected during its attempt also         *)
(* releases what it holds, and its screen shows what it is.                *)
(***************************************************************************)
EXTENDS TerminalSession, SequenceTheorems, TLAPS

(* The counter of notifications is the flag that guards them, and one more *)
(* once the attempt has reset a flag that was up, which it does once.      *)
ToldIsFlag ==
  /\ told = (IF disconnectNotified THEN 1 ELSE 0) + (IF "reset" \in late THEN 1 ELSE 0)
  /\ pc["control"] \in Connecting \ {"tell", "start"} => "reset" \notin late

(* Before the session is opened nothing runs.                              *)
Unopened == opening = "none" =>
  /\ pc["main"] = "idle" /\ pc["control"] = "idle" /\ pc["read"] = "idle"
  /\ ~disconnectNotified /\ ~closed /\ ~transport /\ context = "none"
  /\ looper = <<>> /\ "reset" \notin late

(* There is no read loop before the attempt has started it.                *)
LoopLast == pc["control"] \in Connecting => pc["read"] = "idle"

(* While the attempt runs nobody else touches the session.                 *)
Alone == pc["control"] \in Connecting =>
  /\ pc["main"] \in {"idle", "bind"} /\ pc["read"] = "idle"
  /\ ~disconnectNotified /\ ~closed
  /\ pc["control"] # "queued" => transport
  /\ pc["control"] \in {"queued", "create", "dial", "dialing"} => context = "none"

(* disconnect() has put away what it has passed.                           *)
Stopped ==
  /\ \A th \in Thread :
       /\ pc[th] \in Disconnecting \ {"stop"} => ~isConnected
       /\ pc[th] \in Disconnecting \ {"stop", "grab", "drop"} => ~transport
       /\ pc[th] = "drop" /\ ~mine[th] => ~transport
  /\ closed => ~isConnected /\ ~transport

(* A live context has an owner: the field transport, or a thread that has  *)
(* taken it and is about to free it.                                       *)
Taker(th) == mine[th] /\ pc[th] \in {"drop", "probe", "free"}
Owned ==
  /\ context = "live" => sshHandle /\ (transport \/ \E th \in Thread : Taker(th))
  /\ \A th \in Thread : pc[th] = "forget" => context # "live"
  /\ \A th \in Thread : pc[th] \in {"probe", "free"} => mine[th]

(* SshTerminalActivity gets onConnected before any other event, and waits  *)
(* for it, as long as no end has been told before.                         *)
Ordered == opening = "screen" =>
  /\ pc["main"] # "bind"
  /\ told = 0 /\ pc["control"] \in Connecting \ {"start"} => looper = <<>> /\ screen = "waiting"
  /\ "tell" \notin late =>
       \A i \in 1 .. Len(looper) :
         looper[i] = "connected" => i = 1 /\ screen # "disconnected"

(* What holds whenever the user disconnects, and what holds unless he does *)
(* during the attempt.                                                     *)
Base == TypeOK /\ ToldIsFlag /\ Unopened /\ LoopLast /\ Ordered
Inv == Base /\ Alone /\ Stopped /\ Owned

-----------------------------------------------------------------------------
(* Initially. *)
LEMMA InitInv == Init => Inv
<1> SUFFICES ASSUME Init PROVE Inv
  OBVIOUS
<1> USE DEF Init, Thread, Disconnecting, Connecting
<1>1. TypeOK
  <2>1. /\ transport \in BOOLEAN /\ isConnected \in BOOLEAN /\ disconnectNotified \in BOOLEAN
        /\ closed \in BOOLEAN /\ sshHandle \in BOOLEAN /\ connected \in BOOLEAN
        /\ peer \in BOOLEAN /\ listener \in BOOLEAN /\ asked \in {"no", "during", "after"}
    OBVIOUS
  <2>2. looper \in Seq(Event)
    BY DEF Event
  <2>3. mine \in [Thread -> BOOLEAN]
    OBVIOUS
  <2> QED
    BY <2>1, <2>2, <2>3 DEF TypeOK
<1>2. ToldIsFlag /\ Unopened /\ LoopLast /\ Alone
  BY DEF ToldIsFlag, Unopened, LoopLast, Alone
<1>3. Stopped /\ Owned
  BY DEF Stopped, Owned, Taker
<1>4. Ordered
  BY DEF Ordered
<1> QED
  BY <1>1, <1>2, <1>3, <1>4 DEF Inv, Base

(* A step leaves the type of the state alone. *)
LEMMA NextType == ASSUME TypeOK, [Next]_vars PROVE TypeOK'
<1> USE ConstantsAssumption DEF TypeOK, Thread, Disconnecting, Connecting, Reading, Event,
      Goto, Post, fieldVars, linkVars, screenVars
<1>1. CASE OpenScreen
  BY <1>1 DEF OpenScreen
<1>2. CASE CreateContainer
  BY <1>2 DEF CreateContainer, OpenAndBind
<1>3. CASE ReconnectContainer
  BY <1>3 DEF ReconnectContainer, OpenAndBind
<1>4. CASE AttachExistingSshHandle
  BY <1>4 DEF AttachExistingSshHandle
<1>5. CASE UserDisconnect
  BY <1>5 DEF UserDisconnect
<1>6. CASE PeerGone
  BY <1>6, ZenonT(60) DEF PeerGone
<1>7. CASE Bind
  BY <1>7 DEF Bind, BoundAs
<1>8. CASE Deliver
  BY <1>8 DEF Deliver
<1>9. ASSUME NEW th \in Thread, Stop(th) PROVE TypeOK'
  <2>1. isConnected' \in BOOLEAN
    BY <1>9 DEF Stop
  <2> QED
    BY <1>9, <2>1 DEF Stop
<1>10. ASSUME NEW th \in Thread, Grab(th) PROVE TypeOK'
  BY <1>10 DEF Grab
<1>11. ASSUME NEW th \in Thread, Drop(th) PROVE TypeOK'
  <2>1. transport' \in BOOLEAN
    BY <1>11 DEF Drop
  <2> QED
    BY <1>11, <2>1 DEF Drop
<1>12. ASSUME NEW th \in Thread, Probe(th) PROVE TypeOK'
  BY <1>12 DEF Probe
<1>13. ASSUME NEW th \in Thread, Free(th) PROVE TypeOK'
  BY <1>13 DEF Free
<1>14. ASSUME NEW th \in Thread, Forget(th) PROVE TypeOK'
  BY <1>14, ZenonT(60) DEF Forget
<1>15. ASSUME NEW th \in Thread, Shut(th) PROVE TypeOK'
  BY <1>15 DEF Shut
<1>16. ASSUME NEW th \in Thread, Notify(th) PROVE TypeOK'
  BY <1>16, SMTT(40) DEF Notify, TellNow
<1>17. CASE Create
  BY <1>17 DEF Create
<1>18. CASE Dial
  BY <1>18 DEF Dial
<1>19. CASE Dialed
  <2>1. sshHandle' \in BOOLEAN
    BY <1>19 DEF Dialed
  <2> QED
    BY <1>19, <2>1 DEF Dialed
<1>20. CASE Authenticate
  BY <1>20 DEF Authenticate
<1>21. CASE Authenticated
  <2>1. sshHandle' \in BOOLEAN
    BY <1>21 DEF Authenticated, FreedOnFailure
  <2> QED
    BY <1>21, <2>1 DEF Authenticated, FreedOnFailure
<1>22. CASE OpenShell
  BY <1>22 DEF OpenShell
<1>23. CASE MarkConnected
  BY <1>23 DEF MarkConnected
<1>24. CASE ResetNotified
  <2>1. disconnectNotified' \in BOOLEAN
    BY <1>24 DEF ResetNotified
  <2> QED
    BY <1>24, <2>1 DEF ResetNotified, DoneLate
<1>25. CASE NotifyConnected
  BY <1>25 DEF NotifyConnected, DoneLate
<1>26. CASE StartReadingAsync
  BY <1>26 DEF StartReadingAsync
<1>27. CASE ConnectFailed
  BY <1>27 DEF ConnectFailed, AfterFailure
<1>28. CASE StartReading
  BY <1>28 DEF StartReading
<1>29. CASE LoopCondition
  BY <1>29 DEF LoopCondition
<1>30. CASE CallRead
  <2>1. looper' \in Seq(Event)
    BY <1>30 DEF CallRead
  <2> QED
    BY <1>30, <2>1 DEF CallRead
<1>31. CASE Read
  BY <1>31 DEF Read
<1>32. CASE Sleep
  BY <1>32 DEF Sleep
<1>33. CASE UNCHANGED vars
  BY <1>33 DEF vars
<1> QED
  BY <1>1, <1>2, <1>3, <1>4, <1>5, <1>6, <1>7, <1>8, <1>9, <1>10, <1>11, <1>12, <1>13, <1>14, <1>15, <1>16, <1>17, <1>18, <1>19, <1>20, <1>21, <1>22, <1>23, <1>24, <1>25, <1>26, <1>27, <1>28, <1>29, <1>30, <1>31, <1>32, <1>33
  DEF Next, Open, MainThread, ControlThread, ReadThread, Disconnect, ConnectInternal, ReadLoop

(* A step keeps the flag, its count and the order of the threads.          *)
LEMMA NextBase ==
  ASSUME Base, Next
  PROVE  (ToldIsFlag /\ Unopened /\ LoopLast)'
<1> USE DEF Base, TypeOK, ToldIsFlag, Unopened, LoopLast, Thread, Disconnecting, Connecting,
      Goto, fieldVars, linkVars, screenVars
<1>1. CASE OpenScreen
  BY <1>1 DEF OpenScreen
<1>2. CASE CreateContainer
  BY <1>2 DEF CreateContainer, OpenAndBind
<1>3. CASE ReconnectContainer
  BY <1>3 DEF ReconnectContainer, OpenAndBind
<1>4. CASE AttachExistingSshHandle
  BY <1>4 DEF AttachExistingSshHandle
<1>5. CASE UserDisconnect
  BY <1>5 DEF UserDisconnect
<1>6. CASE PeerGone
  BY <1>6 DEF PeerGone
<1>7. CASE Bind
  BY <1>7 DEF Bind
<1>8. CASE Deliver
  BY <1>8 DEF Deliver
<1>9. CASE Create
  BY <1>9 DEF Create
<1>10. CASE Dial
  BY <1>10 DEF Dial
<1>11. CASE Dialed
  BY <1>11 DEF Dialed
<1>12. CASE Authenticate
  BY <1>12 DEF Authenticate
<1>13. CASE Authenticated
  BY <1>13 DEF Authenticated, FreedOnFailure
<1>14. CASE OpenShell
  BY <1>14 DEF OpenShell
<1>15. CASE MarkConnected
  BY <1>15 DEF MarkConnected
<1>16. CASE ResetNotified
  BY <1>16 DEF ResetNotified, DoneLate
<1>17. CASE NotifyConnected
  BY <1>17 DEF NotifyConnected, DoneLate
<1>18. CASE StartReadingAsync
  BY <1>18 DEF StartReadingAsync
<1>19. CASE ConnectFailed
  BY <1>19 DEF ConnectFailed, AfterFailure
<1>20. CASE StartReading
  BY <1>20 DEF StartReading
<1>21. CASE LoopCondition
  BY <1>21 DEF LoopCondition
<1>22. CASE CallRead
  BY <1>22 DEF CallRead
<1>23. CASE Read
  BY <1>23 DEF Read
<1>24. CASE Sleep
  BY <1>24 DEF Sleep
<1>25. ASSUME NEW th \in Thread, Stop(th)
      PROVE  (ToldIsFlag /\ Unopened /\ LoopLast)'
  BY <1>25 DEF Stop
<1>26. ASSUME NEW th \in Thread, Grab(th)
      PROVE  (ToldIsFlag /\ Unopened /\ LoopLast)'
  BY <1>26 DEF Grab
<1>27. ASSUME NEW th \in Thread, Drop(th)
      PROVE  (ToldIsFlag /\ Unopened /\ LoopLast)'
  BY <1>27 DEF Drop
<1>28. ASSUME NEW th \in Thread, Probe(th)
      PROVE  (ToldIsFlag /\ Unopened /\ LoopLast)'
  BY <1>28 DEF Probe
<1>29. ASSUME NEW th \in Thread, Free(th)
      PROVE  (ToldIsFlag /\ Unopened /\ LoopLast)'
  BY <1>29 DEF Free
<1>30. ASSUME NEW th \in Thread, Forget(th)
      PROVE  (ToldIsFlag /\ Unopened /\ LoopLast)'
  BY <1>30 DEF Forget
<1>31. ASSUME NEW th \in Thread, Shut(th)
      PROVE  (ToldIsFlag /\ Unopened /\ LoopLast)'
  BY <1>31 DEF Shut
<1>32. ASSUME NEW th \in Thread, Notify(th)
      PROVE  (ToldIsFlag /\ Unopened /\ LoopLast)'
  BY <1>32 DEF Notify, TellNow
<1> QED
  BY <1>1, <1>2, <1>3, <1>4, <1>5, <1>6, <1>7, <1>8, <1>9, <1>10, <1>11, <1>12, <1>13, <1>14, <1>15, <1>16, <1>17, <1>18, <1>19, <1>20, <1>21, <1>22, <1>23, <1>24, <1>25, <1>26, <1>27, <1>28, <1>29, <1>30, <1>31, <1>32
  DEF Next, Open, MainThread, ControlThread, ReadThread, Disconnect, ConnectInternal, ReadLoop

(* An event that is not a connection leaves the connections where they are.*)
LEMMA Appended ==
  ASSUME looper \in Seq(Event), NEW e \in Event, e # "connected",
         looper' = looper \/ looper' = Append(looper, e),
         NEW i \in 1 .. Len(looper'), looper'[i] = "connected"
  PROVE  i \in 1 .. Len(looper) /\ looper[i] = "connected"
<1>1. CASE looper' = looper
  BY <1>1
<1>2. CASE looper' = Append(looper, e)
  <2>1. Len(looper') = Len(looper) + 1 /\ looper'[Len(looper) + 1] = e /\ Len(looper) \in Nat
        /\ \A k \in 1 .. Len(looper) : looper'[k] = looper[k]
    BY <1>2
  <2> QED
    BY <2>1
<1> QED
  BY <1>1, <1>2

(* A step keeps the events in order. *)
LEMMA NextOrdered ==
  ASSUME Base, Next
  PROVE  Ordered'
<1> USE DEF Base, TypeOK, Unopened, ToldIsFlag, LoopLast, Ordered, Thread, Disconnecting, Connecting, Event,
      Goto, Post, fieldVars, linkVars, screenVars
<1>1. CASE OpenScreen
  BY <1>1 DEF OpenScreen
<1>2. CASE CreateContainer
  BY <1>2 DEF CreateContainer, OpenAndBind
<1>3. CASE ReconnectContainer
  BY <1>3 DEF ReconnectContainer, OpenAndBind
<1>4. CASE AttachExistingSshHandle
  BY <1>4 DEF AttachExistingSshHandle
<1>5. CASE UserDisconnect
  BY <1>5 DEF UserDisconnect
<1>6. CASE PeerGone
  BY <1>6 DEF PeerGone
<1>7. CASE Bind
  BY <1>7 DEF Bind
<1>8. CASE Deliver
  BY <1>8 DEF Deliver
<1>9. CASE Create
  BY <1>9 DEF Create
<1>10. CASE Dial
  BY <1>10 DEF Dial
<1>11. CASE Dialed
  BY <1>11 DEF Dialed
<1>12. CASE Authenticate
  BY <1>12 DEF Authenticate
<1>13. CASE Authenticated
  BY <1>13 DEF Authenticated, FreedOnFailure
<1>14. CASE OpenShell
  BY <1>14 DEF OpenShell
<1>15. CASE MarkConnected
  BY <1>15 DEF MarkConnected
<1>16. CASE ResetNotified
  BY <1>16 DEF ResetNotified, DoneLate
<1>17. CASE NotifyConnected
  BY <1>17 DEF NotifyConnected, DoneLate
<1>18. CASE StartReadingAsync
  <2> SUFFICES ASSUME opening' = "screen" PROVE Ordered'
    OBVIOUS
  <2>1. /\ opening = "screen" /\ screen' = screen /\ late' = late
        /\ pc'["main"] = pc["main"] /\ pc'["control"] \notin Connecting
        /\ looper' = looper \/ looper' = Append(looper, "error")
    BY <1>18 DEF StartReadingAsync
  <2>2. ASSUME "tell" \notin late', NEW i \in 1 .. Len(looper'), looper'[i] = "connected"
        PROVE  i = 1 /\ screen' # "disconnected"
    <3>1. i \in 1 .. Len(looper) /\ looper[i] = "connected"
      BY <2>1, <2>2, Appended
    <3> QED
      BY <2>1, <2>2, <3>1
  <2> QED
    BY <2>1, <2>2
<1>19. CASE ConnectFailed
  BY <1>19 DEF ConnectFailed, AfterFailure
<1>20. CASE StartReading
  BY <1>20 DEF StartReading
<1>21. CASE LoopCondition
  BY <1>21 DEF LoopCondition
<1>22. CASE CallRead
  BY <1>22, SMTT(40) DEF CallRead
<1>23. CASE Read
  BY <1>23 DEF Read
<1>24. CASE Sleep
  BY <1>24 DEF Sleep
<1>25. ASSUME NEW th \in Thread, Stop(th) PROVE Ordered'
  BY <1>25 DEF Stop
<1>26. ASSUME NEW th \in Thread, Grab(th) PROVE Ordered'
  BY <1>26 DEF Grab
<1>27. ASSUME NEW th \in Thread, Drop(th) PROVE Ordered'
  BY <1>27 DEF Drop
<1>28. ASSUME NEW th \in Thread, Probe(th) PROVE Ordered'
  BY <1>28 DEF Probe
<1>29. ASSUME NEW th \in Thread, Free(th) PROVE Ordered'
  BY <1>29 DEF Free
<1>30. ASSUME NEW th \in Thread, Forget(th) PROVE Ordered'
  BY <1>30 DEF Forget
<1>31. ASSUME NEW th \in Thread, Shut(th) PROVE Ordered'
  BY <1>31 DEF Shut
<1>32. ASSUME NEW th \in Thread, Notify(th) PROVE Ordered'
  <2> SUFFICES ASSUME opening' = "screen" PROVE Ordered'
    OBVIOUS
  <2>1. /\ opening = "screen" /\ screen' = screen /\ late' = late
        /\ pc' = [pc EXCEPT ![th] = "idle"] /\ pc[th] = "notify"
        /\ \/ disconnectNotified /\ looper' = looper /\ told' = told
           \/ looper' \in {looper, Append(looper, "disconnected")} /\ told' = told + 1
    BY <1>32 DEF Notify, TellNow
  <2>2. pc'["main"] # "bind"
    BY <2>1
  <2>3. ASSUME told' = 0, pc'["control"] \in Connecting \ {"start"}
        PROVE  looper' = <<>> /\ screen' = "waiting"
    <3>1. told \in Nat /\ pc["control"] \in Connecting \ {"start"}
      BY <2>1, <2>3
    <3>2. told' # told + 1
      BY <3>1, <2>3
    <3> QED
      BY <2>1, <2>3, <3>1, <3>2
  <2>4. ASSUME "tell" \notin late', NEW i \in 1 .. Len(looper'), looper'[i] = "connected"
        PROVE  i = 1 /\ screen' # "disconnected"
    <3>1. looper' = looper \/ looper' = Append(looper, "disconnected")
      BY <2>1
    <3>2. i \in 1 .. Len(looper) /\ looper[i] = "connected"
      BY <2>4, <3>1, Appended
    <3> QED
      BY <2>1, <2>4, <3>2
  <2> QED
    BY <2>2, <2>3, <2>4
<1> QED
  BY <1>1, <1>2, <1>3, <1>4, <1>5, <1>6, <1>7, <1>8, <1>9, <1>10, <1>11, <1>12, <1>13, <1>14, <1>15, <1>16, <1>17, <1>18, <1>19, <1>20, <1>21, <1>22, <1>23, <1>24, <1>25, <1>26, <1>27, <1>28, <1>29, <1>30, <1>31, <1>32
  DEF Next, Open, MainThread, ControlThread, ReadThread, Disconnect, ConnectInternal, ReadLoop

LEMMA InductiveBase == ASSUME Base, [Next]_vars PROVE Base'
<1>1. TypeOK'
  BY NextType DEF Base
<1>2. CASE Next
  BY <1>1, <1>2, NextBase, NextOrdered DEF Base
<1>3. CASE UNCHANGED vars
  BY <1>1, <1>3
  DEF Base, ToldIsFlag, Unopened, LoopLast, Ordered, vars, fieldVars, linkVars, screenVars
<1> QED
  BY <1>2, <1>3

(* A step keeps the rest of the invariant, when no disconnection comes      *)
(* during the attempt.                                                     *)
LEMMA NextRest ==
  ASSUME asked' # "during", Inv, Next
  PROVE  (Alone /\ Stopped /\ Owned)'
<1> USE DEF Inv, Base, TypeOK, Unopened, Alone, Stopped, Owned, Taker, Thread,
      Disconnecting, Connecting, Goto, fieldVars, linkVars, screenVars
<1>1. CASE OpenScreen
  BY <1>1 DEF OpenScreen
<1>2. CASE CreateContainer
  BY <1>2 DEF CreateContainer, OpenAndBind
<1>3. CASE ReconnectContainer
  BY <1>3 DEF ReconnectContainer, OpenAndBind
<1>4. CASE AttachExistingSshHandle
  BY <1>4 DEF AttachExistingSshHandle
<1>5. CASE UserDisconnect
  BY <1>5 DEF UserDisconnect
<1>6. CASE PeerGone
  BY <1>6 DEF PeerGone
<1>7. CASE Bind
  BY <1>7 DEF Bind
<1>8. CASE Deliver
  BY <1>8 DEF Deliver
<1>9. CASE Create
  BY <1>9 DEF Create
<1>10. CASE Dial
  BY <1>10 DEF Dial
<1>11. CASE Dialed
  BY <1>11 DEF Dialed
<1>12. CASE Authenticate
  BY <1>12 DEF Authenticate
<1>13. CASE Authenticated
  BY <1>13 DEF Authenticated, FreedOnFailure
<1>14. CASE OpenShell
  BY <1>14 DEF OpenShell
<1>15. CASE MarkConnected
  BY <1>15 DEF MarkConnected
<1>16. CASE ResetNotified
  BY <1>16 DEF ResetNotified
<1>17. CASE NotifyConnected
  BY <1>17 DEF NotifyConnected
<1>18. CASE StartReadingAsync
  BY <1>18 DEF StartReadingAsync
<1>19. CASE ConnectFailed
  BY <1>19 DEF ConnectFailed, AfterFailure
<1>20. CASE StartReading
  BY <1>20 DEF StartReading
<1>21. CASE LoopCondition
  BY <1>21 DEF LoopCondition
<1>22. CASE CallRead
  BY <1>22 DEF CallRead
<1>23. CASE Read
  BY <1>23 DEF Read
<1>24. CASE Sleep
  BY <1>24 DEF Sleep
<1>25. ASSUME NEW th \in Thread, Stop(th)
      PROVE  (Alone /\ Stopped /\ Owned)'
  BY <1>25 DEF Stop
<1>26. ASSUME NEW th \in Thread, Grab(th)
      PROVE  (Alone /\ Stopped /\ Owned)'
  BY <1>26 DEF Grab
<1>27. ASSUME NEW th \in Thread, Drop(th)
      PROVE  (Alone /\ Stopped /\ Owned)'
  BY <1>27 DEF Drop
<1>28. ASSUME NEW th \in Thread, Probe(th)
      PROVE  (Alone /\ Stopped /\ Owned)'
  BY <1>28 DEF Probe
<1>29. ASSUME NEW th \in Thread, Free(th)
      PROVE  (Alone /\ Stopped /\ Owned)'
  BY <1>29 DEF Free
<1>30. ASSUME NEW th \in Thread, Forget(th)
      PROVE  (Alone /\ Stopped /\ Owned)'
  BY <1>30 DEF Forget
<1>31. ASSUME NEW th \in Thread, Shut(th)
      PROVE  (Alone /\ Stopped /\ Owned)'
  BY <1>31 DEF Shut
<1>32. ASSUME NEW th \in Thread, Notify(th)
      PROVE  (Alone /\ Stopped /\ Owned)'
  BY <1>32 DEF Notify, TellNow
<1> QED
  BY <1>1, <1>2, <1>3, <1>4, <1>5, <1>6, <1>7, <1>8, <1>9, <1>10, <1>11, <1>12, <1>13, <1>14, <1>15, <1>16, <1>17, <1>18, <1>19, <1>20, <1>21, <1>22, <1>23, <1>24, <1>25, <1>26, <1>27, <1>28, <1>29, <1>30, <1>31, <1>32
  DEF Next, Open, MainThread, ControlThread, ReadThread, Disconnect, ConnectInternal, ReadLoop

(* A disconnection during the attempt is not forgotten.                    *)
LEMMA EarlyStays ==
  ASSUME [Next]_vars, asked = "during"
  PROVE  asked' = "during"
<1> USE DEF fieldVars, linkVars, screenVars
<1>1. CASE UNCHANGED vars
  BY <1>1 DEF vars
<1>2. CASE Open \/ UserDisconnect \/ PeerGone \/ Bind \/ Deliver
  BY <1>2 DEF Open, OpenScreen, CreateContainer, ReconnectContainer, OpenAndBind,
              AttachExistingSshHandle, UserDisconnect, PeerGone, Bind, Deliver
<1>3. CASE ConnectInternal
  BY <1>3 DEF ConnectInternal, Create, Dial, Dialed, Authenticate, Authenticated, OpenShell,
              MarkConnected, ResetNotified, NotifyConnected, StartReadingAsync, ConnectFailed
<1>4. CASE ReadLoop
  BY <1>4 DEF ReadLoop, StartReading, LoopCondition, CallRead, Read, Sleep
<1>5. ASSUME NEW th \in Thread, Disconnect(th) PROVE asked' = "during"
  BY <1>5 DEF Disconnect, Stop, Grab, Drop, Probe, Free, Forget, Shut, Notify
<1> QED
  BY <1>1, <1>2, <1>3, <1>4, <1>5 DEF Next, MainThread, ControlThread, ReadThread, Thread

LEMMA InductiveInv ==
  ASSUME asked' # "during", Inv, [Next]_vars
  PROVE  Inv'
<1>1. Base'
  BY InductiveBase DEF Inv
<1>2. CASE Next
  BY <1>1, <1>2, NextRest DEF Inv
<1>3. CASE UNCHANGED vars
  BY <1>1, <1>3
  DEF Inv, Alone, Stopped, Owned, Taker, vars, fieldVars, linkVars, screenVars
<1> QED
  BY <1>2, <1>3

-----------------------------------------------------------------------------
THEOREM AlwaysBase == Spec => []Base
<1>1. Init => Base
  BY InitInv DEF Inv
<1>2. Base /\ [Next]_vars => Base'
  BY InductiveBase
<1> QED
  BY <1>1, <1>2, PTL DEF Spec, SafetySpec

(* TerminalSession.disconnect: whatever the openings, the faults and the   *)
(* interleaving, the listeners are told of the end at most once, and twice *)
(* only when connectInternal has reset disconnectNotified in between.      *)
THEOREM ToldOnceHolds == Spec => []ToldOnce
<1>1. Base => ToldOnce
  <2> SUFFICES ASSUME Base PROVE ToldOnce
    OBVIOUS
  <2>1. told = (IF disconnectNotified THEN 1 ELSE 0) + (IF "reset" \in late THEN 1 ELSE 0)
    BY DEF Base, ToldIsFlag
  <2> QED
    BY <2>1 DEF ToldOnce
<1> QED
  BY <1>1, AlwaysBase, PTL

(* TerminalSession.disconnect and SshTransport.disconnect: once it has run *)
(* and the threads are done, the native context has been freed and the     *)
(* session does not call itself connected.  A disconnection during the     *)
(* attempt is excepted: SessionEarly.cfg shows what it leaves behind.      *)
THEOREM ReleasedAtRestHolds == Spec => []ReleasedAtRest
<1> DEFINE J == asked # "during" => Inv
<1>1. Init => J
  BY InitInv
<1>2. J /\ [Next]_vars => J'
  BY InductiveInv, EarlyStays
<1>3. J => ReleasedAtRest
  BY DEF Inv, Base, TypeOK, Stopped, Owned, Taker, ReleasedAtRest, Released, AtRest, Thread,
         Disconnecting
<1> HIDE DEF J
<1> QED
  BY <1>1, <1>2, <1>3, PTL DEF Spec, SafetySpec

(* The listener of SshTerminalActivity: no step shows a session that has   *)
(* been shown as disconnected as connected again, unless connectInternal   *)
(* has told the connection after the end.                                  *)
THEOREM EndIsFinalHolds == Spec => EndIsFinal
<1>1. ASSUME Base, [Next]_vars, opening = "screen", screen = "disconnected", "tell" \notin late
      PROVE  screen' = "disconnected"
  <2>1. CASE Deliver
    BY <1>1, <2>1 DEF Base, TypeOK, Ordered, Deliver
  <2>2. CASE ~Deliver
    BY <1>1, <2>2
    DEF Base, Unopened, Ordered, Next, Open, OpenScreen, CreateContainer, ReconnectContainer,
        OpenAndBind, AttachExistingSshHandle, UserDisconnect, PeerGone, MainThread, ControlThread,
        ReadThread, Bind, Disconnect, Stop, Grab, Drop, Probe, Free, Forget, Shut, Notify,
        ConnectInternal, Create, Dial, Dialed, Authenticate, Authenticated, OpenShell,
        MarkConnected, ResetNotified, NotifyConnected, StartReadingAsync, ConnectFailed,
        ReadLoop, StartReading, LoopCondition, CallRead, Read, Sleep, vars, screenVars
  <2> QED
    BY <2>1, <2>2
<1>2. Base /\ [Next]_vars =>
        [opening = "screen" /\ screen = "disconnected" /\ "tell" \notin late
           => screen' = "disconnected"]_screen
  BY <1>1
<1> QED
  BY AlwaysBase, <1>2, PTL DEF Spec, SafetySpec, EndIsFinal
-----------------------------------------------------------------------------
(* What the screen will show when every callback posted so far has run.    *)
Upcoming == IF looper = <<>> THEN screen ELSE looper[Len(looper)]

(* The flag is up only between MarkConnected and the first Stop.            *)
Marked ==
  /\ pc["control"] \in {"reset", "tell", "start"} => isConnected
  /\ pc["control"] \in Connecting \ {"reset", "tell", "start"} => ~isConnected
  /\ isConnected => transport /\ ~disconnectNotified
  /\ opening = "none" => ~listener

(* The screen follows the flag: it is behind only while the attempt is      *)
(* about to tell, or while a thread that runs disconnect() will.            *)
Telling == \E th \in Thread : pc[th] \in Disconnecting \ {"stop"}
Follows == opening \in Openings \ {"reconnect"} =>
  IF pc["main"] = "bind"
  THEN ~listener /\ looper = <<>> /\ screen = "waiting"
  ELSE /\ listener
       /\ isConnected => Upcoming = "connected" \/ pc["control"] \in {"reset", "tell"}
       /\ Upcoming = "connected" /\ ~isConnected => ~disconnectNotified /\ Telling

(* The flag, step by step.                                                 *)
LEMMA MarkedNext ==
  ASSUME asked' # "during", Inv, Marked, [Next]_vars
  PROVE  Marked'
<1> USE DEF Inv, Base, TypeOK, Unopened, Alone, Stopped, Marked, Thread, Disconnecting, Connecting,
            Goto, fieldVars, linkVars, screenVars
<1>1. CASE Open
  BY <1>1 DEF Open, OpenScreen, CreateContainer, ReconnectContainer, OpenAndBind,
              AttachExistingSshHandle
<1>2. CASE UserDisconnect \/ PeerGone \/ Bind \/ Deliver
  BY <1>2 DEF UserDisconnect, PeerGone, Bind, Deliver
<1>3. CASE Create \/ Dial \/ Dialed \/ Authenticate \/ Authenticated \/ OpenShell
  BY <1>3 DEF Create, Dial, Dialed, Authenticate, Authenticated, OpenShell
<1>4. CASE MarkConnected \/ ResetNotified \/ NotifyConnected
  BY <1>4 DEF MarkConnected, ResetNotified, NotifyConnected
<1>5. CASE StartReadingAsync \/ ConnectFailed
  BY <1>5 DEF StartReadingAsync, ConnectFailed, AfterFailure
<1>6. CASE ReadLoop
  BY <1>6 DEF ReadLoop, StartReading, LoopCondition, CallRead, Read, Sleep
<1>7. ASSUME NEW th \in Thread, Stop(th) \/ Grab(th) \/ Drop(th) \/ Probe(th) PROVE Marked'
  BY <1>7 DEF Stop, Grab, Drop, Probe
<1>8. ASSUME NEW th \in Thread, Free(th) \/ Forget(th) \/ Shut(th) \/ Notify(th) PROVE Marked'
  BY <1>8 DEF Free, Forget, Shut, Notify
<1>9. CASE UNCHANGED vars
  BY <1>9 DEF vars
<1> QED
  BY <1>1, <1>2, <1>3, <1>4, <1>5, <1>6, <1>7, <1>8, <1>9
  DEF Next, MainThread, ControlThread, ReadThread, ConnectInternal, Disconnect

(* A callback posted is the last one, and one delivered takes its place.    *)
LEMMA UpcomingPosted ==
  ASSUME looper \in Seq(Event)
  PROVE  /\ \A e \in Event : looper' = Append(looper, e) => Upcoming' = e
         /\ looper # <<>> /\ looper' = Tail(looper)
              /\ screen' = (IF Head(looper) = "connected" THEN "connected" ELSE "disconnected")
            => (Upcoming' = "connected" <=> Upcoming = "connected")
         /\ looper' = looper /\ screen' = screen => Upcoming' = Upcoming
<1>1. ASSUME NEW e \in Event, looper' = Append(looper, e) PROVE Upcoming' = e
  BY <1>1 DEF Upcoming
<1>2. ASSUME looper # <<>>, looper' = Tail(looper),
             screen' = (IF Head(looper) = "connected" THEN "connected" ELSE "disconnected")
      PROVE  Upcoming' = "connected" <=> Upcoming = "connected"
  <2>1. Len(looper) \in Nat /\ Len(looper) > 0
    BY <1>2
  <2>2. CASE Len(looper) = 1
    <3>1. Tail(looper) = <<>> /\ Head(looper) = looper[1]
      BY <1>2, <2>2
    <3>2. Upcoming = looper[1] /\ Upcoming' = screen'
      BY <1>2, <2>2, <3>1 DEF Upcoming
    <3>3. QED BY <1>2, <3>1, <3>2
  <2>3. CASE Len(looper) > 1
    <3> DEFINE tail == Tail(looper)
    <3>1. /\ tail \in Seq(Event) /\ Len(tail) = Len(looper) - 1
          /\ \A i \in 1 .. Len(tail) : tail[i] = looper[i + 1]
      BY <1>2, HeadTailProperties
    <3>2. looper' = tail
      BY <1>2
    <3> HIDE DEF tail
    <3>3. Len(tail) \in 1 .. Len(tail) /\ Len(tail) + 1 = Len(looper)
      BY <2>1, <2>3, <3>1
    <3>4. tail[Len(tail)] = looper[Len(looper)]
      BY <3>1, <3>3
    <3>5. tail # <<>>
      BY <3>3
    <3>6. Upcoming = looper[Len(looper)]
      BY <1>2 DEF Upcoming
    <3>7. Upcoming' = tail[Len(tail)]
      BY <3>2, <3>5, Zenon DEF Upcoming
    <3>8. QED BY <3>4, <3>6, <3>7, Zenon
  <2>4. \A n \in Nat : n > 0 => n = 1 \/ n > 1
    OBVIOUS
  <2>5. QED BY <2>1, <2>2, <2>3, <2>4, Zenon
<1>3. looper' = looper /\ screen' = screen => Upcoming' = Upcoming
  BY DEF Upcoming
<1> QED
  BY <1>1, <1>2, <1>3

(* A step that posts nothing, shows nothing and leaves the flags alone.     *)
LEMMA QuietFollows ==
  ASSUME Inv, Follows,
         UNCHANGED <<opening, looper, screen, listener, isConnected, disconnectNotified>>,
         pc'["main"] = "bind" <=> pc["main"] = "bind",
         pc["control"] \in {"reset", "tell"} => pc'["control"] \in {"reset", "tell"},
         Telling => Telling'
  PROVE  Follows'
<1>1. Upcoming' = Upcoming
  BY UpcomingPosted DEF Inv, Base, TypeOK
<1> QED
  BY <1>1 DEF Follows

(* The screen, step by step.                                               *)
LEMMA FollowsNext ==
  ASSUME asked' # "during", Inv, Marked, Follows, [Next]_vars
  PROVE  Follows'
<1>1. /\ looper \in Seq(Event) /\ pc \in [Thread -> {"idle", "bind"} \cup Disconnecting
                                                  \cup Connecting \cup Reading]
      /\ Thread = {"main", "control", "read"}
  BY DEF Inv, Base, TypeOK, Thread
<1> USE DEF Goto, fieldVars, linkVars, screenVars
<1>2. CASE Open
  <2>1. /\ opening = "none" /\ looper = <<>> /\ looper' = looper /\ ~listener /\ ~isConnected
        /\ pc["main"] = "idle" /\ screen' = "waiting"
    BY <1>2 DEF Open, OpenScreen, CreateContainer, ReconnectContainer, OpenAndBind,
                AttachExistingSshHandle, Inv, Base, Unopened, Marked
  <2>2. CASE OpenScreen
    BY <1>1, <2>1, <2>2 DEF OpenScreen, Follows, Upcoming
  <2>3. CASE CreateContainer \/ ReconnectContainer
    BY <1>1, <2>1, <2>3 DEF CreateContainer, ReconnectContainer, OpenAndBind, Follows
  <2>4. CASE AttachExistingSshHandle
    BY <1>1, <2>1, <2>4 DEF AttachExistingSshHandle, Follows
  <2> QED
    BY <1>2, <2>2, <2>3, <2>4 DEF Open
<1>3. CASE UserDisconnect \/ PeerGone
  <2>1. /\ UNCHANGED <<opening, looper, screen, listener, isConnected, disconnectNotified>>
        /\ pc'["main"] = "bind" <=> pc["main"] = "bind"
        /\ pc["control"] \in {"reset", "tell"} => pc'["control"] \in {"reset", "tell"}
    BY <1>1, <1>3 DEF UserDisconnect, PeerGone
  <2>2. Telling => Telling'
    BY <1>1, <1>3 DEF UserDisconnect, PeerGone, Telling, Disconnecting
  <2> QED
    BY <2>1, <2>2, QuietFollows
<1>4. CASE Create \/ Dial \/ Dialed \/ Authenticate \/ Authenticated \/ OpenShell
  <2>1. /\ UNCHANGED <<opening, looper, screen, listener, isConnected, disconnectNotified>>
        /\ pc'["main"] = "bind" <=> pc["main"] = "bind"
        /\ pc["control"] \in {"reset", "tell"} => pc'["control"] \in {"reset", "tell"}
    BY <1>1, <1>4 DEF Create, Dial, Dialed, Authenticate, Authenticated, OpenShell
  <2>2. Telling => Telling'
    BY <1>1, <1>4 DEF Create, Dial, Dialed, Authenticate, Authenticated, OpenShell, Telling,
                      Disconnecting
  <2> QED
    BY <2>1, <2>2, QuietFollows
<1>5. CASE StartReading \/ LoopCondition \/ Read \/ Sleep
  <2>1. /\ UNCHANGED <<opening, looper, screen, listener, isConnected, disconnectNotified>>
        /\ pc'["main"] = "bind" <=> pc["main"] = "bind"
        /\ pc["control"] \in {"reset", "tell"} => pc'["control"] \in {"reset", "tell"}
    BY <1>1, <1>5 DEF StartReading, LoopCondition, Read, Sleep
  <2>2. Telling => Telling'
    BY <1>1, <1>5 DEF StartReading, LoopCondition, Read, Sleep, Telling, Disconnecting
  <2> QED
    BY <2>1, <2>2, QuietFollows
<1>6. ASSUME NEW th \in Thread,
             Grab(th) \/ Drop(th) \/ Probe(th) \/ Free(th) \/ Forget(th) \/ Shut(th)
      PROVE  Follows'
  <2>1. UNCHANGED <<opening, looper, screen, listener, isConnected, disconnectNotified>>
    BY <1>6 DEF Grab, Drop, Probe, Free, Forget, Shut
  <2>2. /\ pc'["main"] = "bind" <=> pc["main"] = "bind"
        /\ pc["control"] \in {"reset", "tell"} => pc'["control"] \in {"reset", "tell"}
    BY <1>1, <1>6 DEF Grab, Drop, Probe, Free, Forget, Shut, Disconnecting
  <2>3. Telling => Telling'
    BY <1>1, <1>6 DEF Grab, Drop, Probe, Free, Forget, Shut, Telling, Disconnecting
  <2> QED
    BY <2>1, <2>2, <2>3, QuietFollows
<1>7. CASE Bind
  BY <1>1, <1>7 DEF Bind, BoundAs, Follows, Upcoming, Inv, Base, TypeOK, Marked
<1>8. CASE Deliver
  <2>1. /\ UNCHANGED <<opening, pc, isConnected, disconnectNotified, listener>>
        /\ pc["main"] = "idle"
    BY <1>8 DEF Deliver
  <2>2. Upcoming' = "connected" <=> Upcoming = "connected"
    BY <1>1, <1>8, UpcomingPosted DEF Deliver
  <2>3. Telling' <=> Telling
    BY <2>1 DEF Telling
  <2> QED
    BY <2>1, <2>2, <2>3 DEF Follows
<1>9. CASE MarkConnected
  BY <1>1, <1>9, UpcomingPosted DEF MarkConnected, Follows, Inv, Alone, Connecting
<1>10. CASE ResetNotified
  BY <1>1, <1>10, UpcomingPosted DEF ResetNotified, Follows, Marked
<1>11. CASE NotifyConnected
  <2>1. /\ UNCHANGED <<opening, listener, isConnected, disconnectNotified, screen>>
        /\ pc' = [pc EXCEPT !["control"] = "start"] /\ isConnected
        /\ looper' = IF listener THEN Append(looper, "connected") ELSE looper
    BY <1>11 DEF NotifyConnected, DoneLate, Post, Marked
  <2>2. listener => Upcoming' = "connected"
    BY <1>1, <2>1, UpcomingPosted DEF Event
  <2> QED
    BY <1>1, <2>1, <2>2 DEF Follows
<1>12. CASE StartReadingAsync
  <2>1. /\ UNCHANGED <<opening, looper, screen, listener, isConnected, disconnectNotified>>
        /\ pc["control"] = "start" /\ ~closed
        /\ pc' = [pc EXCEPT !["control"] = "idle", !["read"] = "queued"]
    BY <1>12 DEF StartReadingAsync, Inv, Alone, Connecting
  <2>2. Telling => Telling'
    BY <1>1, <2>1 DEF Telling, Inv, Alone, Connecting, Disconnecting
  <2>3. /\ pc'["main"] = "bind" <=> pc["main"] = "bind"
        /\ pc["control"] \in {"reset", "tell"} => pc'["control"] \in {"reset", "tell"}
    BY <1>1, <2>1
  <2> QED
    BY <2>1, <2>2, <2>3, QuietFollows
<1>13. CASE ConnectFailed
  <2>1. /\ UNCHANGED <<opening, listener, isConnected, disconnectNotified, screen>>
        /\ pc' = [pc EXCEPT !["control"] = "stop"] /\ ~isConnected
        /\ looper' = IF listener THEN Append(looper, "error") ELSE looper
    BY <1>13 DEF ConnectFailed, Post, AfterFailure, Marked, Connecting
  <2>2. listener => Upcoming' = "error"
    BY <1>1, <2>1, UpcomingPosted DEF Event
  <2> QED
    BY <1>1, <2>1, <2>2 DEF Follows
<1>14. CASE CallRead
  <2>1. /\ UNCHANGED <<opening, screen, listener, isConnected, disconnectNotified, looper>>
        /\ pc["read"] = "field"
        /\ \E p \in {"reading", "sleep", "stop"} : pc' = [pc EXCEPT !["read"] = p]
    BY <1>14 DEF CallRead, Marked
  <2>2. Telling => Telling'
    BY <1>1, <2>1 DEF Telling, Disconnecting
  <2>3. /\ pc'["main"] = "bind" <=> pc["main"] = "bind"
        /\ pc["control"] \in {"reset", "tell"} => pc'["control"] \in {"reset", "tell"}
    BY <1>1, <2>1
  <2> QED
    BY <2>1, <2>2, <2>3, QuietFollows
<1>15. ASSUME NEW th \in Thread, Stop(th) PROVE Follows'
  <2>1. /\ UNCHANGED <<opening, screen, listener, disconnectNotified, looper>>
        /\ pc[th] = "stop" /\ pc' = [pc EXCEPT ![th] = "grab"] /\ ~isConnected'
    BY <1>15 DEF Stop
  <2>2. Telling' /\ Upcoming' = Upcoming
    BY <1>1, <2>1, UpcomingPosted DEF Telling, Disconnecting
  <2>3. pc'["main"] = "bind" <=> pc["main"] = "bind"
    BY <1>1, <2>1
  <2>4. isConnected => ~disconnectNotified
    BY DEF Marked
  <2> QED
    BY <2>1, <2>2, <2>3, <2>4 DEF Follows
<1>16. ASSUME NEW th \in Thread, Notify(th) PROVE Follows'
  <2>1. /\ UNCHANGED <<opening, listener, isConnected>>
        /\ pc[th] = "notify" /\ pc' = [pc EXCEPT ![th] = "idle"] /\ ~isConnected
        /\ screen' = IF th = "main" /\ opening # "screen" THEN "disconnected" ELSE screen
        /\ IF disconnectNotified \/ ~listener THEN looper' = looper
                                 ELSE looper' = Append(looper, "disconnected")
    <3>1. pc[th] = "notify" /\ ~isConnected
      BY <1>16 DEF Notify, Inv, Stopped, Disconnecting
    <3>2. screen' = IF th = "main" /\ opening # "screen" THEN "disconnected" ELSE screen
      BY <1>16 DEF Notify
    <3>3. IF disconnectNotified \/ ~listener THEN looper' = looper
                                 ELSE looper' = Append(looper, "disconnected")
      BY <1>16 DEF Notify, TellNow, Post
    <3> QED
      BY <1>16, <3>1, <3>2, <3>3 DEF Notify
  <2>2. pc'["main"] = "bind" <=> pc["main"] = "bind"
    BY <1>1, <2>1
  <2>3. ASSUME opening \in Openings \ {"reconnect"}, pc["main"] # "bind"
        PROVE  listener /\ Upcoming' # "connected"
    <3>1. listener /\ (disconnectNotified => Upcoming # "connected")
      BY <2>1, <2>3 DEF Follows
    <3>2. CASE ~disconnectNotified
      BY <1>1, <2>1, <3>1, <3>2, UpcomingPosted DEF Event
    <3>3. CASE disconnectNotified
      BY <2>1, <3>1, <3>3 DEF Upcoming
    <3> QED
      BY <3>1, <3>2, <3>3
  <2>4. ASSUME pc["main"] = "bind"
        PROVE  screen' = screen /\ (~listener => looper' = looper)
    BY <2>1, <2>4
  <2> QED
    BY <2>1, <2>2, <2>3, <2>4 DEF Follows
<1>17. CASE UNCHANGED vars
  BY <1>17, QuietFollows DEF vars, Telling
<1>18. \/ Open \/ UserDisconnect \/ PeerGone \/ Bind \/ Deliver
       \/ Create \/ Dial \/ Dialed \/ Authenticate \/ Authenticated \/ OpenShell
       \/ MarkConnected \/ ResetNotified \/ NotifyConnected \/ StartReadingAsync \/ ConnectFailed
       \/ StartReading \/ LoopCondition \/ CallRead \/ Read \/ Sleep
       \/ \E th \in Thread : Disconnect(th)
       \/ UNCHANGED vars
  BY <1>1 DEF Next, MainThread, ControlThread, ReadThread, ConnectInternal, ReadLoop
<1>19. ASSUME NEW th \in Thread, Disconnect(th) PROVE Follows'
  BY <1>6, <1>15, <1>16, <1>19 DEF Disconnect
<1> QED
  BY <1>2, <1>3, <1>4, <1>5, <1>7, <1>8, <1>9, <1>10, <1>11, <1>12, <1>13, <1>14, <1>17,
     <1>18, <1>19

(* The callbacks of TerminalSession and the isConnected read by             *)
(* BackTerminalActivity when it binds: once every thread is done with a     *)
(* change, the screen shows what the session is.                            *)
THEOREM ScreenAgreesHolds == Spec => []ScreenAgrees
<1> DEFINE J == asked # "during" => Inv /\ Marked /\ Follows
<1>1. Init => J
  <2>1. Init => Marked /\ Follows
    BY ConstantsAssumption
    DEF Init, Marked, Follows, Thread, Connecting, ConstantsAssumption
  <2> QED
    BY <2>1, InitInv
<1>2. J /\ [Next]_vars => J'
  BY InductiveInv, MarkedNext, FollowsNext, EarlyStays
<1>3. J => ScreenAgrees
  BY DEF Inv, Base, TypeOK, Follows, ScreenAgrees, AtRest, Telling, Thread, Upcoming, Disconnecting
<1> HIDE DEF J
<1> QED
  BY <1>1, <1>2, <1>3, PTL DEF Spec, SafetySpec
=============================================================================
