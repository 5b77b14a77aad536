--------------------------- MODULE NativeBridge ---------------------------
(* The native SSH bridge, ssh_bridge.c: one SshContext shared by the       *)
(* threads of the app that hold its handle (the reader and the writer of a *)
(* terminal, the transfers and the screens that run commands through it,   *)
(* the workers of a forwarded port).                                       *)
(*                                                                         *)
(* No call takes a lock.  libssh2 has one blocking mode per session: most  *)
(* calls switch it on, do their work with several libssh2 calls, and       *)
(* switch it off, whoever else is inside.  libssh2 is outside the          *)
(* repository's build tree; it is modelled from how the bridge uses it: a  *)
(* libssh2 call is one step; it returns when the peer has answered; when   *)
(* the peer has not, it waits in blocking mode and returns EAGAIN          *)
(* otherwise; it fails when the link is lost and, on a handle that was     *)
(* given a timeout, when it has waited that long in blocking mode.         *)
EXTENDS Naturals, Sequences, FiniteSets

CONSTANTS
  Thread,    \* the threads that hold the handle
  CallsOf,   \* the bridge calls each thread makes
  Chunks,    \* bound: how many pieces a call has to move
  Timed,     \* setSessionTimeout was called: SshTransport does, unless the timeout
             \* is set to 0, SessionConnector.connectFresh does not
  Faults     \* what may go wrong: "lost" (the link), "server" (an error status
             \* in answer to an SFTP request), "local" (reading or writing a FILE)

(* The calls that are a loop over one kind of transfer, by what ends the   *)
(* loop: exec, sendBindRequest and sftpList stop at any result that is not *)
(* positive, the others carry on after EAGAIN.                             *)
StopsAtAgain == {"exec", "sendBindRequest", "sftpList"}
Writing      == {"write", "writeChannel", "sftpUpload"}
CarriesOn    == Writing \cup {"sftpDownload", "execWithResult"}
SftpCalls    == {"sftpList", "sftpUpload", "sftpDownload"}
Single       == {"read", "readChannel"}      \* one libssh2_channel_read each
Section      == StopsAtAgain \cup CarriesOn \cup {"openDirectTcpIp"}
Call         == Section \cup Single \cup {"openShell", "closeChannel", "disconnect"}

(* What a call acquires before its loop, in order; "local" is the FILE of  *)
(* an SFTP transfer, the rest are libssh2 objects.                         *)
Needs(c) ==
  CASE c = "sftpList"                             -> <<"sftp", "directory">>
    [] c \in {"sftpUpload", "sftpDownload"}       -> <<"sftp", "file", "local">>
    [] c \in Single \cup {"write", "writeChannel", "closeChannel", "disconnect"} -> <<>>
    [] OTHER                                      -> <<"channel">>
Resource == {"channel", "sftp", "directory", "file", "local"}

ASSUME BridgeAssumption ==
  /\ CallsOf \in [Thread -> SUBSET Call]
  /\ Chunks \in Nat \ {0}
  /\ Timed \in BOOLEAN
  /\ Faults \subseteq {"lost", "server", "local"}

VARIABLES
  ctx,       \* the SshContext: "open", "freed", or "crashed" once used after free
  link,      \* the connection to the server
  blocking,  \* libssh2's blocking mode of the session
  shell,     \* ctx->channel is set
  tunnels,   \* forwarded channels open: 0 or 1 (bound)
  pc,        \* where a thread is in its call
  call,      \* the call it is in
  held,      \* the libssh2 objects and files that call holds
  moved,     \* pieces it has moved
  peer,      \* pieces the peer has delivered or accepted; Chunks + 1: and the end
  answered,  \* the peer has answered the request the call waits for
  result,    \* what the call is about to return
  trouble    \* history: what has befallen the call from outside

threadVars == <<pc, call, held, moved, peer, answered, result, trouble>>
vars == <<ctx, link, blocking, shell, tunnels, threadVars>>

NoCall == "none"
Result == {"none", "returned", "failed"}
Trouble == {"flag", "lost", "timeout", "server", "local"}

TypeOK ==
  /\ ctx \in {"open", "freed", "crashed"} /\ link \in {"up", "lost"}
  /\ blocking \in BOOLEAN /\ shell \in BOOLEAN /\ tunnels \in 0 .. 1
  /\ pc \in [Thread -> {"idle", "read", "acquire", "request", "loop", "release", "leave"}]
  /\ call \in [Thread -> Call \cup {NoCall}]
  /\ held \in [Thread -> SUBSET Resource]
  /\ moved \in [Thread -> 0 .. Chunks] /\ peer \in [Thread -> 0 .. Chunks + 1]
  /\ answered \in [Thread -> BOOLEAN]
  /\ result \in [Thread -> Result] /\ trouble \in [Thread -> SUBSET Trouble]

InSection(t) == pc[t] # "idle" /\ call[t] \in Section

(* connect has returned a context: libssh2 starts in blocking mode.        *)
Init ==
  /\ ctx = "open" /\ link = "up" /\ blocking = TRUE /\ shell = FALSE /\ tunnels = 0
  /\ pc = [t \in Thread |-> "idle"] /\ call = [t \in Thread |-> NoCall]
  /\ held = [t \in Thread |-> {}] /\ moved = [t \in Thread |-> 0]
  /\ peer = [t \in Thread |-> 0] /\ answered = [t \in Thread |-> FALSE]
  /\ result = [t \in Thread |-> "none"] /\ trouble = [t \in Thread |-> {}]

-----------------------------------------------------------------------------
(* How a step changes one thread.                                          *)
GoTo(t, place, outcome) ==
  /\ pc' = [pc EXCEPT ![t] = place]
  /\ result' = [result EXCEPT ![t] = outcome]
Suffers(t, what) == trouble' = [trouble EXCEPT ![t] = @ \cup what]

(* What a libssh2 call of t in the current state may come back with.       *)
WouldBlock(t) == ~answered[t] /\ link = "up"
Again(t)      == WouldBlock(t) /\ ~blocking
DataReady(t)  == moved[t] < peer[t] /\ moved[t] < Chunks
AtEnd(t)      == moved[t] = Chunks /\ peer[t] = Chunks + 1
NoData(t)     == ~DataReady(t) /\ ~AtEnd(t)
LostTrouble   == IF link = "lost" THEN {"lost"} ELSE {}

(* The guards at the head of a call.  A call without a shell or a channel  *)
(* returns at once and changes nothing.                                    *)
MayCall(t, c) ==
  /\ ctx = "open" /\ pc[t] = "idle" /\ c \in CallsOf[t]
  /\ c \in {"read", "write"} => shell
  /\ c \in {"readChannel", "writeChannel", "closeChannel"} => tunnels = 1
  /\ c = "openDirectTcpIp" => tunnels = 0

FirstPlace(c) ==
  CASE c \in Single                     -> "read"
    [] c = "closeChannel"               -> "release"
    [] c \in {"write", "writeChannel"}  -> "loop"
    [] OTHER                            -> "acquire"

(* Mutant: exec leaves the blocking mode as it finds it.                   *)
SwitchesOnNotForExec(c) == c \in Section \ {"exec"}
SwitchesOn(c) == c \in Section

(* Entering a call: the calls of Section switch the blocking mode on.      *)
(* closeChannel has the channel it was given.                              *)
Begin(t, c) ==
  /\ c # "disconnect" /\ MayCall(t, c)
  /\ blocking' = (blocking \/ SwitchesOn(c))
  /\ call' = [call EXCEPT ![t] = c]
  /\ GoTo(t, FirstPlace(c), "none")
  /\ held' = [held EXCEPT ![t] = IF c = "closeChannel" THEN {"channel"} ELSE {}]
  /\ tunnels' = IF c = "closeChannel" THEN 0 ELSE tunnels
  /\ UNCHANGED <<ctx, link, shell, moved, peer, answered, trouble>>

(* The next object the call needs is opened; with the last one it goes on. *)
(* exec ignores the result of libssh2_channel_exec, as sendBindRequest     *)
(* that of its write.                                                      *)
NextNeed(t) == Needs(call[t])[Cardinality(held[t]) + 1]
AfterAcquire(c) ==
  CASE c \in {"execWithResult", "openShell"} -> "request"
    [] c = "openDirectTcpIp"                 -> "leave"
    [] OTHER                                 -> "loop"
Acquired(t) ==
  /\ pc[t] = "acquire" /\ ctx = "open"
  /\ NextNeed(t) # "local" => answered[t]
  /\ LET full == Cardinality(held[t]) + 1 = Len(Needs(call[t])) IN
     /\ GoTo(t, IF full THEN AfterAcquire(call[t]) ELSE "acquire",
                IF full /\ call[t] = "openDirectTcpIp" THEN "returned" ELSE "none")
     /\ IF call[t] = "openDirectTcpIp"
        THEN tunnels' = 1 /\ UNCHANGED held       \* the caller owns the channel
        ELSE held' = [held EXCEPT ![t] = @ \cup {NextNeed(t)}] /\ UNCHANGED tunnels
  /\ answered' = [answered EXCEPT ![t] = FALSE]
  /\ UNCHANGED <<ctx, link, blocking, shell, call, moved, peer, trouble>>

(* What is held when the next object is refused is released; mutant: the   *)
(* early return forgets it.                                                *)
AfterRefusalAtOnce(t) == "leave"
AfterRefusal(t) == IF held[t] = {} THEN "leave" ELSE "release"

(* It is not opened: refused, the link is lost, EAGAIN (libssh2 returns    *)
(* NULL then too), or fopen fails.                                         *)
NotAcquired(t) ==
  /\ pc[t] = "acquire" /\ ctx = "open"
  /\ NextNeed(t) = "local" \/ ~WouldBlock(t) \/ Again(t)
  /\ GoTo(t, AfterRefusal(t), "failed")
  /\ Suffers(t, LostTrouble)
  /\ answered' = [answered EXCEPT ![t] = FALSE]
  /\ UNCHANGED <<ctx, link, blocking, shell, tunnels, call, held, moved, peer>>

(* libssh2_channel_exec of execWithResult and libssh2_channel_shell, whose *)
(* failures are looked at.  openShell keeps its channel in the context.    *)
Requested(t) ==
  /\ pc[t] = "request" /\ ctx = "open" /\ answered[t]
  /\ IF call[t] = "openShell"
     THEN /\ GoTo(t, "leave", "returned")
          /\ held' = [held EXCEPT ![t] = {}]
     ELSE GoTo(t, "loop", "none") /\ UNCHANGED held
  /\ answered' = [answered EXCEPT ![t] = FALSE]
  /\ UNCHANGED <<ctx, link, blocking, shell, tunnels, call, moved, peer, trouble>>
NotRequested(t) ==
  /\ pc[t] = "request" /\ ctx = "open"
  /\ ~WouldBlock(t) \/ Again(t)
  /\ GoTo(t, "release", "failed")
  /\ Suffers(t, LostTrouble)
  /\ answered' = [answered EXCEPT ![t] = FALSE]
  /\ UNCHANGED <<ctx, link, blocking, shell, tunnels, call, held, moved, peer>>

-----------------------------------------------------------------------------
(* The loops.                                                              *)
AfterLoop(c) == IF c \in {"write", "writeChannel"} THEN "leave" ELSE "release"

Moves(t) ==
  /\ pc[t] = "loop" /\ ctx = "open" /\ DataReady(t)
  /\ moved' = [moved EXCEPT ![t] = @ + 1]
  /\ UNCHANGED <<ctx, link, blocking, shell, tunnels, pc, call, held, peer,
                 answered, result, trouble>>

(* All is written, or the reading call has come to the end of the stream.  *)
Finished(t) == IF call[t] \in Writing THEN moved[t] = Chunks ELSE AtEnd(t)
Finishes(t) ==
  /\ pc[t] = "loop" /\ ctx = "open" /\ Finished(t)
  /\ GoTo(t, AfterLoop(call[t]), "returned")
  /\ UNCHANGED <<ctx, link, blocking, shell, tunnels, call, held, moved, peer,
                 answered, trouble>>

(* EAGAIN ends the loops of StopsAtAgain with what they have, as the end   *)
(* of the stream would; the other loops try again, which changes nothing.  *)
StopsAgain(t) ==
  /\ pc[t] = "loop" /\ ctx = "open" /\ call[t] \in StopsAtAgain
  /\ NoData(t) /\ link = "up" /\ ~blocking
  /\ GoTo(t, "release", "returned")
  /\ UNCHANGED <<ctx, link, blocking, shell, tunnels, call, held, moved, peer,
                 answered, trouble>>

(* An error (the link, a wait that timed out, a status of the SFTP server):*)
(* exec and sftpList take it for the end, a write returns how much it has  *)
(* written, the SFTP transfers fail, and execWithResult goes on until the  *)
(* channel is at its end.                                                  *)
(* Mutants: a download takes an error for the end; write tries again.      *)
OnErrorAtEnd(c) == IF c \in StopsAtAgain \cup {"sftpDownload"} THEN "returned" ELSE "failed"
OnError(c) == IF c \in StopsAtAgain THEN "returned" ELSE "failed"
IgnoresErrorsToo == {"execWithResult", "write"}
IgnoresErrors    == {"execWithResult"}
LoopError(t, what) ==
  /\ pc[t] = "loop" /\ ctx = "open" /\ ~Finished(t) /\ ~DataReady(t)
  /\ call[t] \notin IgnoresErrors
  /\ GoTo(t, AfterLoop(call[t]), OnError(call[t]))
  /\ Suffers(t, {what})
  /\ UNCHANGED <<ctx, link, blocking, shell, tunnels, call, held, moved, peer, answered>>

(* The server answers a readdir, a read or a write with an error.          *)
ServerError(t) ==
  /\ "server" \in Faults /\ link = "up" /\ call[t] \in SftpCalls
  /\ LoopError(t, "server")

(* The local file gives way.  An fread that fails ends the loop of an      *)
(* upload like the end of the file; a piece that fwrite cannot take fails  *)
(* a download; and what fclose cannot flush, the last piece, is lost       *)
(* without a word.                                                         *)
LocalError(t) ==
  /\ "local" \in Faults /\ pc[t] = "loop" /\ ctx = "open"
  /\ \/ /\ call[t] = "sftpUpload" /\ moved[t] < Chunks /\ ~DataReady(t)
        /\ GoTo(t, "release", "returned") /\ UNCHANGED moved
     \/ /\ call[t] = "sftpDownload" /\ DataReady(t)
        /\ GoTo(t, "release", "failed") /\ UNCHANGED moved
     \/ /\ call[t] = "sftpDownload" /\ AtEnd(t)
        /\ GoTo(t, "release", "returned") /\ moved' = [moved EXCEPT ![t] = @ - 1]
  /\ Suffers(t, {"local"})
  /\ UNCHANGED <<ctx, link, blocking, shell, tunnels, call, held, peer, answered>>

(* One libssh2_channel_read: data, or nothing (no data, the end, an error) *)
Reads(t) ==
  /\ pc[t] = "read" /\ ctx = "open"
  /\ DataReady(t) \/ AtEnd(t) \/ link = "lost" \/ ~blocking
  /\ moved' = [moved EXCEPT ![t] = IF DataReady(t) THEN @ + 1 ELSE @]
  /\ GoTo(t, "leave", "returned")
  /\ UNCHANGED <<ctx, link, blocking, shell, tunnels, call, held, peer, answered, trouble>>

-----------------------------------------------------------------------------
(* Closing what the call holds: fclose always, libssh2's objects when the  *)
(* peer has confirmed or the link is lost.  On EAGAIN they stay on the     *)
(* session's lists; nobody has a pointer to them any more.                 *)
ReleaseAll(t) ==
  /\ pc[t] = "release" /\ ctx = "open"
  /\ held[t] \ {"local"} = {} \/ ~WouldBlock(t)
  /\ held' = [held EXCEPT ![t] = {}]
  /\ GoTo(t, "leave", result[t])
  /\ answered' = [answered EXCEPT ![t] = FALSE]
  /\ UNCHANGED <<ctx, link, blocking, shell, tunnels, call, moved, peer, trouble>>
ReleaseLeaves(t) ==
  /\ pc[t] = "release" /\ ctx = "open" /\ Again(t) /\ held[t] \ {"local"} # {}
  /\ held' = [held EXCEPT ![t] = @ \ {"local"}]
  /\ GoTo(t, "leave", result[t])
  /\ UNCHANGED <<ctx, link, blocking, shell, tunnels, call, moved, peer, answered, trouble>>

(* The end of a call: Section calls and a successful openShell switch the  *)
(* blocking mode off, under the feet of every other call that wants it on. *)
(* Mutant: the returns of a failed open forget to.                         *)
SwitchesOffUnlessFailed(t) ==
  call[t] \in Section \cup {"openShell"} /\ result[t] = "returned"
SwitchesOff(t) == call[t] \in Section \/ (call[t] = "openShell" /\ result[t] = "returned")
Leave(t) ==
  /\ pc[t] = "leave" /\ ctx = "open"
  /\ blocking' = (blocking /\ ~SwitchesOff(t))
  /\ shell' = (shell \/ (call[t] = "openShell" /\ result[t] = "returned"))
  /\ trouble' = [s \in Thread |->
       IF s = t THEN {}
       ELSE trouble[s] \cup (IF SwitchesOff(t) /\ InSection(s) THEN {"flag"} ELSE {})]
  /\ pc' = [pc EXCEPT ![t] = "idle"] /\ call' = [call EXCEPT ![t] = NoCall]
  /\ held' = [held EXCEPT ![t] = {}] /\ moved' = [moved EXCEPT ![t] = 0]
  /\ peer' = [peer EXCEPT ![t] = 0] /\ answered' = [answered EXCEPT ![t] = FALSE]
  /\ result' = [result EXCEPT ![t] = "none"]
  /\ UNCHANGED <<ctx, link, tunnels>>

(* disconnect frees the session and the context, whoever is inside.        *)
Disconnect(t) ==
  /\ MayCall(t, "disconnect")
  /\ ctx' = "freed" /\ shell' = FALSE /\ tunnels' = 0
  /\ UNCHANGED <<link, blocking, threadVars>>
UseAfterFree(t) ==
  /\ ctx = "freed" /\ pc[t] # "idle"
  /\ ctx' = "crashed"
  /\ UNCHANGED <<link, blocking, shell, tunnels, threadVars>>

-----------------------------------------------------------------------------
(* The server, the network and the clock of libssh2's waits.               *)
Answer(t) ==
  /\ ctx = "open" /\ link = "up" /\ ~answered[t]
  /\ pc[t] \in {"acquire", "request", "release"}
  /\ answered' = [answered EXCEPT ![t] = TRUE]
  /\ UNCHANGED <<ctx, link, blocking, shell, tunnels, pc, call, held, moved, peer,
                 result, trouble>>
Feed(t) ==
  /\ ctx = "open" /\ link = "up" /\ pc[t] \in {"loop", "read"}
  /\ peer[t] = moved[t]                \* bound: one piece ahead of the call
  /\ peer' = [peer EXCEPT ![t] = @ + 1]
  /\ UNCHANGED <<ctx, link, blocking, shell, tunnels, pc, call, held, moved,
                 answered, result, trouble>>
LoseLink ==
  /\ "lost" \in Faults /\ link = "up" /\ ctx = "open"
  /\ link' = "lost"
  /\ UNCHANGED <<ctx, blocking, shell, tunnels, threadVars>>

(* A session timeout bounds a wait in blocking mode: the libssh2 call      *)
(* fails, except that a failed close leaves the object where it is.        *)
Waits(t) ==
  /\ blocking /\ link = "up" /\ ctx = "open"
  /\ IF pc[t] \in {"loop", "read"} THEN NoData(t) /\ ~Finished(t) ELSE ~answered[t]
TimeOut(t) ==
  /\ Timed /\ Waits(t)
  /\ \/ LoopError(t, "timeout")
     \/ /\ \/ pc[t] = "acquire" /\ NextNeed(t) # "local" /\ GoTo(t, AfterRefusal(t), "failed")
           \/ pc[t] = "request" /\ GoTo(t, "release", "failed")
           \/ pc[t] = "read" /\ GoTo(t, "leave", "returned")
        /\ Suffers(t, {"timeout"})
        /\ UNCHANGED <<ctx, link, blocking, shell, tunnels, call, held, moved, peer, answered>>
     \/ /\ pc[t] = "release" /\ held[t] \ {"local"} # {}
        /\ GoTo(t, "leave", result[t]) /\ Suffers(t, {"timeout"})
        /\ held' = [held EXCEPT ![t] = @ \ {"local"}]
        /\ UNCHANGED <<ctx, link, blocking, shell, tunnels, call, moved, peer, answered>>

-----------------------------------------------------------------------------
Step(t) ==
  \/ Acquired(t) \/ NotAcquired(t) \/ Requested(t) \/ NotRequested(t)
  \/ Moves(t) \/ Finishes(t) \/ StopsAgain(t)
  \/ (link = "lost" /\ LoopError(t, "lost")) \/ ServerError(t) \/ LocalError(t)
  \/ Reads(t) \/ ReleaseAll(t) \/ ReleaseLeaves(t) \/ Leave(t) \/ TimeOut(t)
  \/ UseAfterFree(t)

Peer(t) == Answer(t) \/ Feed(t)

Next ==
  \/ LoseLink
  \/ \E t \in Thread :
       \/ \E c \in CallsOf[t] : Begin(t, c)
       \/ Step(t) \/ Peer(t) \/ Disconnect(t)

SafetySpec == Init /\ [][Next]_vars

(* A thread that can take a step takes it, the end of a wait by the        *)
(* timeout included.  Nothing makes a thread begin a call, and nothing     *)
(* makes the server answer.                                                *)
Spec == SafetySpec /\ \A t \in Thread : WF_vars(Step(t))

-----------------------------------------------------------------------------
(* With a shell open and no call inside its section the session does not   *)
(* block: the reader of the terminal polls it with read() and must not     *)
(* hang there, whatever the order in which the calls have come and gone.   *)
IdleIsNonBlocking ==
  shell /\ blocking => \E t \in Thread : InSection(t)

(* The loops that carry on after EAGAIN never report a part for the whole, *)
(* even when another call switches the mode under them, the link is lost,  *)
(* a wait times out or the server answers with an error: sftpUpload,       *)
(* sftpDownload and execWithResult succeed, and write returns the full     *)
(* length, only when all has moved.  The two transfers do report a part    *)
(* for the whole when their local file gives way (LocalError).             *)
FileGaveWay(t) == call[t] \in {"sftpUpload", "sftpDownload"} /\ "local" \in trouble[t]
WholeOrReported ==
  \A t \in Thread :
    call[t] \in CarriesOn /\ result[t] = "returned" => moved[t] = Chunks \/ FileGaveWay(t)

(* exec, sendBindRequest and sftpList read to the end of the output when   *)
(* nothing has befallen them: no other call has switched the blocking mode *)
(* off since they switched it on, no wait timed out, the link is up and    *)
(* the server has answered without an error.  (Of what it reads            *)
(* sendBindRequest keeps what fits its buffer of 4096 bytes.)              *)
WholeWhenAlone ==
  \A t \in Thread :
    call[t] \in StopsAtAgain /\ result[t] = "returned" /\ trouble[t] = {}
      => moved[t] = Chunks

(* A call that keeps its blocking mode and its link, and that no wait      *)
(* times out on, leaves no channel, SFTP session, handle or FILE behind,   *)
(* on any of its paths: the early returns of a refused open, an error of   *)
(* the server and one of the local file included.                          *)
ReleasedWhenAlone ==
  \A t \in Thread :
    pc[t] = "leave" /\ call[t] \in Section /\ trouble[t] \subseteq {"server", "local"}
      => held[t] = {}

(* On a handle with a timeout every call returns, even if the server falls *)
(* silent and the link is not reported lost, and a read that found the     *)
(* session in blocking mode included.  There are two exceptions: the loop  *)
(* of execWithResult takes no error for the end; and a loop that carries   *)
(* on after EAGAIN polls, which no timeout bounds, once another call has   *)
(* switched the mode off under it.  Of a handle without a timeout nothing  *)
(* is said: exec waits for a silent server, or for the output of a command *)
(* that libssh2_channel_exec has refused to send, for ever.                *)
Spins(t) ==
  /\ pc[t] = "loop"
  /\ call[t] = "execWithResult" \/ (call[t] \in CarriesOn /\ "flag" \in trouble[t])
CallsReturn ==
  Timed => \A t \in Thread :
             (pc[t] # "idle") ~> (pc[t] = "idle" \/ ctx = "crashed" \/ Spins(t))

(* exec runs a command, reads its result and closes the channel: the text  *)
(* it returns is the whole output while the link is up and nothing times   *)
(* out.  The code breaks this when another call of the handle ends inside. *)
ExecReadsResult ==
  \A t \in Thread :
    call[t] = "exec" /\ result[t] = "returned" /\ trouble[t] \subseteq {"flag"}
      => moved[t] = Chunks
=============================================================================
