------------------------ MODULE NativeBridgeProofs ------------------------
(* Safety of the native bridge for any threads, any calls and any length   *)
(* of the transfers: what TLC checks for two threads holds in general.     *)
(*                                                                         *)
(* The argument.  The blocking mode is shared, and a call may lose it to   *)
(* another at any moment; but whoever switches it off while a call is in   *)
(* its section leaves a mark on that call (the history trouble).  So a     *)
(* call in its section without the mark still has the mode it asked for    *)
(* (Flag), never sees EAGAIN, and so neither ends its loop early nor       *)
(* leaves an object behind.  The other parts of the invariant say where a  *)
(* call is: what it holds while it acquires, which calls read or write at  *)
(* a place, and that it has no result before its loop is over.             *)
EXTENDS NativeBridge, FiniteSetTheorems, TLAPS

(* What a call may hold while it still needs something.                    *)
OneChannel == {"exec", "sendBindRequest", "execWithResult", "openShell", "openDirectTcpIp"}
Prefixes(c) ==
  {h \in {{}, {"sftp"}, {"sftp", "file"}} :
    \/ h = {} /\ c \in OneChannel
    \/ h # {"sftp", "file"} /\ c = "sftpList"
    \/ c \in {"sftpUpload", "sftpDownload"}}

Placed(t) ==
  /\ pc[t] = "acquire" => held[t] \in Prefixes(call[t])
  /\ pc[t] = "read" => call[t] \in Single
  /\ pc[t] = "request" => call[t] \in {"execWithResult", "openShell"}
  /\ pc[t] = "loop" /\ call[t] \in {"write", "writeChannel"} => held[t] = {}
  /\ pc[t] \in {"idle", "acquire", "request", "loop", "read"} => result[t] = "none"

Flag(t) == InSection(t) /\ "flag" \notin trouble[t] => blocking

Reported(t) ==
  /\ call[t] \in CarriesOn /\ result[t] = "returned" => moved[t] = Chunks \/ FileGaveWay(t)
  /\ call[t] \in StopsAtAgain /\ result[t] = "returned" /\ trouble[t] = {}
       => moved[t] = Chunks
  /\ pc[t] = "leave" /\ call[t] \in Section /\ trouble[t] \subseteq {"server", "local"}
       => held[t] = {}

IInv ==
  /\ TypeOK
  /\ IdleIsNonBlocking
  /\ \A t \in Thread : Placed(t) /\ Flag(t) /\ Reported(t)

(* The calls by name, for the provers.                                     *)
LEMMA CallNames ==
  ASSUME NEW c \in Call
  PROVE  c \in {"exec", "sendBindRequest", "sftpList", "write", "writeChannel",
                "sftpUpload", "sftpDownload", "execWithResult", "openDirectTcpIp",
                "read", "readChannel", "openShell", "closeChannel", "disconnect"}
BY DEF Call, Section, StopsAtAgain, CarriesOn, Writing, Single

(* The next need of a call that acquires is an object it does not hold,    *)
(* and until the last one it goes on acquiring.                            *)
LEMMA NextNeedIs ==
  ASSUME NEW c, NEW h \in Prefixes(c)
  PROVE  /\ Needs(c)[Cardinality(h) + 1] \in Resource
         /\ Cardinality(h) + 1 # Len(Needs(c))
              => h \cup {Needs(c)[Cardinality(h) + 1]} \in Prefixes(c)
<1>0. /\ Cardinality({}) = 0
      /\ Cardinality({"sftp"}) = 1
      /\ Cardinality({"sftp", "file"}) = 2
  <2>1. Cardinality({}) = 0 /\ IsFiniteSet({})
    BY FS_EmptySet
  <2>2. Cardinality({"sftp"}) = 1 /\ IsFiniteSet({"sftp"})
    BY FS_Singleton
  <2>3. "file" \notin {"sftp"}
    OBVIOUS
  <2>4. Cardinality({"sftp"} \cup {"file"}) = Cardinality({"sftp"}) + 1
    BY <2>2, <2>3, FS_AddElement
  <2>5. {"sftp"} \cup {"file"} = {"sftp", "file"}
    OBVIOUS
  <2> QED BY <2>1, <2>2, <2>4, <2>5
<1>1. {"sftp"} \cup {"file"} = {"sftp", "file"} /\ {"sftp"} # {"sftp", "file"} /\ {} # {"sftp"}
  <2>1. "file" \in {"sftp", "file"} /\ "file" \notin {"sftp"} /\ "sftp" \notin {}
    OBVIOUS
  <2> QED BY <2>1
<1>2. CASE c = "sftpList"
  <2>1. Needs(c) = <<"sftp", "directory">>
    BY <1>2 DEF Needs, Single
  <2>2. h = {} \/ h = {"sftp"}
    BY <1>2 DEF Prefixes, OneChannel
  <2>3. CASE h = {}
    BY <2>1, <2>3, <1>0, <1>1, <1>2 DEF Resource, Prefixes
  <2>4. CASE h = {"sftp"}
    BY <2>1, <2>4, <1>0 DEF Resource
  <2> QED BY <2>2, <2>3, <2>4
<1>3. CASE c \in {"sftpUpload", "sftpDownload"}
  <2>1. Needs(c) = <<"sftp", "file", "local">>
    BY <1>3 DEF Needs, Single
  <2>2. CASE h = {}
    BY <2>1, <2>2, <1>0, <1>3 DEF Resource, Prefixes
  <2>3. CASE h = {"sftp"}
    BY <2>1, <2>3, <1>0, <1>1, <1>3 DEF Resource, Prefixes
  <2>4. CASE h = {"sftp", "file"}
    BY <2>1, <2>4, <1>0 DEF Resource
  <2> QED BY <2>2, <2>3, <2>4 DEF Prefixes
<1>4. CASE c \in OneChannel
  <2>1. Needs(c) = <<"channel">>
    BY <1>4 DEF Needs, Single, OneChannel
  <2>2. h = {}
    BY <1>4 DEF Prefixes, OneChannel
  <2> QED BY <2>1, <2>2, <1>0 DEF Resource
<1> QED BY <1>2, <1>3, <1>4 DEF Prefixes

LEMMA InitIInv == Init => IInv
<1> SUFFICES ASSUME Init PROVE IInv
  OBVIOUS
<1>1. TypeOK
  <2>1. 0 \in 0 .. Chunks /\ 0 \in 0 .. Chunks + 1 /\ 0 \in 0 .. 1
    BY BridgeAssumption
  <2> QED BY <2>1 DEF Init, TypeOK, NoCall, Result
<1>2. IdleIsNonBlocking
  BY DEF Init, IdleIsNonBlocking
<1>3. ASSUME NEW t \in Thread PROVE Placed(t) /\ Flag(t) /\ Reported(t)
  BY DEF Init, Placed, Flag, FileGaveWay, Reported, InSection
<1> QED BY <1>1, <1>2, <1>3 DEF IInv

LEMMA BeginKeeps ==
  ASSUME IInv, NEW t \in Thread, NEW c \in CallsOf[t], Begin(t, c)
  PROVE  IInv'
<1>1. c \in Call /\ c # "disconnect" /\ pc[t] = "idle"
  BY BridgeAssumption DEF Begin, MayCall
<1>2. TypeOK'
  BY <1>1, CallNames DEF IInv, TypeOK, Begin, GoTo, FirstPlace, Result, Resource
<1>3. IdleIsNonBlocking'
  BY <1>1 DEF IInv, TypeOK, IdleIsNonBlocking, Begin, GoTo, SwitchesOn, InSection, FirstPlace
<1>4. ASSUME NEW s \in Thread PROVE (Placed(s) /\ Flag(s) /\ Reported(s))'
  <2>1. CASE s = t
    <3>1. /\ pc'[t] = FirstPlace(c) /\ call'[t] = c /\ result'[t] = "none"
          /\ held'[t] = IF c = "closeChannel" THEN {"channel"} ELSE {}
          /\ c \in Section => blocking'
      BY DEF IInv, TypeOK, Begin, GoTo, SwitchesOn
    <3>2. Placed(t)'
      BY <3>1, <1>1, CallNames DEF Placed, FirstPlace, Prefixes, OneChannel, Single
    <3>3. Flag(t)' /\ Reported(t)'
      BY <3>1 DEF Flag, InSection, FileGaveWay, Reported, FirstPlace
    <3> QED BY <2>1, <3>2, <3>3
  <2>2. CASE s # t
    BY <2>2 DEF IInv, TypeOK, Begin, GoTo, Placed, Flag, FileGaveWay, Reported, InSection
  <2> QED BY <2>1, <2>2
<1> QED BY <1>2, <1>3, <1>4 DEF IInv

LEMMA AcquiredKeeps ==
  ASSUME IInv, NEW t \in Thread, Acquired(t)
  PROVE  IInv'
<1> DEFINE full == Cardinality(held[t]) + 1 = Len(Needs(call[t]))
           mine == call[t] = "openDirectTcpIp"
<1>1. held[t] \in Prefixes(call[t])
  BY DEF IInv, Placed, Acquired
<1>2. NextNeed(t) \in Resource /\ (~full => held[t] \cup {NextNeed(t)} \in Prefixes(call[t]))
  BY <1>1, NextNeedIs DEF NextNeed
<1>3. call[t] \notin {"write", "writeChannel"} /\ (mine => held[t] = {})
  BY <1>1 DEF Prefixes, OneChannel
<1>4. /\ pc[t] = "acquire" /\ result[t] = "none"
      /\ pc' = [pc EXCEPT ![t] = IF full THEN AfterAcquire(call[t]) ELSE "acquire"]
      /\ result' = [result EXCEPT ![t] = IF full /\ mine THEN "returned" ELSE "none"]
      /\ held' = IF mine THEN held ELSE [held EXCEPT ![t] = @ \cup {NextNeed(t)}]
      /\ tunnels' = IF mine THEN 1 ELSE tunnels
      /\ answered' = [answered EXCEPT ![t] = FALSE]
      /\ UNCHANGED <<ctx, link, blocking, shell, call, moved, peer, trouble>>
  BY DEF IInv, Placed, Acquired, GoTo
<1> HIDE DEF full
<1>5. AfterAcquire(call[t]) \in {"request", "leave", "loop"}
      /\ (AfterAcquire(call[t]) = "leave" => mine)
      /\ (AfterAcquire(call[t]) = "request" => call[t] \in {"execWithResult", "openShell"})
  BY DEF AfterAcquire
<1>6. TypeOK'
  BY <1>2, <1>4, <1>5 DEF IInv, TypeOK, Result
<1>7. IdleIsNonBlocking'
  BY <1>4, <1>5 DEF IInv, TypeOK, IdleIsNonBlocking, InSection
<1>8. ASSUME NEW s \in Thread PROVE (Placed(s) /\ Flag(s) /\ Reported(s))'
  <2>1. CASE s = t
    <3>1. mine => ~full \/ AfterAcquire(call[t]) = "leave"
      BY DEF AfterAcquire
    <3>2. mine => full
      <4> SUFFICES ASSUME mine PROVE Cardinality(held[t]) + 1 = Len(Needs(call[t]))
        BY DEF full
      <4>1. Len(Needs(call[t])) = 0 + 1
        BY DEF Needs, Single
      <4>2. Cardinality(held[t]) = 0
        BY <1>3, FS_EmptySet
      <4> QED BY <4>1, <4>2
    <3>3. Placed(t)'
      BY <1>2, <1>3, <1>4, <1>5, <3>1, <3>2 DEF IInv, TypeOK, Placed
    <3>4. Flag(t)'
      BY <1>4, <1>5 DEF IInv, TypeOK, Flag, InSection
    <3>5. Reported(t)'
      BY <1>3, <1>4, <1>5, <3>2 DEF IInv, TypeOK, FileGaveWay, Reported, CarriesOn, Writing, StopsAtAgain
    <3> QED BY <2>1, <3>3, <3>4, <3>5
  <2>2. CASE s # t
    BY <2>2, <1>4 DEF IInv, TypeOK, Placed, Flag, FileGaveWay, Reported, InSection
  <2> QED BY <2>1, <2>2
<1> QED BY <1>6, <1>7, <1>8 DEF IInv

LEMMA NotAcquiredKeeps ==
  ASSUME IInv, NEW t \in Thread, NotAcquired(t)
  PROVE  IInv'
<1>1. TypeOK'
  BY DEF IInv, TypeOK, NotAcquired, GoTo, Placed, Result, Resource, Trouble, AfterRefusal, Suffers, LostTrouble
<1>2. IdleIsNonBlocking'
  BY DEF IInv, TypeOK, IdleIsNonBlocking, NotAcquired, GoTo, InSection, AfterRefusal, Suffers, LostTrouble
<1>3. ASSUME NEW s \in Thread PROVE (Placed(s) /\ Flag(s) /\ Reported(s))'
  <2>1. CASE s = t
    BY <2>1 DEF IInv, TypeOK, NotAcquired, GoTo, Placed, Flag, FileGaveWay, Reported, InSection, Section,
       StopsAtAgain, CarriesOn, Writing, Single, AfterRefusal, Suffers, LostTrouble
  <2>2. CASE s # t
    BY <2>2 DEF IInv, TypeOK, NotAcquired, GoTo, Placed, Flag, FileGaveWay, Reported, InSection, AfterRefusal, Suffers, LostTrouble
  <2> QED BY <2>1, <2>2
<1> QED BY <1>1, <1>2, <1>3 DEF IInv

LEMMA RequestedKeeps ==
  ASSUME IInv, NEW t \in Thread, Requested(t)
  PROVE  IInv'
<1>0. /\ pc[t] = "request" /\ result[t] = "none"
      /\ pc' = [pc EXCEPT ![t] = IF call[t] = "openShell" THEN "leave" ELSE "loop"]
      /\ result' = [result EXCEPT ![t] = IF call[t] = "openShell" THEN "returned" ELSE "none"]
      /\ held' = IF call[t] = "openShell" THEN [held EXCEPT ![t] = {}] ELSE held
      /\ answered' = [answered EXCEPT ![t] = FALSE]
      /\ UNCHANGED <<ctx, link, blocking, shell, tunnels, call, moved, peer, trouble>>
  BY DEF IInv, Placed, Requested, GoTo
<1>1. TypeOK'
  BY <1>0 DEF IInv, TypeOK, Result
<1>2. IdleIsNonBlocking'
  BY DEF IInv, TypeOK, IdleIsNonBlocking, Requested, GoTo, InSection
<1>3. ASSUME NEW s \in Thread PROVE (Placed(s) /\ Flag(s) /\ Reported(s))'
  <2>1. CASE s = t
    BY <2>1 DEF IInv, TypeOK, Requested, GoTo, Placed, Flag, FileGaveWay, Reported, InSection, Section,
       StopsAtAgain, CarriesOn, Writing, Single
  <2>2. CASE s # t
    BY <2>2 DEF IInv, TypeOK, Requested, GoTo, Placed, Flag, FileGaveWay, Reported, InSection
  <2> QED BY <2>1, <2>2
<1> QED BY <1>1, <1>2, <1>3 DEF IInv

LEMMA NotRequestedKeeps ==
  ASSUME IInv, NEW t \in Thread, NotRequested(t)
  PROVE  IInv'
<1>1. TypeOK'
  BY DEF IInv, TypeOK, NotRequested, GoTo, Placed, Result, Resource, Trouble, Suffers, LostTrouble
<1>2. IdleIsNonBlocking'
  BY DEF IInv, TypeOK, IdleIsNonBlocking, NotRequested, GoTo, InSection, Suffers, LostTrouble
<1>3. ASSUME NEW s \in Thread PROVE (Placed(s) /\ Flag(s) /\ Reported(s))'
  <2>1. CASE s = t
    BY <2>1 DEF IInv, TypeOK, NotRequested, GoTo, Placed, Flag, FileGaveWay, Reported, InSection, Section,
       StopsAtAgain, CarriesOn, Writing, Single, Suffers, LostTrouble
  <2>2. CASE s # t
    BY <2>2 DEF IInv, TypeOK, NotRequested, GoTo, Placed, Flag, FileGaveWay, Reported, InSection, Suffers, LostTrouble
  <2> QED BY <2>1, <2>2
<1> QED BY <1>1, <1>2, <1>3 DEF IInv

LEMMA MovesKeeps ==
  ASSUME IInv, NEW t \in Thread, Moves(t)
  PROVE  IInv'
<1>1. TypeOK'
  BY BridgeAssumption DEF IInv, TypeOK, Moves, GoTo, Placed, Result, Resource, Trouble, DataReady
<1>2. IdleIsNonBlocking'
  BY DEF IInv, TypeOK, IdleIsNonBlocking, Moves, GoTo, InSection, DataReady
<1>3. ASSUME NEW s \in Thread PROVE (Placed(s) /\ Flag(s) /\ Reported(s))'
  <2>1. CASE s = t
    BY <2>1 DEF IInv, TypeOK, Moves, GoTo, Placed, Flag, FileGaveWay, Reported, InSection, Section,
       StopsAtAgain, CarriesOn, Writing, Single, DataReady
  <2>2. CASE s # t
    BY <2>2 DEF IInv, TypeOK, Moves, GoTo, Placed, Flag, FileGaveWay, Reported, InSection, DataReady
  <2> QED BY <2>1, <2>2
<1> QED BY <1>1, <1>2, <1>3 DEF IInv

LEMMA FinishesKeeps ==
  ASSUME IInv, NEW t \in Thread, Finishes(t)
  PROVE  IInv'
<1>1. TypeOK'
  BY DEF IInv, TypeOK, Finishes, GoTo, Placed, Result, Resource, Trouble, AfterLoop, Finished, AtEnd
<1>2. IdleIsNonBlocking'
  BY DEF IInv, TypeOK, IdleIsNonBlocking, Finishes, GoTo, InSection, AfterLoop, Finished, AtEnd
<1>3. ASSUME NEW s \in Thread PROVE (Placed(s) /\ Flag(s) /\ Reported(s))'
  <2>1. CASE s = t
    BY <2>1 DEF IInv, TypeOK, Finishes, GoTo, Placed, Flag, FileGaveWay, Reported, InSection, Section,
       StopsAtAgain, CarriesOn, Writing, Single, AfterLoop, Finished, AtEnd
  <2>2. CASE s # t
    BY <2>2 DEF IInv, TypeOK, Finishes, GoTo, Placed, Flag, FileGaveWay, Reported, InSection, AfterLoop, Finished, AtEnd
  <2> QED BY <2>1, <2>2
<1> QED BY <1>1, <1>2, <1>3 DEF IInv

LEMMA StopsAgainKeeps ==
  ASSUME IInv, NEW t \in Thread, StopsAgain(t)
  PROVE  IInv'
<1>1. TypeOK'
  BY DEF IInv, TypeOK, StopsAgain, GoTo, Placed, Result, Resource, Trouble
<1>2. IdleIsNonBlocking'
  BY DEF IInv, TypeOK, IdleIsNonBlocking, StopsAgain, GoTo, InSection
<1>3. ASSUME NEW s \in Thread PROVE (Placed(s) /\ Flag(s) /\ Reported(s))'
  <2>1. CASE s = t
    BY <2>1 DEF IInv, TypeOK, StopsAgain, GoTo, Placed, Flag, FileGaveWay, Reported, InSection, Section,
       StopsAtAgain, CarriesOn, Writing, Single
  <2>2. CASE s # t
    BY <2>2 DEF IInv, TypeOK, StopsAgain, GoTo, Placed, Flag, FileGaveWay, Reported, InSection
  <2> QED BY <2>1, <2>2
<1> QED BY <1>1, <1>2, <1>3 DEF IInv

LEMMA LoopErrorKeeps ==
  ASSUME IInv, NEW t \in Thread, NEW what \in {"lost", "timeout", "server"}, LoopError(t, what)
  PROVE  IInv'
<1>1. TypeOK'
  BY DEF IInv, TypeOK, LoopError, GoTo, Placed, Result, Resource, Trouble, OnError, AfterLoop, Suffers, IgnoresErrors
<1>2. IdleIsNonBlocking'
  BY DEF IInv, TypeOK, IdleIsNonBlocking, LoopError, GoTo, InSection, OnError, AfterLoop, Suffers, IgnoresErrors
<1>3. ASSUME NEW s \in Thread PROVE (Placed(s) /\ Flag(s) /\ Reported(s))'
  <2>1. CASE s = t
    BY <2>1 DEF IInv, TypeOK, LoopError, GoTo, Placed, Flag, FileGaveWay, Reported, InSection, Section,
       StopsAtAgain, CarriesOn, Writing, Single, OnError, AfterLoop, Suffers, IgnoresErrors
  <2>2. CASE s # t
    BY <2>2 DEF IInv, TypeOK, LoopError, GoTo, Placed, Flag, FileGaveWay, Reported, InSection, OnError, AfterLoop, Suffers, IgnoresErrors
  <2> QED BY <2>1, <2>2
<1> QED BY <1>1, <1>2, <1>3 DEF IInv

LEMMA LocalErrorKeeps ==
  ASSUME IInv, NEW t \in Thread, LocalError(t)
  PROVE  IInv'
<1>0. /\ pc[t] = "loop" /\ call[t] \in {"sftpUpload", "sftpDownload"} /\ result[t] = "none"
      /\ pc' = [pc EXCEPT ![t] = "release"]
      /\ trouble' = [trouble EXCEPT ![t] = @ \cup {"local"}]
      /\ \E r \in Result : result' = [result EXCEPT ![t] = r]
      /\ UNCHANGED <<ctx, link, blocking, shell, tunnels, call, held, peer, answered>>
  BY DEF IInv, Placed, LocalError, GoTo, Suffers, Result
<1>1. moved' \in [Thread -> 0 .. Chunks] /\ (\A s \in Thread : s # t => moved'[s] = moved[s])
  <2>1. CASE UNCHANGED moved
    BY <2>1 DEF IInv, TypeOK
  <2>2. CASE AtEnd(t) /\ moved' = [moved EXCEPT ![t] = @ - 1]
    <3>1. moved[t] - 1 \in 0 .. Chunks
      BY <2>2, BridgeAssumption DEF AtEnd
    <3> QED BY <2>2, <3>1 DEF IInv, TypeOK
  <2> QED BY <2>1, <2>2 DEF LocalError
<1>2. TypeOK'
  BY <1>0, <1>1 DEF IInv, TypeOK, Trouble
<1>3. IdleIsNonBlocking'
  BY <1>0 DEF IInv, TypeOK, IdleIsNonBlocking, InSection
<1>4. ASSUME NEW s \in Thread PROVE (Placed(s) /\ Flag(s) /\ Reported(s))'
  <2>1. CASE s = t
    <3>1. Placed(t)' /\ Flag(t)'
      BY <1>0 DEF IInv, TypeOK, Placed, Flag, InSection
    <3>2. FileGaveWay(t)' /\ pc'[t] = "release" /\ call'[t] \notin StopsAtAgain
      BY <1>0 DEF IInv, TypeOK, FileGaveWay, StopsAtAgain
    <3> QED BY <2>1, <3>1, <3>2 DEF Reported
  <2>2. CASE s # t
    BY <2>2, <1>0, <1>1 DEF IInv, TypeOK, Placed, Flag, FileGaveWay, Reported, InSection
  <2> QED BY <2>1, <2>2
<1> QED BY <1>2, <1>3, <1>4 DEF IInv

LEMMA ReadsKeeps ==
  ASSUME IInv, NEW t \in Thread, Reads(t)
  PROVE  IInv'
<1>1. TypeOK'
  BY BridgeAssumption DEF IInv, TypeOK, Reads, GoTo, Placed, Result, Resource, Trouble, DataReady
<1>2. IdleIsNonBlocking'
  BY DEF IInv, TypeOK, IdleIsNonBlocking, Reads, GoTo, InSection, DataReady
<1>3. ASSUME NEW s \in Thread PROVE (Placed(s) /\ Flag(s) /\ Reported(s))'
  <2>1. CASE s = t
    BY <2>1 DEF IInv, TypeOK, Reads, GoTo, Placed, Flag, FileGaveWay, Reported, InSection, Section,
       StopsAtAgain, CarriesOn, Writing, Single, DataReady
  <2>2. CASE s # t
    BY <2>2 DEF IInv, TypeOK, Reads, GoTo, Placed, Flag, FileGaveWay, Reported, InSection, DataReady
  <2> QED BY <2>1, <2>2
<1> QED BY <1>1, <1>2, <1>3 DEF IInv

LEMMA ReleaseAllKeeps ==
  ASSUME IInv, NEW t \in Thread, ReleaseAll(t)
  PROVE  IInv'
<1>1. TypeOK'
  BY DEF IInv, TypeOK, ReleaseAll, GoTo, Placed, Result, Resource, Trouble
<1>2. IdleIsNonBlocking'
  BY DEF IInv, TypeOK, IdleIsNonBlocking, ReleaseAll, GoTo, InSection
<1>3. ASSUME NEW s \in Thread PROVE (Placed(s) /\ Flag(s) /\ Reported(s))'
  <2>1. CASE s = t
    BY <2>1 DEF IInv, TypeOK, ReleaseAll, GoTo, Placed, Flag, FileGaveWay, Reported, InSection, Section,
       StopsAtAgain, CarriesOn, Writing, Single
  <2>2. CASE s # t
    BY <2>2 DEF IInv, TypeOK, ReleaseAll, GoTo, Placed, Flag, FileGaveWay, Reported, InSection
  <2> QED BY <2>1, <2>2
<1> QED BY <1>1, <1>2, <1>3 DEF IInv

LEMMA ReleaseLeavesKeeps ==
  ASSUME IInv, NEW t \in Thread, ReleaseLeaves(t)
  PROVE  IInv'
<1>1. TypeOK'
  BY DEF IInv, TypeOK, ReleaseLeaves, GoTo, Placed, Result, Resource, Trouble, Again
<1>2. IdleIsNonBlocking'
  BY DEF IInv, TypeOK, IdleIsNonBlocking, ReleaseLeaves, GoTo, InSection, Again
<1>3. ASSUME NEW s \in Thread PROVE (Placed(s) /\ Flag(s) /\ Reported(s))'
  <2>1. CASE s = t
    BY <2>1 DEF IInv, TypeOK, ReleaseLeaves, GoTo, Placed, Flag, FileGaveWay, Reported, InSection, Section,
       StopsAtAgain, CarriesOn, Writing, Single, Again
  <2>2. CASE s # t
    BY <2>2 DEF IInv, TypeOK, ReleaseLeaves, GoTo, Placed, Flag, FileGaveWay, Reported, InSection, Again
  <2> QED BY <2>1, <2>2
<1> QED BY <1>1, <1>2, <1>3 DEF IInv

LEMMA LeaveKeeps ==
  ASSUME IInv, NEW t \in Thread, Leave(t)
  PROVE  IInv'
<1>1. TypeOK'
  BY BridgeAssumption DEF IInv, TypeOK, Leave, SwitchesOff, Result, Trouble, NoCall
<1>2. IdleIsNonBlocking'
  <2> SUFFICES ASSUME shell', blocking' PROVE \E s \in Thread : InSection(s)'
    BY DEF IdleIsNonBlocking
  <2>1. ~SwitchesOff(t) /\ blocking /\ shell /\ ~InSection(t)
    BY DEF Leave, SwitchesOff, InSection
  <2>2. PICK s \in Thread : InSection(s)
    BY <2>1 DEF IInv, IdleIsNonBlocking
  <2> QED BY <2>1, <2>2 DEF IInv, TypeOK, Leave, InSection
<1>3. ASSUME NEW s \in Thread PROVE (Placed(s) /\ Flag(s) /\ Reported(s))'
  <2>1. CASE s = t
    BY <2>1 DEF IInv, TypeOK, Leave, Placed, Flag, FileGaveWay, Reported, InSection, NoCall
  <2>2. CASE s # t
    BY <2>2 DEF IInv, TypeOK, Leave, SwitchesOff, Placed, Flag, FileGaveWay, Reported, InSection
  <2> QED BY <2>1, <2>2
<1> QED BY <1>1, <1>2, <1>3 DEF IInv

LEMMA TimeOutKeeps ==
  ASSUME IInv, NEW t \in Thread, TimeOut(t)
  PROVE  IInv'
<1>1. CASE LoopError(t, "timeout")
  BY <1>1, LoopErrorKeeps
<1>2. CASE /\ \/ pc[t] = "acquire" /\ NextNeed(t) # "local" /\ GoTo(t, AfterRefusal(t), "failed")
              \/ pc[t] = "request" /\ GoTo(t, "release", "failed")
              \/ pc[t] = "read" /\ GoTo(t, "leave", "returned")
           /\ Suffers(t, {"timeout"})
           /\ UNCHANGED <<ctx, link, blocking, shell, tunnels, call, held, moved, peer, answered>>
  <2>1. TypeOK'
    BY <1>2 DEF IInv, TypeOK, GoTo, Suffers, AfterRefusal, Result, Trouble
  <2>2. IdleIsNonBlocking'
    BY <1>2 DEF IInv, TypeOK, IdleIsNonBlocking, GoTo, AfterRefusal, InSection
  <2>3. ASSUME NEW s \in Thread PROVE (Placed(s) /\ Flag(s) /\ Reported(s))'
    <3>1. CASE s = t
      BY <3>1, <1>2 DEF IInv, TypeOK, GoTo, Suffers, AfterRefusal, Placed, Flag, FileGaveWay, Reported, InSection,
         CarriesOn, Writing, StopsAtAgain, Single
    <3>2. CASE s # t
      BY <3>2, <1>2 DEF IInv, TypeOK, GoTo, Suffers, Placed, Flag, FileGaveWay, Reported, InSection
    <3> QED BY <3>1, <3>2
  <2> QED BY <2>1, <2>2, <2>3 DEF IInv
<1>3. CASE /\ pc[t] = "release"
           /\ GoTo(t, "leave", result[t]) /\ Suffers(t, {"timeout"})
           /\ held' = [held EXCEPT ![t] = @ \ {"local"}]
           /\ UNCHANGED <<ctx, link, blocking, shell, tunnels, call, moved, peer, answered>>
  <2>1. TypeOK'
    BY <1>3 DEF IInv, TypeOK, GoTo, Suffers, Result, Trouble
  <2>2. IdleIsNonBlocking'
    BY <1>3 DEF IInv, TypeOK, IdleIsNonBlocking, GoTo, InSection
  <2>3. ASSUME NEW s \in Thread PROVE (Placed(s) /\ Flag(s) /\ Reported(s))'
    BY <1>3 DEF IInv, TypeOK, GoTo, Suffers, Placed, Flag, FileGaveWay, Reported, InSection
  <2> QED BY <2>1, <2>2, <2>3 DEF IInv
<1> QED BY <1>1, <1>2, <1>3 DEF TimeOut

(* Steps that leave the places, the calls and what they report alone.      *)
LEMMA OutsideKeeps ==
  ASSUME IInv,
         \/ LoseLink
         \/ \E t \in Thread : Peer(t) \/ Disconnect(t) \/ UseAfterFree(t)
         \/ UNCHANGED vars
  PROVE  IInv'
<1>1. ASSUME LoseLink \/ (\E t \in Thread : Disconnect(t) \/ UseAfterFree(t)) \/ UNCHANGED vars
      PROVE  IInv'
  <2>1. /\ ctx' \in {"open", "freed", "crashed"} /\ link' \in {"up", "lost"}
        /\ shell' \in BOOLEAN /\ tunnels' \in 0 .. 1
        /\ UNCHANGED <<blocking, threadVars>>
        /\ (shell' => shell)
    <3>1. CASE UNCHANGED vars
      BY <3>1 DEF IInv, TypeOK, vars
    <3>2. CASE LoseLink
      BY <3>2 DEF IInv, TypeOK, LoseLink
    <3>3. CASE \E t \in Thread : Disconnect(t)
      <4>1. /\ ctx' = "freed" /\ tunnels' = 0 /\ ~shell'
            /\ UNCHANGED <<link, blocking, threadVars>>
        BY <3>3 DEF Disconnect
      <4>2. shell' = FALSE
        BY <3>3 DEF Disconnect
      <4>3. shell' \in BOOLEAN
        BY <4>2
      <4>4. link' \in {"up", "lost"} /\ tunnels' \in 0 .. 1
        BY <4>1 DEF IInv, TypeOK
      <4> QED BY <4>1, <4>3, <4>4
    <3>4. CASE \E t \in Thread : UseAfterFree(t)
      BY <3>4 DEF IInv, TypeOK, UseAfterFree
    <3> QED BY <1>1, <3>1, <3>2, <3>3, <3>4
  <2>2. TypeOK'
    BY <2>1 DEF IInv, TypeOK, threadVars
  <2>3. IdleIsNonBlocking'
    BY <2>1 DEF IInv, IdleIsNonBlocking, InSection, threadVars
  <2>4. ASSUME NEW s \in Thread PROVE (Placed(s) /\ Flag(s) /\ Reported(s))'
    BY <2>1 DEF IInv, Placed, Flag, FileGaveWay, Reported, InSection, threadVars
  <2> QED BY <2>2, <2>3, <2>4 DEF IInv
<1>2. ASSUME NEW t \in Thread, Answer(t) \/ Feed(t)
      PROVE  IInv'
  <2>1. /\ answered' \in [Thread -> BOOLEAN]
        /\ UNCHANGED <<ctx, link, blocking, shell, tunnels, pc, call, held, moved, result, trouble>>
    BY <1>2 DEF IInv, TypeOK, Answer, Feed
  <2>2. peer' \in [Thread -> 0 .. Chunks + 1]
    <3>1. moved[t] + 1 \in 0 .. Chunks + 1
      BY BridgeAssumption DEF IInv, TypeOK
    <3> QED BY <1>2, <3>1 DEF IInv, TypeOK, Answer, Feed
  <2>3. TypeOK'
    BY <2>1, <2>2 DEF IInv, TypeOK
  <2>4. IdleIsNonBlocking'
    BY <2>1 DEF IInv, IdleIsNonBlocking, InSection
  <2>5. ASSUME NEW s \in Thread PROVE (Placed(s) /\ Flag(s) /\ Reported(s))'
    BY <2>1 DEF IInv, Placed, Flag, FileGaveWay, Reported, InSection
  <2> QED BY <2>3, <2>4, <2>5 DEF IInv
<1> QED BY <1>1, <1>2 DEF Peer

LEMMA NextKeeps == IInv /\ [Next]_vars => IInv'
<1> SUFFICES ASSUME IInv, [Next]_vars PROVE IInv'
  OBVIOUS
<1>1. CASE LoseLink \/ (\E t \in Thread : Peer(t) \/ Disconnect(t)) \/ UNCHANGED vars
  BY <1>1, OutsideKeeps
<1>2. CASE \E t \in Thread : \E c \in CallsOf[t] : Begin(t, c)
  BY <1>2, BeginKeeps
<1>3. CASE \E t \in Thread : Step(t)
  <2> PICK t \in Thread : Step(t)
    BY <1>3
  <2>1. CASE Acquired(t) \/ NotAcquired(t) \/ Requested(t) \/ NotRequested(t)
    BY <2>1, AcquiredKeeps, NotAcquiredKeeps, RequestedKeeps, NotRequestedKeeps
  <2>2. CASE Moves(t) \/ Finishes(t) \/ StopsAgain(t) \/ (link = "lost" /\ LoopError(t, "lost"))
    BY <2>2, MovesKeeps, FinishesKeeps, StopsAgainKeeps, LoopErrorKeeps
  <2>3. CASE Reads(t) \/ ReleaseAll(t) \/ ReleaseLeaves(t) \/ Leave(t)
    BY <2>3, ReadsKeeps, ReleaseAllKeeps, ReleaseLeavesKeeps, LeaveKeeps
  <2>4. CASE TimeOut(t) \/ UseAfterFree(t)
    BY <2>4, TimeOutKeeps, OutsideKeeps
  <2>5. CASE ServerError(t) \/ LocalError(t)
    BY <2>5, LoopErrorKeeps, LocalErrorKeeps DEF ServerError
  <2> QED BY <2>1, <2>2, <2>3, <2>4, <2>5 DEF Step
<1> QED BY <1>1, <1>2, <1>3 DEF Next

THEOREM Inductive == Spec => []IInv
BY InitIInv, NextKeeps, PTL DEF Spec, SafetySpec

(* The shared blocking mode of ssh_bridge.c (472, 489/497, 534/560, ...):  *)
(* with a shell open and no call inside its section the session does not   *)
(* block, so that the terminal's read() may poll it.                       *)
THEOREM IdleIsNonBlockingHolds == Spec => []IdleIsNonBlocking
BY Inductive, PTL DEF IInv

(* The retrying loops (491-496, 763-774, 825-832, 598-621) never report a  *)
(* part for the whole, whatever the other calls do to the mode, unless the *)
(* local file of an SFTP transfer gives way (763, 834).                    *)
THEOREM WholeOrReportedHolds == Spec => []WholeOrReported
<1>1. IInv => WholeOrReported
  BY DEF IInv, FileGaveWay, Reported, WholeOrReported
<1> QED BY <1>1, Inductive, PTL

(* exec, sendBindRequest and sftpList read to the end of the output unless *)
(* another call switched the mode, a wait timed out, the link was lost or  *)
(* the server answered with an error.                                      *)
THEOREM WholeWhenAloneHolds == Spec => []WholeWhenAlone
<1>1. IInv => WholeWhenAlone
  BY DEF IInv, FileGaveWay, Reported, WholeWhenAlone
<1> QED BY <1>1, Inductive, PTL

(* On every path, early returns and errors of the server and of the local  *)
(* file included, a call that keeps its mode and its link and times out    *)
(* nowhere has released what it opened.                                    *)
THEOREM ReleasedWhenAloneHolds == Spec => []ReleasedWhenAlone
<1>1. IInv => ReleasedWhenAlone
  BY DEF IInv, Reported, ReleasedWhenAlone
<1> QED BY <1>1, Inductive, PTL

(* The state keeps its types.                                              *)
THEOREM TypeCorrect == Spec => []TypeOK
BY Inductive, PTL DEF IInv
=============================================================================
