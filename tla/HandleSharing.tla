--------------------------- MODULE HandleSharing ---------------------------
(* Who holds the SSH connections of one host: the session registry, which  *)
(* parks a connection under an id for a later screen, the terminals, the   *)
(* detail screen, the file browser and the screens that borrow a terminal's *)
(* connection (Docker, logs, container and process details).               *)
(*                                                                         *)
(* Each screen has a main thread, which runs its lifecycle callbacks, and  *)
(* one worker, whose steps fall between them.  What is run over a          *)
(* connection is left out.                                                 *)
(* The code loses connections and hands them to two owners in a few known  *)
(* ways; each is recorded where it happens, in lost or in crossed.         *)
EXTENDS Naturals, FiniteSets, Sequences, SequencesExt

CONSTANTS
  Detail, Browser, Helper,   \* the screens of each kind
  Conn,                      \* bound: connections known at a time
  MaxIds,                    \* bound: session ids drawn from the clock
  MaxScreens                 \* bound: screens that exist at a time

None == 0
ASSUME SharingAssumption ==
  /\ MaxIds \in Nat /\ MaxScreens \in Nat /\ None \notin Conn
  /\ IsFiniteSet(Detail) /\ IsFiniteSet(Browser) /\ IsFiniteSet(Helper)

VARIABLES
  open,            \* connections made and not yet freed
  parked,          \* sharedHandleMap
  sessions,        \* the ids of the sessions listed for the host, in order
  nextId,          \* the next id the clock gives
  terminal,        \* sessionMap: the TerminalSession of an id
  shell,           \* the connection of each terminal
  detail, browser, helper,   \* the fields and the worker of each screen
  lost,            \* connections dropped in one of the known ways
  crossed          \* connections that got a second owner in one of them

termVars == <<sessions, nextId, terminal, shell>>
vars == <<open, parked, termVars, detail, browser, helper, lost, crossed>>

Ids  == 1 .. MaxIds
Endpoint == MaxIds + 1        \* buildEndpointSessionId, the same for every browser

NoDetail  == [screen |-> "closed", conn |-> None, keep |-> FALSE, id |-> None, at |-> "idle"]
NoBrowser == [screen |-> "closed", conn |-> None, shared |-> FALSE, prefer |-> TRUE,
              id |-> None, at |-> "idle",
              borrowed |-> FALSE]     \* history: conn is a terminal's
NoHelper  == [screen |-> "closed", conn |-> None, shared |-> FALSE, at |-> "idle"]

(* A screen that is destroyed and whose worker is done is gone.            *)
Ended(r, blank) == IF r.screen = "closed" /\ r.at = "idle" THEN blank ELSE r
SetDetail(d, r)  == detail'  = [detail EXCEPT ![d] = Ended(r, NoDetail)]
SetBrowser(b, r) == browser' = [browser EXCEPT ![b] = Ended(r, NoBrowser)]
SetHelper(s, r)  == helper'  = [helper EXCEPT ![s] = Ended(r, NoHelper)]
Room == Cardinality({d \in Detail : detail[d] # NoDetail})
        + Cardinality({b \in Browser : browser[b] # NoBrowser})
        + Cardinality({s \in Helper : helper[s] # NoHelper}) < MaxScreens

TypeOK ==
  /\ open \subseteq Conn /\ lost \subseteq Conn /\ crossed \subseteq Conn
  /\ parked \in [Ids \cup {Endpoint} -> Conn \cup {None}]
  /\ sessions \in Seq(Ids) /\ nextId \in 1 .. MaxIds + 1
  /\ terminal \in [Ids -> {"none", "dead", "open"}]
  /\ shell \in [Ids -> Conn \cup {None}]
  /\ detail \in [Detail -> [screen : {"closed", "started", "stopped"},
       conn : Conn \cup {None}, keep : BOOLEAN, id : Ids \cup {None},
       at : {"idle", "connect", "register", "park", "parkNew", "keep", "keepNew"}]]
  /\ browser \in [Browser -> [screen : {"closed", "open"}, conn : Conn \cup {None},
       shared : BOOLEAN, prefer : BOOLEAN, id : Ids \cup {Endpoint, None},
       at : {"idle", "connect", "list", "reconnect", "relist", "forget"}, borrowed : BOOLEAN]]
  /\ helper \in [Helper -> [screen : {"closed", "open"}, conn : Conn \cup {None},
       shared : BOOLEAN, at : {"idle", "connect", "borrowed"}]]

Init ==
  /\ open = {} /\ parked = [i \in Ids \cup {Endpoint} |-> None]
  /\ sessions = <<>> /\ nextId = 1
  /\ terminal = [i \in Ids |-> "none"] /\ shell = [i \in Ids |-> None]
  /\ detail = [d \in Detail |-> NoDetail] /\ browser = [b \in Browser |-> NoBrowser]
  /\ helper = [s \in Helper |-> NoHelper]
  /\ lost = {} /\ crossed = {}
-----------------------------------------------------------------------------
(* Connections and the registry.                                           *)
Known == open \cup lost \cup crossed \cup {parked[i] : i \in Ids \cup {Endpoint}} \cup {shell[i] : i \in Ids}
         \cup {detail[d].conn : d \in Detail} \cup {browser[b].conn : b \in Browser}
         \cup {helper[s].conn : s \in Helper}
Fresh(c) == c \in Conn \ Known
Open(c) == open' = open \cup {c}
Free(c) == open' = open \ {c}

Listed == ToSet(sessions)
Connected == {i \in Listed : terminal[i] = "open"}
FindConnected == sessions[Min({k \in DOMAIN sessions : terminal[sessions[k]] = "open"})]

(* Mutants: putIfAbsent for put; get for remove.                           *)
WithParkedIfAbsent(i, c) ==
  IF c = None \/ parked[i] # None THEN parked ELSE [parked EXCEPT ![i] = c]
TakenAndLeft(i) == parked
HasTerminal(i) == i \in Ids /\ terminal[i] # "none"
WithParked(i, c) == IF c = None THEN parked ELSE [parked EXCEPT ![i] = c]
Overwritten(i, c) == IF c = None THEN {} ELSE {parked[i]} \ {None, c}
Taken(i) == [parked EXCEPT ![i] = None]
-----------------------------------------------------------------------------
(* Terminals.  A TerminalSession connects, and ends, in one step.          *)
SetTerminal(i, c) ==
  /\ terminal' = [terminal EXCEPT ![i] = IF c = None THEN "dead" ELSE "open"]
  /\ shell' = [shell EXCEPT ![i] = c]

Connects(i) == \/ \E c \in Conn : Fresh(c) /\ Open(c) /\ SetTerminal(i, c)
               \/ UNCHANGED open /\ SetTerminal(i, None)

(* A session under a new id: SshTerminalActivity for a host with none, or  *)
(* a new container of BackTerminalActivity.                                *)
NewTerminal ==
  /\ nextId \in Ids /\ nextId' = nextId + 1 /\ sessions' = Append(sessions, nextId)
  /\ Connects(nextId)
  /\ UNCHANGED <<parked, detail, browser, helper, lost, crossed>>

(* SshTerminalActivity, or a reconnection, where no session is connected.  *)
ReconnectTerminal ==
  /\ sessions # <<>> /\ Connected = {} /\ Connects(Head(sessions))
  /\ UNCHANGED <<parked, sessions, nextId, detail, browser, helper, lost, crossed>>

(* BackTerminalActivity makes a container for a listed session: it takes   *)
(* over the parked connection, or connects.                                *)
RestoreTerminal(i) ==
  /\ i \in Listed /\ terminal[i] = "none"
  /\ parked' = Taken(i)
  /\ IF parked[i] # None THEN SetTerminal(i, parked[i]) /\ UNCHANGED open ELSE Connects(i)
  /\ UNCHANGED <<sessions, nextId, detail, browser, helper, lost, crossed>>

EndTerminal(i) ==
  /\ terminal[i] = "open" /\ SetTerminal(i, None) /\ Free(shell[i])
  /\ UNCHANGED <<parked, sessions, nextId, detail, browser, helper, lost, crossed>>

CloseContainer(i) ==
  /\ i \in Listed /\ terminal[i] # "none"
  /\ sessions' = RemoveFirst(sessions, i)
  /\ terminal' = [terminal EXCEPT ![i] = "none"] /\ shell' = [shell EXCEPT ![i] = None]
  /\ Free(shell[i])
  /\ UNCHANGED <<parked, nextId, detail, browser, helper, lost, crossed>>
-----------------------------------------------------------------------------
(* HostDetailActivity: the connection it makes is parked for a terminal,   *)
(* and kept by the screen until it is destroyed.  The loop that follows    *)
(* only uses the connection; a start that finds it running does nothing.   *)
OpenDetail(d) ==
  /\ detail[d] = NoDetail /\ Room
  /\ detail' = [detail EXCEPT ![d] = [NoDetail EXCEPT !.screen = "started", !.at = "connect"]]
  /\ UNCHANGED <<open, parked, termVars, browser, helper, lost, crossed>>

StartDetail(d) ==
  /\ detail[d].screen = "stopped"
  /\ \E at \in {detail[d].at} \cup (IF detail[d].at = "idle" THEN {"connect"} ELSE {}) :
       SetDetail(d, [detail[d] EXCEPT !.screen = "started", !.at = at])
  /\ UNCHANGED <<open, parked, termVars, browser, helper, lost, crossed>>

(* releaseSshIfNeeded; known way: the worker has parked the connection and *)
(* has not yet said that it is to be kept.                                 *)
Released(d) == IF detail[d].keep THEN None ELSE detail[d].conn
AsParked(d) == IF detail[d].at \in {"keep", "keepNew"} THEN {detail[d].conn} \ {None} ELSE {}

StopDetail(d) ==
  /\ detail[d].screen = "started"
  /\ SetDetail(d, [detail[d] EXCEPT !.screen = "stopped",
                                    !.conn = IF detail[d].keep THEN @ ELSE None])
  /\ Free(Released(d)) /\ crossed' = crossed \cup AsParked(d)
  /\ UNCHANGED <<parked, termVars, browser, helper, lost>>

DestroyDetail(d) ==
  /\ detail[d].screen = "stopped"
  /\ SetDetail(d, [detail[d] EXCEPT !.screen = "closed", !.conn = None])
  /\ Free(Released(d)) /\ crossed' = crossed \cup AsParked(d)
  /\ UNCHANGED <<parked, termVars, browser, helper, lost>>

(* The worker: connectSsh.  Known way: an earlier run was released between *)
(* its check and its keepSharedHandle, and what this one makes is not      *)
(* parked, nor freed.                                                      *)
ConnectDetail(d) ==
  /\ detail[d].at = "connect"
  /\ \/ /\ detail[d].conn # None
        /\ SetDetail(d, [detail[d] EXCEPT !.at = "idle"])
        /\ UNCHANGED <<open, lost>>
     \/ \E c \in Conn :
        /\ detail[d].conn = None /\ Fresh(c) /\ Open(c)
        /\ SetDetail(d, [detail[d] EXCEPT !.conn = c, !.at = "register"])
        /\ lost' = IF detail[d].keep THEN lost \cup {c} ELSE lost
     \/ /\ detail[d].conn = None /\ SetDetail(d, [detail[d] EXCEPT !.at = "idle"])
        /\ UNCHANGED <<open, lost>>
  /\ UNCHANGED <<parked, termVars, browser, helper, crossed>>

(* registerSharedSessionHandle, up to the decision to park.  Known way: a  *)
(* terminal has the id, and the screen that would free the connection is   *)
(* destroyed.                                                              *)
RegisterDetail(d) ==
  LET none == detail[d].conn = None \/ detail[d].keep
      old  == Head(sessions) IN
  /\ detail[d].at = "register"
  /\ \/ /\ none
        /\ SetDetail(d, [detail[d] EXCEPT !.at = "idle"]) 
        /\ UNCHANGED <<termVars, lost>>
     \/ /\ ~none /\ sessions # <<>>
        /\ SetDetail(d, [detail[d] EXCEPT !.id = IF HasTerminal(old) THEN None ELSE old,
                                 !.at = IF HasTerminal(old) THEN "idle" ELSE "park"])
        /\ lost' = IF HasTerminal(old) /\ detail[d].screen = "closed"
                     THEN lost \cup {detail[d].conn} ELSE lost
        /\ UNCHANGED termVars
     \/ /\ ~none /\ sessions = <<>> /\ nextId \in Ids
        /\ SetDetail(d, [detail[d] EXCEPT !.id = nextId, !.at = "parkNew"])
        /\ sessions' = <<nextId>> /\ nextId' = nextId + 1
        /\ UNCHANGED <<terminal, shell, lost>>
  /\ UNCHANGED <<open, parked, browser, helper, crossed>>

(* The field is read again; a destroyed screen has taken it away.          *)
ParkDetail(d) ==
  /\ detail[d].at \in {"park", "parkNew"}
  /\ parked' = WithParked(detail[d].id, detail[d].conn)
  /\ lost' = lost \cup Overwritten(detail[d].id, detail[d].conn)
  /\ SetDetail(d, [detail[d] EXCEPT !.at = IF @ = "park" THEN "keep" ELSE "keepNew"])
  /\ UNCHANGED <<open, termVars, browser, helper, crossed>>

KeepDetail(d) ==
  /\ detail[d].at \in {"keep", "keepNew"}
  /\ SetDetail(d, [detail[d] EXCEPT !.keep = TRUE, !.id = None, !.at = "idle"])
  /\ sessions' = IF detail[d].at = "keepNew" \/ detail[d].id \in Listed
                   THEN sessions ELSE Append(sessions, detail[d].id)
  /\ UNCHANGED <<open, parked, nextId, terminal, shell, browser, helper, lost, crossed>>
-----------------------------------------------------------------------------
(* SftpActivity.  The detail screen and the list of SFTP sessions name the *)
(* id of a session they know, or the browser's own; of an id that no       *)
(* terminal has it takes over the parked connection.                       *)
Hints == {None, Endpoint} \cup 1 .. nextId - 1

OpenBrowser(b) == \E hint \in Hints :
  /\ browser[b] = NoBrowser /\ Room
  /\ LET free == hint # None /\ ~HasTerminal(hint)
         id   == IF free THEN hint ELSE Endpoint
         conn == IF free THEN parked[id] ELSE None IN
     /\ parked' = IF free THEN Taken(id) ELSE parked
     /\ browser' = [browser EXCEPT ![b] =
          [NoBrowser EXCEPT !.screen = "open", !.id = id, !.at = "connect", !.conn = conn,
                            !.shared = conn # None, !.prefer = conn = None]]
  /\ UNCHANGED <<open, termVars, detail, helper, lost, crossed>>

(* loadFiles again, and the commands, which only connect.                  *)
Reload(b) ==
  /\ browser[b].screen = "open" /\ browser[b].at = "idle"
  /\ SetBrowser(b, [browser[b] EXCEPT !.at = "connect"])
  /\ UNCHANGED <<open, parked, termVars, detail, helper, lost, crossed>>

(* ensureConnected: a connection of its own when that is preferred, then   *)
(* SessionConnector.acquire.  Known way: the screen has been destroyed.    *)
BrowserGets(b, c, isShared, isBorrowed) ==
  /\ SetBrowser(b, [browser[b] EXCEPT !.conn = c, !.shared = isShared,
                                !.borrowed = isBorrowed,
                                !.at = IF @ = "connect" THEN "list" ELSE "relist"])

ConnectBrowser(b) ==
  LET r == browser[b] IN
  /\ r.at \in {"connect", "reconnect"}
  /\ \/ r.conn # None /\ BrowserGets(b, r.conn, r.shared, r.borrowed) /\ UNCHANGED <<open, lost>>
     \/ \E c \in Conn :
        /\ r.conn = None /\ (r.prefer \/ Connected = {})
        /\ Fresh(c) /\ Open(c) /\ BrowserGets(b, c, FALSE, FALSE)
        /\ lost' = IF r.screen = "closed" THEN lost \cup {c} ELSE lost
     \/ /\ r.conn = None /\ Connected # {}
        /\ BrowserGets(b, shell[FindConnected], TRUE, TRUE)
        /\ UNCHANGED <<open, lost>>
     \/ /\ r.conn = None /\ Connected = {} /\ SetBrowser(b, [r EXCEPT !.at = "idle"])
        /\ UNCHANGED <<open, lost>>
  /\ UNCHANGED <<parked, termVars, detail, helper, crossed>>

(* A list that is not valid, or empty over a shared connection, makes the  *)
(* screen let go of that connection.  Known way: it was not a terminal's.  *)
ListedWell(b) ==
  /\ browser[b].at \in {"list", "relist"}
  /\ SetBrowser(b, [browser[b] EXCEPT !.at = "idle"])
  /\ UNCHANGED <<open, parked, termVars, detail, helper, lost, crossed>>

DropShared(b) ==
  LET c == browser[b].conn IN
  /\ browser[b].at = "list" /\ browser[b].shared
  /\ SetBrowser(b, [browser[b] EXCEPT !.conn = None, !.shared = FALSE, !.prefer = TRUE,
                              !.borrowed = FALSE, !.at = "reconnect"])
  /\ lost' = IF browser[b].borrowed THEN lost ELSE lost \cup ({c} \ {None})
  /\ UNCHANGED <<open, parked, termVars, detail, helper, crossed>>

(* The second list, or the one of a connection of its own, is not valid:   *)
(* the connection is freed, and in a second step forgotten.                *)
DropOwn(b) ==
  /\ \/ browser[b].at = "list" /\ ~browser[b].shared
     \/ browser[b].at = "relist"
  /\ IF browser[b].shared THEN UNCHANGED open ELSE Free(browser[b].conn)
  /\ SetBrowser(b, [browser[b] EXCEPT !.at = "forget"])
  /\ UNCHANGED <<parked, termVars, detail, helper, lost, crossed>>

ForgetOwn(b) ==
  /\ browser[b].at = "forget"
  /\ SetBrowser(b, [browser[b] EXCEPT !.conn = None, !.shared = FALSE, !.prefer = TRUE,
                              !.borrowed = FALSE, !.at = "idle"])
  /\ UNCHANGED <<open, parked, termVars, detail, helper, lost, crossed>>

(* onDestroy parks what the screen uses.  Known ways: it is a terminal's,  *)
(* it has just been freed by the worker, or something was parked there.    *)
DestroyBrowser(b) ==
  LET c == browser[b].conn IN
  /\ browser[b].screen = "open"
  /\ parked' = WithParked(browser[b].id, c)
  /\ SetBrowser(b, [browser[b] EXCEPT !.screen = "closed", !.conn = None, !.borrowed = FALSE,
                              !.shared = IF c = None THEN @ ELSE TRUE])
  /\ lost' = lost \cup Overwritten(browser[b].id, c)
  /\ crossed' = IF browser[b].borrowed \/ browser[b].at = "forget"
                   THEN crossed \cup ({c} \ {None}) ELSE crossed
  /\ UNCHANGED <<open, termVars, detail, helper>>
-----------------------------------------------------------------------------
(* DockerActivity, DockerLogsActivity, DockerContainerDetailActivity and    *)
(* ProcessDetailActivity: a terminal's connection is stored, then that it   *)
(* is one; of a fresh one the flag stays down.                             *)
OpenHelper(s) ==
  /\ helper[s] = NoHelper /\ Room
  /\ helper' = [helper EXCEPT ![s] = [NoHelper EXCEPT !.screen = "open", !.at = "connect"]]
  /\ UNCHANGED <<open, parked, termVars, detail, browser, lost, crossed>>

HelperGets(s, c, at) == SetHelper(s, [helper[s] EXCEPT !.conn = c, !.at = at])

ConnectHelper(s) ==
  /\ helper[s].at = "connect" /\ helper[s].conn = None
  /\ \/ /\ Connected # {} /\ HelperGets(s, shell[FindConnected], "borrowed")
        /\ UNCHANGED <<open, lost>>
     \/ \E c \in Conn :
        /\ Connected = {} /\ Fresh(c) /\ Open(c) /\ HelperGets(s, c, "idle")
        /\ lost' = IF helper[s].screen = "closed" THEN lost \cup {c} ELSE lost
     \/ /\ Connected = {} /\ HelperGets(s, None, "idle")
        /\ UNCHANGED <<open, lost>>
  /\ UNCHANGED <<parked, termVars, detail, browser, crossed>>

StoreShared(s) ==
  /\ helper[s].at = "borrowed"
  /\ SetHelper(s, [helper[s] EXCEPT !.shared = TRUE, !.at = "idle"])
  /\ UNCHANGED <<open, parked, termVars, detail, browser, lost, crossed>>

ReloadHelper(s) ==
  /\ helper[s].screen = "open" /\ helper[s].at = "idle" /\ helper[s].conn = None
  /\ SetHelper(s, [helper[s] EXCEPT !.at = "connect"])
  /\ UNCHANGED <<open, parked, termVars, detail, browser, lost, crossed>>

(* releaseSsh.  Known way: between the two stores a terminal's connection  *)
(* looks like the screen's own.                                            *)
(* Mutant: the flag is not looked at.                                      *)
ReleasesAny(s) == helper[s].conn
Releases(s) == IF helper[s].shared THEN None ELSE helper[s].conn
DestroyHelper(s) ==
  LET c == helper[s].conn IN
  /\ helper[s].screen = "open"
  /\ SetHelper(s, [helper[s] EXCEPT !.screen = "closed", !.conn = None, !.shared = FALSE])
  /\ Free(Releases(s))
  /\ crossed' = IF helper[s].at = "borrowed" THEN crossed \cup {c} ELSE crossed
  /\ UNCHANGED <<parked, termVars, detail, browser, lost>>
-----------------------------------------------------------------------------
TerminalStep == NewTerminal \/ ReconnectTerminal
                \/ \E i \in Ids : RestoreTerminal(i) \/ EndTerminal(i) \/ CloseContainer(i)
DetailStep(d) == \/ OpenDetail(d) \/ StartDetail(d) \/ StopDetail(d) \/ DestroyDetail(d)
                 \/ ConnectDetail(d) \/ RegisterDetail(d) \/ ParkDetail(d) \/ KeepDetail(d)
BrowserStep(b) == \/ OpenBrowser(b) \/ Reload(b) \/ ConnectBrowser(b) \/ ListedWell(b)
                  \/ DropShared(b) \/ DropOwn(b) \/ ForgetOwn(b) \/ DestroyBrowser(b)
HelperStep(s) == \/ OpenHelper(s) \/ ConnectHelper(s) \/ StoreShared(s) \/ ReloadHelper(s)
                 \/ DestroyHelper(s)

Next == \/ TerminalStep
        \/ \E d \in Detail : DetailStep(d)
        \/ \E b \in Browser : BrowserStep(b)
        \/ \E s \in Helper : HelperStep(s)

Spec == Init /\ [][Next]_vars
-----------------------------------------------------------------------------
(* Whoever will free the connection, or hand it on.  A screen that uses a   *)
(* terminal's connection, and a detail screen that has parked its own, are  *)
(* not among its owners.                                                   *)
Owners(c) ==
  {<<"parked", i>> : i \in {j \in Ids \cup {Endpoint} : parked[j] = c}}
  \cup {<<"terminal", i>> : i \in {j \in Ids : terminal[j] = "open" /\ shell[j] = c}}
  \cup {<<"detail", d>> : d \in {e \in Detail : detail[e].conn = c /\ ~detail[e].keep
          /\ \/ detail[e].screen # "closed" /\ detail[e].at \notin {"keep", "keepNew"}
             \/ detail[e].at \in {"register", "park", "parkNew"}}}
  \cup {<<"browser", b>> : b \in {e \in Browser : browser[e].conn = c
          /\ ~browser[e].borrowed /\ browser[e].screen = "open"}}
  \cup {<<"helper", s>> : s \in {e \in Helper : helper[e].conn = c /\ ~helper[e].shared
          /\ helper[e].at # "borrowed" /\ helper[e].screen = "open"}}

(* No connection is forgotten: but for the known ways to lose one, every   *)
(* connection that is open has somebody who will free it or hand it on,    *)
(* through every order of the lifecycle callbacks and the workers.         *)
NoneForgotten == \A c \in open \ lost : Owners(c) # {}

(* SessionManager.getAndRemoveSharedHandle hands a connection to one       *)
(* screen only: apart from the known ways, nobody else holds what a        *)
(* terminal, the registry or a screen owns.                                *)
OneOwner == \A c \in open \ crossed : \A p, q \in Owners(c) : p = q

(* What is parked for a later screen and what a terminal works with has    *)
(* not been freed by anybody else, the known ways excepted.                *)
OwnedIsOpen ==
  /\ \A i \in Ids \cup {Endpoint} : parked[i] # None => parked[i] \in open \cup crossed
  /\ \A i \in Ids : terminal[i] = "open" => shell[i] \in open \cup crossed
=============================================================================
