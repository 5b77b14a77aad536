------------------------ MODULE HandleSharingProofs ------------------------
(* Theorems of HandleSharing for every set of screens, connections and     *)
(* ids.  A slot is a place that may hold a connection; the invariant says  *)
(* that an open connection sits in one slot and that what sits in a slot   *)
(* is open, but for the known ways.                                        *)
EXTENDS HandleSharing, SequenceTheorems, WellFoundedInduction, TLAPS

Places == Ids \cup {Endpoint}
Slots == ({"parked"} \X Places) \cup ({"terminal"} \X Ids) \cup ({"detail"} \X Detail)
         \cup ({"browser"} \X Browser) \cup ({"helper"} \X Helper)

(* What a screen holds as its own, by its fields alone: a screen that has  *)
(* been destroyed and whose worker still runs counts.                      *)
DetailHeld(r)  == IF r.keep \/ r.at \in {"keep", "keepNew"} THEN None ELSE r.conn
BrowserHeld(r) == IF r.borrowed THEN None ELSE r.conn
HelperHeld(r)  == IF r.shared \/ r.at = "borrowed" THEN None ELSE r.conn
Held(h) ==
  IF h[1] = "parked" THEN parked[h[2]]
  ELSE IF h[1] = "terminal" THEN shell[h[2]]
  ELSE IF h[1] = "detail" THEN DetailHeld(detail[h[2]])
  ELSE IF h[1] = "browser" THEN BrowserHeld(browser[h[2]])
  ELSE HelperHeld(helper[h[2]])

Single == \A g, h \in Slots :
  Held(g) = Held(h) /\ Held(g) \in open \ crossed => g = h

(* The browser forgets in a second step what it has freed.                 *)
Forgetting(h) == h[1] = "browser" /\ browser[h[2]].at = "forget"
HeldOpen == \A h \in Slots :
  Held(h) # None /\ ~Forgetting(h) => Held(h) \in open \cup crossed

(* What the fields of one terminal or screen say of each other.            *)
TerminalsAgree == \A i \in Ids : terminal[i] = "open" <=> shell[i] # None
DetailsAgree == \A d \in Detail :
  detail[d].at \in {"park", "parkNew", "keep", "keepNew"} => ~detail[d].keep /\ detail[d].id \in Ids
BrowsersAgree == \A b \in Browser : LET r == browser[b] IN
  /\ r.borrowed => r.shared
  /\ r.at = "reconnect" => r.conn = None
  /\ r.at = "relist" /\ r.shared /\ r.conn # None => r.borrowed
  /\ r.at = "forget" /\ r.conn # None /\ ~r.borrowed => r.conn \notin open
  /\ r.screen = "open" => r.id \in Places
HelpersAgree == \A s \in Helper : LET r == helper[s] IN
  /\ r.at = "connect" => r.conn = None
  /\ r.at = "borrowed" /\ r.screen = "open" => r.conn # None
  /\ r.conn = None /\ r.screen = "open" => ~r.shared
Agree == TerminalsAgree /\ DetailsAgree /\ BrowsersAgree /\ HelpersAgree

(* An id the clock has not given is nowhere.                               *)
Given ==
  /\ \A i \in Ids : i >= nextId => terminal[i] = "none"
  /\ Listed \subseteq 1 .. nextId - 1
  /\ \A d \in Detail : detail[d].id < nextId

Inv == TypeOK /\ Agree /\ Given /\ Single /\ HeldOpen
-----------------------------------------------------------------------------
(* The order of the naturals as a well-founded relation.                   *)
LEMMA NatOrder ==
  \E R : /\ \A i, j \in Nat : <<i, j>> \in R <=> i < j
         /\ IsWellFoundedOn(R, Nat)
<1>1. \A i, j \in Nat : <<i, j>> \in OpToRel(<, Nat) <=> i < j
  BY DEF OpToRel
<1>2. QED BY Zenon, <1>1, NatLessThanWellFounded

(* A set of naturals that is not empty has a least element, and Min is it. *)
LEMMA LeastIndex ==
  ASSUME NEW I, I \subseteq Nat, I # {}
  PROVE  /\ Min(I) \in I
         /\ \A i \in I : Min(I) <= i
<1>1. PICK R : /\ \A i, j \in Nat : <<i, j>> \in R <=> i < j
               /\ IsWellFoundedOn(R, Nat)
  BY NatOrder
<1>0. IsWellFoundedOn(R, Nat) /\ I \subseteq Nat /\ I # {}
  BY <1>1
<1>2. PICK i \in I : \A j \in I : ~(<<j, i>> \in R)
  BY <1>0, WFMin
<1>3. \A j \in I : i <= j
  <2> SUFFICES ASSUME NEW j \in I PROVE i <= j
    OBVIOUS
  <2>1. i \in Nat /\ j \in Nat
    OBVIOUS
  <2>2. ~(j < i)
    BY <1>1, <1>2, <2>1, Zenon
  <2>3. QED BY <2>1, <2>2
<1>4. QED BY <1>3 DEF Min

(* Taking a session off the list leaves others of the list.                *)
LEMMA RemoveFirstFacts ==
  ASSUME NEW S, NEW s \in Seq(S), NEW t
  PROVE  RemoveFirst(s, t) \in Seq(S) /\ ToSet(RemoveFirst(s, t)) \subseteq ToSet(s)
<1>1. CASE t \notin ToSet(s)
  <2>1. RemoveFirst(s, t) = s
    BY <1>1 DEF RemoveFirst, ToSet
  <2>2. QED BY <2>1
<1>2. CASE t \in ToSet(s)
  <2> DEFINE I == {i \in 1 .. Len(s) : s[i] = t}
             k == Min(I)
             q == SubSeq(s, 1, k - 1) \o SubSeq(s, k + 1, Len(s))
  <2>1. I # {} /\ I \subseteq Nat
    BY <1>2 DEF ToSet
  <2>2. k \in 1 .. Len(s)
    BY <2>1, LeastIndex
  <2>3. RemoveFirst(s, t) = q
    BY <1>2, <2>1 DEF RemoveFirst, RemoveAt, SelectInSeq, ToSet
  <2> HIDE DEF k
  <2>4. ASSUME NEW T, s \in Seq(T) PROVE q \in Seq(T)
    BY <2>2, <2>4
  <2> HIDE DEF q
  <2>5. s \in Seq(ToSet(s))
    BY DEF ToSet
  <2>6. q \in Seq(S) /\ q \in Seq(ToSet(s))
    BY <2>4, <2>5
  <2>7. ToSet(q) \subseteq ToSet(s)
    BY <2>6 DEF ToSet
  <2>8. QED BY <2>3, <2>6, <2>7
<1>3. QED BY <1>1, <1>2

(* The first connected session is one of the host's, and has a connection. *)
LEMMA FindConnectedFacts ==
  ASSUME TypeOK, TerminalsAgree, Connected # {}
  PROVE  /\ FindConnected \in Ids
         /\ shell[FindConnected] \in Conn
<1> DEFINE K == {k \in DOMAIN sessions : terminal[sessions[k]] = "open"}
<1>1. sessions \in Seq(Ids)
  BY DEF TypeOK
<1>2. DOMAIN sessions = 1 .. Len(sessions) /\ Len(sessions) \in Nat
  BY <1>1
<1>3. K # {} /\ K \subseteq Nat
  BY <1>2 DEF Connected, Listed, ToSet
<1>4. Min(K) \in K
  BY <1>3, LeastIndex
<1>5. sessions[Min(K)] \in Ids /\ terminal[sessions[Min(K)]] = "open"
  BY <1>1, <1>2, <1>4
<1>6. QED BY <1>5 DEF FindConnected, TypeOK, TerminalsAgree

LEMMA IdsFacts == MaxIds \in Nat /\ Ids \subseteq Nat \ {0} /\ Endpoint \notin Ids /\ None \notin Ids
BY SharingAssumption DEF Ids, Endpoint, None

(* What a screen's record may be when it is stored.                        *)
DetailRecord == [screen : {"closed", "started", "stopped"},
  conn : Conn \cup {None}, keep : BOOLEAN, id : Ids \cup {None},
  at : {"idle", "connect", "register", "park", "parkNew", "keep", "keepNew"}]
BrowserRecord == [screen : {"closed", "open"}, conn : Conn \cup {None},
  shared : BOOLEAN, prefer : BOOLEAN, id : Ids \cup {Endpoint, None},
  at : {"idle", "connect", "list", "reconnect", "relist", "forget"}, borrowed : BOOLEAN]
HelperRecord == [screen : {"closed", "open"}, conn : Conn \cup {None},
  shared : BOOLEAN, at : {"idle", "connect", "borrowed"}]

LEMMA SetDetailType ==
  ASSUME TypeOK, NEW d \in Detail, NEW r \in DetailRecord, SetDetail(d, r)
  PROVE  detail' \in [Detail -> DetailRecord]
BY DEF TypeOK, SetDetail, Ended, NoDetail, DetailRecord

LEMMA SetBrowserType ==
  ASSUME TypeOK, NEW b \in Browser, NEW r \in BrowserRecord, SetBrowser(b, r)
  PROVE  browser' \in [Browser -> BrowserRecord]
BY DEF TypeOK, SetBrowser, Ended, NoBrowser, BrowserRecord

LEMMA SetHelperType ==
  ASSUME TypeOK, NEW s \in Helper, NEW r \in HelperRecord, SetHelper(s, r)
  PROVE  helper' \in [Helper -> HelperRecord]
BY DEF TypeOK, SetHelper, Ended, NoHelper, HelperRecord

LEMMA SetTerminalType ==
  ASSUME TypeOK, NEW i \in Ids, NEW c \in Conn \cup {None}, SetTerminal(i, c)
  PROVE  /\ terminal' \in [Ids -> {"none", "dead", "open"}]
         /\ shell' \in [Ids -> Conn \cup {None}]
BY DEF TypeOK, SetTerminal
-----------------------------------------------------------------------------
(* The type: one step per action.                                          *)
ParkedType(i, c) ==
  /\ WithParked(i, c) \in [Ids \cup {Endpoint} -> Conn \cup {None}]
  /\ Overwritten(i, c) \subseteq Conn

LEMMA ParkedTypeHolds ==
  ASSUME TypeOK, NEW i \in Places, NEW c \in Conn \cup {None}
  PROVE  ParkedType(i, c)
BY DEF ParkedType, Places, WithParked, Overwritten, TypeOK

LEMMA ConnectsType ==
  ASSUME TypeOK, NEW i \in Ids, Connects(i)
  PROVE  /\ open' \subseteq Conn
         /\ terminal' \in [Ids -> {"none", "dead", "open"}]
         /\ shell' \in [Ids -> Conn \cup {None}]
<1>1. CASE \E c \in Conn : Fresh(c) /\ Open(c) /\ SetTerminal(i, c)
  BY <1>1, SetTerminalType DEF Open, TypeOK
<1>2. CASE UNCHANGED open /\ SetTerminal(i, None)
  BY <1>2, SetTerminalType DEF TypeOK
<1>3. QED BY <1>1, <1>2 DEF Connects

LEMMA TerminalType ==
  ASSUME TypeOK, TerminalsAgree, TerminalStep
  PROVE  TypeOK'
<1>0. sessions \in Seq(Ids)
  BY DEF TypeOK
<1>1. CASE NewTerminal
  <2>1. sessions' \in Seq(Ids) /\ nextId' \in 1 .. MaxIds + 1
    BY <1>0, <1>1, IdsFacts DEF NewTerminal, TypeOK, Ids
  <2>2. QED BY <1>1, <2>1, ConnectsType DEF NewTerminal, TypeOK
<1>2. CASE ReconnectTerminal
  <2>1. Head(sessions) \in Ids
    BY <1>0, <1>2 DEF ReconnectTerminal
  <2>2. QED BY <1>2, <2>1, ConnectsType DEF ReconnectTerminal, TypeOK
<1>3. ASSUME NEW i \in Ids, RestoreTerminal(i) PROVE TypeOK'
  <2>1. parked' \in [Ids \cup {Endpoint} -> Conn \cup {None}] /\ parked[i] \in Conn \cup {None}
    BY <1>3 DEF RestoreTerminal, Taken, TypeOK
  <2>2. CASE parked[i] # None
    BY <1>3, <2>1, <2>2, SetTerminalType DEF RestoreTerminal, TypeOK
  <2>3. CASE parked[i] = None
    BY <1>3, <2>1, <2>3, ConnectsType DEF RestoreTerminal, TypeOK
  <2>4. QED BY <2>2, <2>3
<1>4. ASSUME NEW i \in Ids, EndTerminal(i) PROVE TypeOK'
  BY <1>4, SetTerminalType DEF EndTerminal, Free, TypeOK
<1>5. ASSUME NEW i \in Ids, CloseContainer(i) PROVE TypeOK'
  <2>1. sessions' \in Seq(Ids)
    BY <1>0, <1>5, RemoveFirstFacts DEF CloseContainer
  <2>2. QED BY <1>5, <2>1 DEF CloseContainer, Free, TypeOK
<1>6. QED BY <1>1, <1>2, <1>3, <1>4, <1>5 DEF TerminalStep

LEMMA DetailType ==
  ASSUME TypeOK, DetailsAgree, NEW d \in Detail, DetailStep(d)
  PROVE  TypeOK'
<1> USE DEF DetailRecord
<1>0. sessions \in Seq(Ids) /\ detail[d] \in DetailRecord
  BY DEF TypeOK
<1>1. CASE OpenDetail(d)
  BY <1>1 DEF OpenDetail, NoDetail, TypeOK, termVars
<1>2. CASE StartDetail(d)
  BY <1>0, <1>2, SetDetailType DEF StartDetail, TypeOK, termVars
<1>3. CASE StopDetail(d)
  BY <1>0, <1>3, SetDetailType DEF StopDetail, TypeOK, termVars, Free, AsParked
<1>4. CASE DestroyDetail(d)
  BY <1>0, <1>4, SetDetailType DEF DestroyDetail, TypeOK, termVars, Free, AsParked
<1>5. CASE ConnectDetail(d)
  BY <1>0, <1>5, SetDetailType DEF ConnectDetail, TypeOK, termVars, Open
<1>6. CASE RegisterDetail(d)
  <2>1. sessions # <<>> => Head(sessions) \in Ids
    BY <1>0
  <2>2. nextId \in Ids => nextId + 1 \in 1 .. MaxIds + 1 /\ <<nextId>> \in Seq(Ids)
    BY IdsFacts DEF Ids
  <2>3. PICK r \in DetailRecord : SetDetail(d, r)
    BY <1>0, <1>6, <2>1 DEF RegisterDetail
  <2>4. detail' \in [Detail -> DetailRecord]
    BY <2>3, SetDetailType
  <2>5. /\ sessions' \in Seq(Ids) /\ nextId' \in 1 .. MaxIds + 1
        /\ UNCHANGED <<terminal, shell>>
    BY <1>0, <1>6, <2>2 DEF RegisterDetail, TypeOK, termVars
  <2>6. lost' \subseteq Conn
    BY <1>0, <1>6 DEF RegisterDetail, TypeOK
  <2>7. QED BY <1>6, <2>4, <2>5, <2>6 DEF RegisterDetail, TypeOK
<1>7. CASE ParkDetail(d)
  <2>1. detail' \in [Detail -> DetailRecord]
    BY <1>0, <1>7, SetDetailType DEF ParkDetail
  <2>2. ParkedType(detail[d].id, detail[d].conn)
    BY <1>0, <1>7, ParkedTypeHolds DEF ParkDetail, DetailsAgree, Places
  <2>3. QED BY <1>7, <2>1, <2>2 DEF ParkDetail, ParkedType, TypeOK, termVars
<1>8. CASE KeepDetail(d)
  <2>1. sessions' \in Seq(Ids)
    BY <1>0, <1>8 DEF KeepDetail, DetailsAgree
  <2>2. QED BY <1>0, <1>8, <2>1, SetDetailType DEF KeepDetail, TypeOK
<1>9. QED BY <1>1, <1>2, <1>3, <1>4, <1>5, <1>6, <1>7, <1>8 DEF DetailStep

LEMMA BrowserType ==
  ASSUME TypeOK, Agree, NEW b \in Browser, BrowserStep(b)
  PROVE  TypeOK'
<1> USE DEF BrowserRecord
<1>0. browser[b] \in BrowserRecord
  BY DEF TypeOK
<1>1. CASE OpenBrowser(b)
  <2>1. PICK hint \in Hints : OpenBrowser(b)!(hint)
    BY <1>1 DEF OpenBrowser
  <2>2. Hints \subseteq {None, Endpoint} \cup Ids
    BY IdsFacts DEF Hints, TypeOK, Ids
  <2> DEFINE free == hint # None /\ ~HasTerminal(hint)
             id   == IF free THEN hint ELSE Endpoint
             conn == IF free THEN parked[id] ELSE None
  <2>3. id \in Ids \cup {Endpoint} /\ conn \in Conn \cup {None}
    BY <2>2 DEF TypeOK
  <2>4. parked' \in [Ids \cup {Endpoint} -> Conn \cup {None}]
    BY <2>1, <2>3 DEF TypeOK, Taken
  <2>5. browser' \in [Browser -> BrowserRecord]
    <3>1. browser' = [browser EXCEPT ![b] =
            [NoBrowser EXCEPT !.screen = "open", !.id = id, !.at = "connect", !.conn = conn,
                              !.shared = conn # None, !.prefer = conn = None]]
      BY <2>1
    <3> HIDE DEF id, conn
    <3>2. QED BY <2>3, <3>1 DEF TypeOK, NoBrowser
  <2>6. QED BY <2>1, <2>4, <2>5 DEF TypeOK, termVars
<1>2. CASE Reload(b)
  BY <1>0, <1>2, SetBrowserType DEF Reload, TypeOK, termVars
<1>3. CASE ConnectBrowser(b)
  <2>1. Connected # {} => shell[FindConnected] \in Conn
    BY FindConnectedFacts DEF Agree
  <2>2. \A c \in Conn \cup {None}, x, y \in BOOLEAN :
          BrowserGets(b, c, x, y) => browser' \in [Browser -> BrowserRecord]
    BY <1>0, SetBrowserType, ZenonT(60) DEF BrowserGets
  <2>3. browser' \in [Browser -> BrowserRecord]
    BY <1>0, <1>3, <2>1, <2>2, SetBrowserType DEF ConnectBrowser
  <2>4. QED BY <1>3, <2>3 DEF ConnectBrowser, TypeOK, termVars, Open
<1>4. CASE ListedWell(b)
  BY <1>0, <1>4, SetBrowserType DEF ListedWell, TypeOK, termVars
<1>5. CASE DropShared(b)
  BY <1>0, <1>5, SetBrowserType, ZenonT(60) DEF DropShared, TypeOK, termVars
<1>6. CASE DropOwn(b)
  BY <1>0, <1>6, SetBrowserType, ZenonT(60) DEF DropOwn, TypeOK, termVars, Free
<1>7. CASE ForgetOwn(b)
  BY <1>0, <1>7, SetBrowserType DEF ForgetOwn, TypeOK, termVars
<1>8. CASE DestroyBrowser(b)
  <2>1. browser' \in [Browser -> BrowserRecord]
    BY <1>0, <1>8, SetBrowserType, ZenonT(60) DEF DestroyBrowser
  <2>2. ParkedType(browser[b].id, browser[b].conn)
    BY <1>0, <1>8, ParkedTypeHolds DEF DestroyBrowser, Agree, BrowsersAgree
  <2>3. crossed' \subseteq Conn
    BY <1>0, <1>8 DEF DestroyBrowser, TypeOK
  <2>4. QED BY <1>8, <2>1, <2>2, <2>3 DEF DestroyBrowser, ParkedType, TypeOK, termVars
<1>9. QED BY <1>1, <1>2, <1>3, <1>4, <1>5, <1>6, <1>7, <1>8 DEF BrowserStep

LEMMA HelperType ==
  ASSUME TypeOK, Agree, NEW s \in Helper, HelperStep(s)
  PROVE  TypeOK'
<1> USE DEF HelperRecord
<1>0. helper[s] \in HelperRecord
  BY DEF TypeOK
<1>1. CASE OpenHelper(s)
  BY <1>1 DEF OpenHelper, NoHelper, TypeOK, termVars
<1>2. CASE ConnectHelper(s)
  <2>1. Connected # {} => shell[FindConnected] \in Conn
    BY FindConnectedFacts DEF Agree
  <2>2. QED BY <1>0, <1>2, <2>1, SetHelperType, ZenonT(60) DEF ConnectHelper, HelperGets, TypeOK, termVars, Open
<1>3. CASE StoreShared(s)
  BY <1>0, <1>3, SetHelperType DEF StoreShared, TypeOK, termVars
<1>4. CASE ReloadHelper(s)
  BY <1>0, <1>4, SetHelperType DEF ReloadHelper, TypeOK, termVars
<1>5. CASE DestroyHelper(s)
  BY <1>0, <1>5, SetHelperType DEF DestroyHelper, TypeOK, termVars, Free, Agree, HelpersAgree
<1>6. QED BY <1>1, <1>2, <1>3, <1>4, <1>5 DEF HelperStep
-----------------------------------------------------------------------------
(* A connection is opened only when nobody knows it.                       *)
LEMMA OpenedIsFresh ==
  ASSUME TypeOK, Next
  PROVE  \A c \in open' \ open : Fresh(c)
<1>1. CASE TerminalStep
  BY <1>1 DEF TerminalStep, NewTerminal, ReconnectTerminal, RestoreTerminal, EndTerminal,
              CloseContainer, Connects, Open, Free
<1>2. ASSUME NEW d \in Detail, DetailStep(d) PROVE \A c \in open' \ open : Fresh(c)
  BY <1>2 DEF DetailStep, OpenDetail, StartDetail, StopDetail, DestroyDetail, ConnectDetail,
              RegisterDetail, ParkDetail, KeepDetail, Open, Free
<1>3. ASSUME NEW b \in Browser, BrowserStep(b) PROVE \A c \in open' \ open : Fresh(c)
  BY <1>3 DEF BrowserStep, OpenBrowser, Reload, ConnectBrowser, ListedWell, DropShared, DropOwn,
              ForgetOwn, DestroyBrowser, Open, Free
<1>4. ASSUME NEW s \in Helper, HelperStep(s) PROVE \A c \in open' \ open : Fresh(c)
  BY <1>4 DEF HelperStep, OpenHelper, ConnectHelper, StoreShared, ReloadHelper, DestroyHelper,
              Open, Free
<1>5. QED BY <1>1, <1>2, <1>3, <1>4 DEF Next

(* The fields of one terminal or screen go on agreeing.                    *)
LEMMA TerminalsGoOnAgreeing ==
  ASSUME TypeOK, TypeOK', TerminalsAgree, TerminalStep
  PROVE  TerminalsAgree'
<1> USE DEF TerminalsAgree
<1>0. None \notin Conn
  BY SharingAssumption
<1>1. ASSUME NEW i \in Ids, NEW c, SetTerminal(i, c) PROVE TerminalsAgree'
  BY <1>1 DEF SetTerminal, TypeOK
<1>2. \A i \in Ids : Connects(i) => TerminalsAgree'
  BY <1>1 DEF Connects
<1>3. CASE NewTerminal
  BY <1>2, <1>3 DEF NewTerminal
<1>4. CASE ReconnectTerminal
  <2>1. Head(sessions) \in Ids
    BY <1>4 DEF ReconnectTerminal, TypeOK
  <2>2. QED BY <1>2, <1>4, <2>1 DEF ReconnectTerminal
<1>5. ASSUME NEW i \in Ids, RestoreTerminal(i) \/ EndTerminal(i) PROVE TerminalsAgree'
  BY <1>1, <1>2, <1>5 DEF RestoreTerminal, EndTerminal
<1>6. ASSUME NEW i \in Ids, CloseContainer(i) PROVE TerminalsAgree'
  BY <1>6 DEF CloseContainer, TypeOK
<1>7. QED BY <1>3, <1>4, <1>5, <1>6 DEF TerminalStep

LEMMA DetailsGoOnAgreeing ==
  ASSUME TypeOK, DetailsAgree, NEW d \in Detail, DetailStep(d)
  PROVE  DetailsAgree'
<1> USE DEF DetailsAgree
<1>0. /\ sessions \in Seq(Ids) /\ detail[d] \in DetailRecord
      /\ detail \in [Detail -> DetailRecord]
  BY DEF TypeOK, DetailRecord
<1>1. ASSUME NEW r \in DetailRecord, SetDetail(d, r),
             r.at \in {"park", "parkNew", "keep", "keepNew"} => ~r.keep /\ r.id \in Ids
      PROVE  DetailsAgree'
  BY <1>0, <1>1 DEF SetDetail, Ended, NoDetail
<1>2. CASE OpenDetail(d)
  BY <1>0, <1>2 DEF OpenDetail, NoDetail
<1>3. CASE StartDetail(d)
  <2>1. PICK at \in {detail[d].at} \cup {"connect"} :
          SetDetail(d, [detail[d] EXCEPT !.screen = "started", !.at = at])
    BY <1>3 DEF StartDetail
  <2>2. QED BY <1>0, <1>1, <2>1 DEF DetailRecord
<1>4. CASE StopDetail(d)
  BY <1>0, <1>1, <1>4 DEF StopDetail, DetailRecord
<1>5. CASE DestroyDetail(d)
  BY <1>0, <1>1, <1>5 DEF DestroyDetail, DetailRecord
<1>6. CASE ConnectDetail(d)
  BY <1>0, <1>1, <1>6 DEF ConnectDetail, DetailRecord
<1>7. CASE RegisterDetail(d)
  <2>1. sessions # <<>> => Head(sessions) \in Ids
    BY <1>0
  <2>2. QED BY <1>0, <1>1, <1>7, <2>1 DEF RegisterDetail, DetailRecord
<1>8. CASE ParkDetail(d)
  BY <1>0, <1>1, <1>8 DEF ParkDetail, DetailRecord
<1>9. CASE KeepDetail(d)
  BY <1>0, <1>1, <1>9 DEF KeepDetail, DetailRecord
<1>10. QED BY <1>2, <1>3, <1>4, <1>5, <1>6, <1>7, <1>8, <1>9 DEF DetailStep

LEMMA GivenLasts ==
  ASSUME TypeOK, Given, DetailsAgree, Next
  PROVE  Given'
<1>0. /\ sessions \in Seq(Ids) /\ Ids \subseteq Nat \ {0} /\ nextId \in Nat \ {0} /\ None = 0
      /\ terminal \in [Ids -> {"none", "dead", "open"}]
      /\ detail \in [Detail -> DetailRecord] /\ \A i \in Ids : i \in 1 .. MaxIds
  BY IdsFacts DEF TypeOK, DetailRecord, None, Ids
<1>7. \A d \in Detail : detail[d].id \in Nat
  <2>1. Ids \cup {None} \subseteq Nat
    BY <1>0
  <2>2. \A d \in Detail : detail[d].id \in Ids \cup {None}
    BY <1>0 DEF DetailRecord
  <2>3. QED BY <2>1, <2>2
<1>1. ASSUME NEW i \in Ids PROVE ToSet(Append(sessions, i)) = Listed \cup {i}
  <2> DEFINE t == Append(sessions, i)
  <2>1. /\ Len(sessions) \in Nat /\ DOMAIN sessions = 1 .. Len(sessions)
        /\ DOMAIN t = 1 .. Len(sessions) + 1 /\ t[Len(sessions) + 1] = i
        /\ \A k \in 1 .. Len(sessions) : t[k] = sessions[k]
    BY <1>0
  <2> HIDE DEF t
  <2>2. QED BY <2>1 DEF ToSet, Listed
<1>2. ASSUME NEW i \in Ids, i < nextId', nextId' \in {nextId, nextId + 1}, Listed' \subseteq 1 .. nextId' - 1,
             \A j \in Ids \ {i} : terminal'[j] = terminal[j], UNCHANGED detail
      PROVE  Given'
  <2>1. \A j \in Ids : j >= nextId' => j # i /\ j >= nextId
    BY <1>0, <1>2
  <2>2. \A j \in Ids : j >= nextId' => terminal'[j] = "none"
    BY <1>2, <2>1 DEF Given
  <2>4. \A d \in Detail : detail'[d].id < nextId'
    BY <1>0, <1>2, <1>7 DEF Given
  <2>5. QED BY <1>2, <2>2, <2>4 DEF Given
<1>3. CASE TerminalStep
  <2>1. ASSUME NEW i \in Ids, NEW c, SetTerminal(i, c)
        PROVE  \A j \in Ids \ {i} : terminal'[j] = terminal[j]
    BY <1>0, <2>1 DEF SetTerminal
  <2>2. ASSUME NEW i \in Ids, Connects(i) PROVE \A j \in Ids \ {i} : terminal'[j] = terminal[j]
    BY <2>1, <2>2 DEF Connects
  <2>3. CASE NewTerminal
    <3>1. Listed' = Listed \cup {nextId} /\ nextId' = nextId + 1
      BY <1>1, <2>3 DEF NewTerminal, Listed
    <3>2. Listed' \subseteq 1 .. nextId' - 1
      BY <1>0, <3>1 DEF Given
    <3>3. QED BY <1>0, <1>2, <2>2, <2>3, <3>1, <3>2 DEF NewTerminal
  <2>4. CASE ReconnectTerminal
    <3>1. Head(sessions) \in Ids /\ Head(sessions) \in Listed
      BY <1>0, <2>4 DEF ReconnectTerminal, Listed, ToSet
    <3>2. Listed' \subseteq 1 .. nextId' - 1 /\ Head(sessions) < nextId'
      BY <1>0, <2>4, <3>1 DEF ReconnectTerminal, Given, Listed
    <3>3. QED BY <1>2, <2>2, <2>4, <3>1, <3>2 DEF ReconnectTerminal
  <2>5. ASSUME NEW i \in Ids, RestoreTerminal(i) \/ EndTerminal(i) PROVE Given'
    <3>1. Listed' \subseteq 1 .. nextId' - 1 /\ i < nextId' /\ nextId' = nextId
      BY <1>0, <2>5 DEF RestoreTerminal, EndTerminal, Given, Listed
    <3>2. QED BY <1>2, <2>1, <2>2, <2>5, <3>1 DEF RestoreTerminal, EndTerminal
  <2>6. ASSUME NEW i \in Ids, CloseContainer(i) PROVE Given'
    <3>1. Listed' \subseteq Listed
      BY <1>0, <2>6, RemoveFirstFacts DEF CloseContainer, Listed
    <3>2. Listed' \subseteq 1 .. nextId' - 1 /\ i < nextId' /\ nextId' = nextId
      BY <1>0, <2>6, <3>1 DEF CloseContainer, Given
    <3>3. QED BY <1>0, <1>2, <2>6, <3>2 DEF CloseContainer
  <2>7. QED BY <1>3, <2>3, <2>4, <2>5, <2>6 DEF TerminalStep
<1>4. ASSUME NEW d \in Detail, DetailStep(d) PROVE Given'
  <2>1. ASSUME NEW r \in DetailRecord, SetDetail(d, r), r.id < nextId', UNCHANGED terminal,
               nextId' \in {nextId, nextId + 1}, Listed' \subseteq 1 .. nextId' - 1
        PROVE  Given'
    <3>1. detail'[d].id \in {r.id, 0} /\ \A e \in Detail \ {d} : detail'[e] = detail[e]
      BY <1>0, <2>1 DEF SetDetail, Ended, NoDetail
    <3>3. \A e \in Detail : detail'[e].id < nextId'
      BY <1>0, <1>7, <2>1, <3>1 DEF Given
    <3>4. \A j \in Ids : j >= nextId' => terminal'[j] = "none"
      BY <1>0, <2>1 DEF Given
    <3>5. QED BY <2>1, <3>3, <3>4 DEF Given
  <2> USE DEF DetailRecord, termVars
  <2>0. detail[d] \in DetailRecord /\ detail[d].id < nextId /\ Listed \subseteq 1 .. nextId - 1
    BY <1>0 DEF Given
  <2>2. CASE OpenDetail(d)
    BY <1>0, <2>0, <2>2 DEF OpenDetail, NoDetail, Given, Listed
  <2>3. CASE StartDetail(d)
    <3>1. PICK at \in {detail[d].at} \cup {"connect"} :
            SetDetail(d, [detail[d] EXCEPT !.screen = "started", !.at = at])
      BY <2>3 DEF StartDetail
    <3>2. QED BY <2>0, <2>1, <2>3, <3>1 DEF StartDetail, Listed
  <2>4. CASE StopDetail(d) \/ DestroyDetail(d)
    BY <2>0, <2>1, <2>4 DEF StopDetail, DestroyDetail, Listed
  <2>5. CASE ConnectDetail(d)
    BY <2>0, <2>1, <2>5 DEF ConnectDetail, Listed
  <2>6. CASE RegisterDetail(d)
    <3>0. sessions # <<>> => Head(sessions) \in Ids /\ Head(sessions) \in Listed
      BY <1>0 DEF Listed, ToSet
    <3>1. sessions # <<>> => Head(sessions) < nextId
      <4>1. sessions # <<>> => Head(sessions) \in 1 .. nextId - 1
        BY <2>0, <3>0
      <4>2. \A i \in 1 .. nextId - 1 : i < nextId
        BY <1>0
      <4>3. QED BY <4>1, <4>2
    <3>2. sessions' = <<nextId>> => Listed' = {nextId}
      BY DEF Listed, ToSet
    <3>3. ASSUME NEW id \in Ids \cup {None}, NEW at \in {"idle", "park", "parkNew"}, id < nextId',
                 nextId' \in {nextId, nextId + 1}, Listed' \subseteq 1 .. nextId' - 1,
                 UNCHANGED terminal,
                 \/ SetDetail(d, [detail[d] EXCEPT !.at = at])
                 \/ SetDetail(d, [detail[d] EXCEPT !.id = id, !.at = at])
          PROVE  Given'
      <4>1. detail[d].id < nextId'
        BY <1>0, <2>0, <3>3
      <4>2. CASE SetDetail(d, [detail[d] EXCEPT !.at = at])
        BY <2>0, <2>1, <3>3, <4>1, <4>2
      <4>3. CASE SetDetail(d, [detail[d] EXCEPT !.id = id, !.at = at])
        BY <2>0, <2>1, <3>3, <4>3
      <4>4. QED BY <3>3, <4>2, <4>3
    <3>4. CASE UNCHANGED termVars
      <4>1. Listed' \subseteq 1 .. nextId' - 1 /\ nextId' = nextId
        BY <2>0, <3>4 DEF Listed
      <4>2. \E id \in Ids \cup {None}, at \in {"idle", "park", "parkNew"} :
              /\ id < nextId
              /\ \/ SetDetail(d, [detail[d] EXCEPT !.at = at])
                 \/ SetDetail(d, [detail[d] EXCEPT !.id = id, !.at = at])
        <5>0. None \in Ids \cup {None} /\ None < nextId
          BY <1>0
        <5>1. CASE SetDetail(d, [detail[d] EXCEPT !.at = "idle"])
          <6> WITNESS None \in Ids \cup {None}, "idle" \in {"idle", "park", "parkNew"}
          <6>1. QED BY <5>0, <5>1
        <5>2. CASE sessions # <<>> /\ SetDetail(d,
                     [detail[d] EXCEPT !.id = IF HasTerminal(Head(sessions)) THEN None ELSE Head(sessions),
                        !.at = IF HasTerminal(Head(sessions)) THEN "idle" ELSE "park"])
          <6>1. CASE HasTerminal(Head(sessions))
            <7>1. SetDetail(d, [detail[d] EXCEPT !.id = None, !.at = "idle"])
              BY <5>2, <6>1
            <7> WITNESS None \in Ids \cup {None}, "idle" \in {"idle", "park", "parkNew"}
            <7>2. QED BY <5>0, <7>1
          <6>2. CASE ~HasTerminal(Head(sessions))
            BY <3>0, <3>1, <5>2, <6>2
          <6>3. QED BY <6>1, <6>2
        <5>3. nextId' = nextId
          BY <3>4
        <5>4. nextId + 1 # nextId
          BY <1>0
        <5>5. QED BY <2>6, <5>1, <5>2, <5>3, <5>4 DEF RegisterDetail
      <4>3. QED BY <3>3, <3>4, <4>1, <4>2
    <3>5. CASE nextId \in Ids /\ nextId' = nextId + 1 /\ sessions' = <<nextId>> /\ UNCHANGED terminal
               /\ SetDetail(d, [detail[d] EXCEPT !.id = nextId, !.at = "parkNew"])
      <4>1. Listed' \subseteq 1 .. nextId' - 1 /\ nextId < nextId'
        BY <1>0, <3>2, <3>5
      <4>2. QED BY <3>3, <3>5, <4>1
    <3>6. QED BY <2>6, <3>4, <3>5 DEF RegisterDetail
  <2>7. CASE ParkDetail(d)
    BY <2>0, <2>1, <2>7 DEF ParkDetail, Listed
  <2>8. CASE KeepDetail(d)
    <3>1. Listed' \subseteq 1 .. nextId' - 1 /\ nextId' = nextId
      <4>1. detail[d].id \in Ids /\ nextId' = nextId /\ detail[d].id \in 1 .. nextId - 1
        BY <1>0, <2>0, <2>8 DEF KeepDetail, DetailsAgree
      <4>2. Listed' \subseteq Listed \cup {detail[d].id}
        BY <1>1, <2>8, <4>1 DEF KeepDetail, Listed
      <4>3. QED BY <2>0, <4>1, <4>2
    <3> DEFINE r == [detail[d] EXCEPT !.keep = TRUE, !.id = None, !.at = "idle"]
    <3>2. SetDetail(d, r) /\ UNCHANGED terminal
      BY <2>8 DEF KeepDetail
    <3>3. r \in DetailRecord /\ r.id = None
      BY <2>0
    <3> HIDE DEF r
    <3>4. r.id < nextId'
      BY <1>0, <3>1, <3>3
    <3>5. QED BY <2>1, <3>1, <3>2, <3>3, <3>4
  <2>9. QED BY <1>4, <2>2, <2>3, <2>4, <2>5, <2>6, <2>7, <2>8 DEF DetailStep
<1>5. CASE UNCHANGED <<termVars, detail>>
  BY <1>5 DEF Given, Listed, termVars
<1>6. ASSUME NEW b \in Browser, BrowserStep(b) PROVE UNCHANGED <<termVars, detail>>
  BY <1>6 DEF BrowserStep, OpenBrowser, Reload, ConnectBrowser, ListedWell, DropShared, DropOwn,
              ForgetOwn, DestroyBrowser
<1>9. ASSUME NEW s \in Helper, HelperStep(s) PROVE UNCHANGED <<termVars, detail>>
  BY <1>9 DEF HelperStep, OpenHelper, ConnectHelper, StoreShared, ReloadHelper, DestroyHelper
<1>10. QED BY <1>3, <1>4, <1>5, <1>6, <1>9 DEF Next

(* What the fields of a browser say, of one record.                        *)
BrowserAgrees(r, o) ==
  /\ r.borrowed => r.shared
  /\ r.at = "reconnect" => r.conn = None
  /\ r.at = "relist" /\ r.shared /\ r.conn # None => r.borrowed
  /\ r.at = "forget" /\ r.conn # None /\ ~r.borrowed => r.conn \notin o
  /\ r.screen = "open" => r.id \in Places

LEMMA BrowserKept ==
  ASSUME TypeOK, BrowsersAgree, Next, UNCHANGED browser
  PROVE  BrowsersAgree'
<1>1. \A b \in Browser : browser[b].conn \notin open' \ open
  BY OpenedIsFresh DEF Fresh, Known
<1>2. QED BY <1>1 DEF BrowsersAgree

LEMMA BrowsersGoOnAgreeing ==
  ASSUME TypeOK, Agree, NEW b \in Browser, BrowserStep(b)
  PROVE  BrowsersAgree'
<1>0. /\ browser[b] \in BrowserRecord /\ browser \in [Browser -> BrowserRecord]
      /\ BrowserAgrees(browser[b], open) /\ None \notin Conn
  BY SharingAssumption DEF TypeOK, BrowserRecord, Agree, BrowsersAgree, BrowserAgrees
<1>1. \A a \in Browser : browser[a].conn \notin open' \ open
  BY OpenedIsFresh DEF Fresh, Known, Next
<1>2. ASSUME NEW r \in BrowserRecord, SetBrowser(b, r), BrowserAgrees(r, open')
      PROVE  BrowsersAgree'
  <2>1. BrowserAgrees(NoBrowser, open')
    BY DEF BrowserAgrees, NoBrowser
  <2>2. browser'[b] \in {r, NoBrowser} /\ \A a \in Browser \ {b} : browser'[a] = browser[a]
    BY <1>0, <1>2 DEF SetBrowser, Ended
  <2>3. BrowserAgrees(browser'[b], open')
    BY <1>2, <2>1, <2>2
  <2>4. QED BY <1>1, <2>2, <2>3 DEF BrowserAgrees, BrowsersAgree, Agree
<1>3. CASE OpenBrowser(b)
  <2>1. PICK hint \in Hints : OpenBrowser(b)!(hint)
    BY <1>3 DEF OpenBrowser
  <2> DEFINE free == hint # None /\ ~HasTerminal(hint)
             id   == IF free THEN hint ELSE Endpoint
             conn == IF free THEN parked[id] ELSE None
             new  == [NoBrowser EXCEPT !.screen = "open", !.id = id, !.at = "connect",
                        !.conn = conn, !.shared = conn # None, !.prefer = conn = None]
  <2>2. id \in Places
    BY IdsFacts DEF Hints, TypeOK, Ids, Places
  <2>3. browser' = [browser EXCEPT ![b] = new] /\ UNCHANGED open
    BY <2>1
  <2>4. BrowserAgrees(new, open)
    <3> HIDE DEF id, conn
    <3>1. QED BY <2>2 DEF NoBrowser, BrowserAgrees
  <2> HIDE DEF new
  <2>5. QED BY <1>0, <2>3, <2>4 DEF BrowserAgrees, BrowsersAgree, Agree
<1>4. CASE Reload(b)
  BY <1>0, <1>2, <1>4 DEF Reload, BrowserAgrees, BrowserRecord
<1>5. CASE ConnectBrowser(b)
  <2>1. Connected # {} => shell[FindConnected] \in Conn
    BY FindConnectedFacts DEF Agree
  <2>2. ASSUME NEW c \in Conn \cup {None}, NEW x \in BOOLEAN, NEW y \in BOOLEAN,
               BrowserGets(b, c, x, y), y => x, browser[b].at \in {"connect", "reconnect"},
               browser[b].at = "reconnect" /\ x /\ c # None => y
        PROVE  BrowsersAgree'
    BY <1>0, <1>2, <2>2 DEF BrowserGets, BrowserAgrees, BrowserRecord
  <2>3. CASE browser[b].conn # None
    BY <1>0, <1>5, <2>2, <2>3 DEF ConnectBrowser, BrowserAgrees, BrowserRecord
  <2>4. CASE browser[b].conn = None
    BY <1>0, <1>2, <1>5, <2>1, <2>2, <2>4 DEF ConnectBrowser, BrowserAgrees, BrowserRecord
  <2>5. QED BY <2>3, <2>4
<1>6. CASE ListedWell(b)
  BY <1>0, <1>2, <1>6 DEF ListedWell, BrowserAgrees, BrowserRecord
<1>7. CASE DropShared(b)
  BY <1>0, <1>2, <1>7 DEF DropShared, BrowserAgrees, BrowserRecord
<1>8. CASE DropOwn(b)
  BY <1>0, <1>2, <1>8 DEF DropOwn, BrowserAgrees, BrowserRecord, Free
<1>9. CASE ForgetOwn(b)
  BY <1>0, <1>2, <1>9 DEF ForgetOwn, BrowserAgrees, BrowserRecord
<1>10. CASE DestroyBrowser(b)
  BY <1>0, <1>2, <1>10 DEF DestroyBrowser, BrowserAgrees, BrowserRecord
<1>11. QED BY <1>3, <1>4, <1>5, <1>6, <1>7, <1>8, <1>9, <1>10 DEF BrowserStep

LEMMA HelpersGoOnAgreeing ==
  ASSUME TypeOK, Agree, NEW s \in Helper, HelperStep(s)
  PROVE  HelpersAgree'
<1>0. /\ helper[s] \in HelperRecord /\ helper \in [Helper -> HelperRecord]
      /\ HelpersAgree /\ None \notin Conn
  BY SharingAssumption DEF TypeOK, HelperRecord, Agree
<1>1. CASE OpenHelper(s)
  BY <1>0, <1>1 DEF OpenHelper, NoHelper, HelpersAgree
<1>2. CASE ConnectHelper(s)
  <2>1. Connected # {} => shell[FindConnected] \in Conn
    BY FindConnectedFacts DEF Agree
  <2>2. ASSUME NEW c \in Conn, NEW at \in {"idle", "borrowed"}, HelperGets(s, c, at)
        PROVE  HelpersAgree'
    BY <1>0, <2>2 DEF HelperGets, SetHelper, Ended, NoHelper, HelpersAgree, HelperRecord
  <2>3. CASE HelperGets(s, None, "idle")
    BY <1>0, <1>2, <2>3
       DEF ConnectHelper, HelperGets, SetHelper, Ended, NoHelper, HelpersAgree, HelperRecord
  <2>4. QED BY <1>2, <2>1, <2>2, <2>3 DEF ConnectHelper
<1>3. CASE StoreShared(s)
  BY <1>0, <1>3 DEF StoreShared, SetHelper, Ended, NoHelper, HelpersAgree, HelperRecord
<1>4. CASE ReloadHelper(s)
  BY <1>0, <1>4 DEF ReloadHelper, SetHelper, Ended, NoHelper, HelpersAgree, HelperRecord
<1>5. CASE DestroyHelper(s)
  BY <1>0, <1>5 DEF DestroyHelper, SetHelper, Ended, NoHelper, HelpersAgree, HelperRecord
<1>6. QED BY <1>1, <1>2, <1>3, <1>4, <1>5 DEF HelperStep
-----------------------------------------------------------------------------
(* Slots and what they hold.                                               *)
LEMMA SlotCases ==
  /\ \A h \in Slots :
       \/ \E i \in Places : h = <<"parked", i>>
       \/ \E i \in Ids : h = <<"terminal", i>>
       \/ \E d \in Detail : h = <<"detail", d>>
       \/ \E b \in Browser : h = <<"browser", b>>
       \/ \E s \in Helper : h = <<"helper", s>>
  /\ \A i \in Places : <<"parked", i>> \in Slots
  /\ \A i \in Ids : <<"terminal", i>> \in Slots
  /\ \A d \in Detail : <<"detail", d>> \in Slots
  /\ \A b \in Browser : <<"browser", b>> \in Slots
  /\ \A s \in Helper : <<"helper", s>> \in Slots
<1>1. \A A, k, h : h \in {k} \X A <=> \E a \in A : h = <<k, a>>
  OBVIOUS
<1>2. QED BY <1>1 DEF Slots

LEMMA HeldType ==
  ASSUME TypeOK
  PROVE  \A h \in Slots : Held(h) \in Conn \cup {None} /\ \A c : Fresh(c) => Held(h) # c
<1>1. None \notin Conn
  BY SharingAssumption
<1>2. QED
  BY <1>1, SlotCases
     DEF Held, DetailHeld, BrowserHeld, HelperHeld, TypeOK, Fresh, Known, Places

(* No slot holds what it did not hold before.                              *)
LEMMA NoNewHolder ==
  ASSUME TypeOK, TypeOK', Single,
         \A h \in Slots : Held(h)' \in {Held(h), None},
         open' \ crossed' \subseteq open \ crossed
  PROVE  Single'
<1>1. None \notin open'
  BY SharingAssumption DEF TypeOK
<1>2. QED BY <1>1 DEF Single

(* One slot holds what no other does.                                      *)
LEMMA OneNewHolder ==
  ASSUME TypeOK, TypeOK', Single, NEW k \in Slots,
         \A h \in Slots \ {k} :
           /\ Held(h)' \in {Held(h), None}
           /\ Held(h)' = Held(k)' => Held(k)' \notin open' \ crossed',
         open' \ crossed' \subseteq (open \ crossed) \cup {Held(k)'}
  PROVE  Single'
<1>1. None \notin open'
  BY SharingAssumption DEF TypeOK
<1>2. SUFFICES ASSUME NEW g \in Slots, NEW h \in Slots, Held(g)' = Held(h)',
                      Held(g)' \in open' \ crossed'
               PROVE  g = h
  BY DEF Single
<1>3. CASE g = k \/ h = k
  BY <1>2, <1>3
<1>4. CASE g # k /\ h # k
  <2>1. Held(g)' = Held(g) /\ Held(h)' = Held(h) /\ Held(g) = Held(h)
    BY <1>1, <1>2, <1>4
  <2>2. Held(g) \in open \ crossed
    BY <1>2, <1>4, <2>1
  <2>3. QED BY <2>1, <2>2 DEF Single
<1>5. QED BY <1>3, <1>4

(* What a slot holds moves to another, k.                                  *)
LEMMA MovedToSlot ==
  ASSUME TypeOK, TypeOK', Single, NEW g \in Slots, NEW k \in Slots, g # k,
         Held(k)' = Held(g), Held(g)' = None,
         \A h \in Slots \ {k} : Held(h)' \in {Held(h), None},
         open' \ crossed' \subseteq open \ crossed
  PROVE  Single'
<1>1. None \notin open'
  BY SharingAssumption DEF TypeOK
<1>2. ASSUME NEW h \in Slots \ {k}, Held(h)' = Held(k)', Held(k)' \in open' \ crossed'
      PROVE  FALSE
  <2>1. h # g /\ Held(h) = Held(g) /\ Held(g) \in open \ crossed
    BY <1>1, <1>2
  <2>2. QED BY <2>1, <1>2 DEF Single
<1>3. QED BY <1>2, OneNewHolder

(* Nothing is freed: what is held is still open, or newly so.              *)
LEMMA NothingFreed ==
  ASSUME HeldOpen, open \subseteq open', crossed \subseteq crossed',
         \A h \in Slots : Held(h)' # None /\ ~Forgetting(h)' =>
           \/ Held(h)' = Held(h) /\ ~Forgetting(h)
           \/ Held(h)' \in open' \cup crossed'
  PROVE  HeldOpen'
BY DEF HeldOpen

(* A connection is freed by the slot that holds it, or by one that holds   *)
(* none.                                                                   *)
LEMMA FreedByHolder ==
  ASSUME TypeOK, TypeOK', Single, HeldOpen, NEW g \in Slots,
         open' = open \ {Held(g)}, crossed \subseteq crossed',
         Held(g)' = None \/ Forgetting(g)',
         \A h \in Slots :
           /\ Held(h)' \in {Held(h), None}
           /\ Forgetting(h) => Forgetting(h)'
  PROVE  Single' /\ HeldOpen'
<1>1. Single'
  BY NoNewHolder
<1>2. ASSUME NEW h \in Slots, Held(h)' # None, ~Forgetting(h)'
      PROVE  Held(h)' \in open' \cup crossed'
  <2>1. h # g /\ Held(h)' = Held(h) /\ ~Forgetting(h) /\ Held(h) \in open \cup crossed
    BY <1>2 DEF HeldOpen
  <2>2. Held(h) = Held(g) => Held(h) \in crossed
    BY <2>1 DEF Single
  <2>3. QED BY <2>1, <2>2
<1>3. QED BY <1>1, <1>2 DEF HeldOpen

(* What each kind of slot holds, now and after a step.                     *)
LEMMA HeldIs ==
  /\ \A i \in Places : /\ Held(<<"parked", i>>) = parked[i] /\ Held(<<"parked", i>>)' = parked'[i]
                       /\ ~Forgetting(<<"parked", i>>) /\ ~Forgetting(<<"parked", i>>)'
  /\ \A i \in Ids : /\ Held(<<"terminal", i>>) = shell[i] /\ Held(<<"terminal", i>>)' = shell'[i]
                    /\ ~Forgetting(<<"terminal", i>>) /\ ~Forgetting(<<"terminal", i>>)'
  /\ \A d \in Detail : /\ Held(<<"detail", d>>) = DetailHeld(detail[d])
                       /\ Held(<<"detail", d>>)' = DetailHeld(detail'[d])
                       /\ ~Forgetting(<<"detail", d>>) /\ ~Forgetting(<<"detail", d>>)'
  /\ \A b \in Browser : /\ Held(<<"browser", b>>) = BrowserHeld(browser[b])
                        /\ Held(<<"browser", b>>)' = BrowserHeld(browser'[b])
                        /\ Forgetting(<<"browser", b>>) <=> browser[b].at = "forget"
                        /\ Forgetting(<<"browser", b>>)' <=> browser'[b].at = "forget"
  /\ \A s \in Helper : /\ Held(<<"helper", s>>) = HelperHeld(helper[s])
                       /\ Held(<<"helper", s>>)' = HelperHeld(helper'[s])
                       /\ ~Forgetting(<<"helper", s>>) /\ ~Forgetting(<<"helper", s>>)'
BY DEF Held, DetailHeld, BrowserHeld, HelperHeld, Forgetting

(* A step that touches one kind of slot leaves the others alone.           *)
LEMMA OnlyTerminal ==
  ASSUME TypeOK, NEW i \in Ids, NEW c, SetTerminal(i, c),
         UNCHANGED <<parked, detail, browser, helper>>
  PROVE  /\ Held(<<"terminal", i>>)' = c
         /\ \A h \in Slots \ {<<"terminal", i>>} : Held(h)' = Held(h)
         /\ \A h \in Slots : Forgetting(h)' <=> Forgetting(h)
<1>1. shell'[i] = c /\ \A j \in Ids \ {i} : shell'[j] = shell[j]
  BY DEF SetTerminal, TypeOK
<1>2. QED BY <1>1, SlotCases, HeldIs

LEMMA OnlyDetail ==
  ASSUME TypeOK, NEW d \in Detail, NEW r \in DetailRecord, SetDetail(d, r),
         UNCHANGED <<parked, shell, browser, helper>>
  PROVE  /\ Held(<<"detail", d>>)' = DetailHeld(Ended(r, NoDetail))
         /\ DetailHeld(Ended(r, NoDetail)) \in {DetailHeld(r), None}
         /\ \A h \in Slots \ {<<"detail", d>>} : Held(h)' = Held(h)
         /\ \A h \in Slots : Forgetting(h)' <=> Forgetting(h)
<1>1. detail'[d] = Ended(r, NoDetail) /\ \A e \in Detail \ {d} : detail'[e] = detail[e]
  BY DEF SetDetail, TypeOK
<1>2. DetailHeld(Ended(r, NoDetail)) \in {DetailHeld(r), None}
  BY DEF Ended, DetailHeld, NoDetail
<1>3. QED BY <1>1, <1>2, SlotCases, HeldIs

LEMMA OnlyBrowser ==
  ASSUME TypeOK, NEW b \in Browser, NEW r \in BrowserRecord, SetBrowser(b, r),
         UNCHANGED <<parked, shell, detail, helper>>
  PROVE  /\ Held(<<"browser", b>>)' = BrowserHeld(Ended(r, NoBrowser))
         /\ BrowserHeld(Ended(r, NoBrowser)) \in {BrowserHeld(r), None}
         /\ \A h \in Slots \ {<<"browser", b>>} :
              Held(h)' = Held(h) /\ (Forgetting(h)' <=> Forgetting(h))
         /\ Forgetting(<<"browser", b>>)' <=> r.at = "forget"
<1>1. browser'[b] = Ended(r, NoBrowser) /\ \A a \in Browser \ {b} : browser'[a] = browser[a]
  BY DEF SetBrowser, TypeOK
<1>2. BrowserHeld(Ended(r, NoBrowser)) \in {BrowserHeld(r), None}
  BY DEF Ended, BrowserHeld, NoBrowser
<1>3. Ended(r, NoBrowser).at = r.at
  BY DEF Ended, NoBrowser
<1>4. QED BY <1>1, <1>2, <1>3, SlotCases, HeldIs

LEMMA OnlyHelper ==
  ASSUME TypeOK, NEW s \in Helper, NEW r \in HelperRecord, SetHelper(s, r),
         UNCHANGED <<parked, shell, detail, browser>>
  PROVE  /\ Held(<<"helper", s>>)' = HelperHeld(Ended(r, NoHelper))
         /\ HelperHeld(Ended(r, NoHelper)) \in {HelperHeld(r), None}
         /\ \A h \in Slots \ {<<"helper", s>>} : Held(h)' = Held(h)
         /\ \A h \in Slots : Forgetting(h)' <=> Forgetting(h)
<1>1. helper'[s] = Ended(r, NoHelper) /\ \A a \in Helper \ {s} : helper'[a] = helper[a]
  BY DEF SetHelper, TypeOK
<1>2. HelperHeld(Ended(r, NoHelper)) \in {HelperHeld(r), None}
  BY DEF Ended, HelperHeld, NoHelper
<1>3. QED BY <1>1, <1>2, SlotCases, HeldIs

(* One slot takes a connection just made.                                  *)
LEMMA FreshInSlot ==
  ASSUME TypeOK, TypeOK', Single, HeldOpen, NEW k \in Slots, NEW c \in Conn,
         Fresh(c), Open(c), crossed' = crossed,
         Held(k)' \in {c, None},
         \A h \in Slots \ {k} : Held(h)' = Held(h) /\ (Forgetting(h)' <=> Forgetting(h))
  PROVE  Single' /\ HeldOpen'
<1>1. \A h \in Slots : Held(h) # c
  BY HeldType
<1>2. open' = open \cup {c} /\ c \notin open
  BY DEF Open, Fresh, Known
<1>3. HeldOpen'
  BY <1>2, NothingFreed
<1>4. \A h \in Slots \ {k} : /\ Held(h)' \in {Held(h), None}
                             /\ Held(h)' = Held(k)' => Held(k)' \notin open' \ crossed'
  BY <1>1, SharingAssumption DEF TypeOK
<1>5. CASE Held(k)' = c
  <2>1. open' \ crossed' \subseteq (open \ crossed) \cup {Held(k)'}
    BY <1>2, <1>5
  <2>2. QED BY <1>3, <1>4, <2>1, OneNewHolder
<1>6. CASE Held(k)' = None
  <2>1. SUFFICES ASSUME NEW g \in Slots, NEW h \in Slots, Held(g)' = Held(h)',
                        Held(g)' \in open' \ crossed'
                 PROVE  g = h
    BY <1>3 DEF Single
  <2>2. g # k /\ h # k /\ Held(g)' = Held(g) /\ Held(h)' = Held(h)
    BY <1>6, <2>1, SharingAssumption DEF TypeOK
  <2>3. Held(g) # c
    BY <1>1
  <2>4. Held(g) \in open \ crossed
    BY <1>2, <2>1, <2>2, <2>3
  <2>5. QED BY <2>1, <2>2, <2>4 DEF Single
<1>7. QED BY <1>3, <1>5, <1>6

(* A step over whose slots nothing passes.                                 *)
LEMMA SameSlots ==
  ASSUME TypeOK, TypeOK', Single, HeldOpen, UNCHANGED open, crossed \subseteq crossed',
         \A h \in Slots :
           /\ Held(h)' \in {Held(h), None}
           /\ Forgetting(h) => Forgetting(h)' \/ Held(h)' = None
  PROVE  Single' /\ HeldOpen'
<1>1. Single'
  BY NoNewHolder
<1>2. QED BY <1>1, NothingFreed
-----------------------------------------------------------------------------
(* The terminals.                                                          *)
LEMMA ConnectsHolds ==
  ASSUME Inv, TypeOK', NEW i \in Ids, Connects(i),
         UNCHANGED <<parked, detail, browser, helper, crossed>>
  PROVE  Single' /\ HeldOpen'
<1> USE SlotCases DEF Inv
<1>1. ASSUME NEW c \in Conn, Fresh(c), Open(c), SetTerminal(i, c)
      PROVE  Single' /\ HeldOpen'
  BY <1>1, OnlyTerminal, FreshInSlot
<1>2. CASE UNCHANGED open /\ SetTerminal(i, None)
  BY <1>2, OnlyTerminal, SameSlots
<1>3. QED BY <1>1, <1>2 DEF Connects

LEMMA TerminalHolds ==
  ASSUME Inv, TypeOK', TerminalStep
  PROVE  Single' /\ HeldOpen'
<1> USE SlotCases DEF Inv
<1>1. CASE NewTerminal
  BY <1>1, ConnectsHolds DEF NewTerminal
<1>2. CASE ReconnectTerminal
  <2>1. Head(sessions) \in Ids
    BY <1>2 DEF ReconnectTerminal, TypeOK
  <2>2. QED BY <1>2, <2>1, ConnectsHolds DEF ReconnectTerminal
<1>3. ASSUME NEW i \in Ids, RestoreTerminal(i) PROVE Single' /\ HeldOpen'
  <2>1. i \in Places /\ parked \in [Places -> Conn \cup {None}] /\ shell \in [Ids -> Conn \cup {None}]
    BY DEF Places, TypeOK
  <2>2. CASE parked[i] = None
    <3>1. UNCHANGED parked
      BY <1>3, <2>1, <2>2 DEF RestoreTerminal, Taken
    <3>2. QED BY <1>3, <2>2, <3>1, ConnectsHolds DEF RestoreTerminal
  <2>3. CASE parked[i] # None
    <3> DEFINE g == <<"parked", i>>
               k == <<"terminal", i>>
    <3>1. shell'[i] = parked[i] /\ \A j \in Ids \ {i} : shell'[j] = shell[j]
      BY <1>3, <2>1, <2>3 DEF RestoreTerminal, SetTerminal
    <3>2. parked'[i] = None /\ \A j \in Places \ {i} : parked'[j] = parked[j]
      BY <1>3, <2>1 DEF RestoreTerminal, Taken
    <3>3. g \in Slots /\ k \in Slots /\ g # k /\ Held(k)' = Held(g) /\ Held(g)' = None
      BY <2>1, <3>1, <3>2, HeldIs
    <3>4. UNCHANGED <<open, detail, browser, helper, crossed>>
      BY <1>3, <2>3 DEF RestoreTerminal
    <3>5. \A h \in Slots \ {k} : Held(h)' \in {Held(h), None} /\ (Forgetting(h)' <=> Forgetting(h))
      BY <3>1, <3>2, <3>4, HeldIs
    <3> HIDE DEF g, k
    <3>6. Single'
      BY <3>3, <3>4, <3>5, MovedToSlot
    <3>7. Held(g) # None => Held(g) \in open \cup crossed
      BY <2>1, <3>3, HeldIs DEF HeldOpen, g
    <3>8. HeldOpen'
      BY <3>3, <3>4, <3>5, <3>7, NothingFreed
    <3>9. QED BY <3>6, <3>8
  <2>4. QED BY <2>2, <2>3
<1>4. ASSUME NEW i \in Ids, EndTerminal(i) PROVE Single' /\ HeldOpen'
  <2>1. Held(<<"terminal", i>>) = shell[i] /\ <<"terminal", i>> \in Slots
    BY HeldIs
  <2>2. UNCHANGED <<parked, detail, browser, helper, crossed>> /\ SetTerminal(i, None)
        /\ open' = open \ {shell[i]}
    BY <1>4 DEF EndTerminal, Free
  <2>3. QED BY <2>1, <2>2, OnlyTerminal, FreedByHolder
<1>5. ASSUME NEW i \in Ids, CloseContainer(i) PROVE Single' /\ HeldOpen'
  <2>1. Held(<<"terminal", i>>) = shell[i] /\ <<"terminal", i>> \in Slots
    BY HeldIs
  <2>2. UNCHANGED <<parked, detail, browser, helper, crossed>> /\ open' = open \ {shell[i]}
    BY <1>5 DEF CloseContainer, Free
  <2>3. shell'[i] = None /\ \A j \in Ids \ {i} : shell'[j] = shell[j]
    BY <1>5 DEF CloseContainer, TypeOK
  <2>4. /\ Held(<<"terminal", i>>)' = None
        /\ \A h \in Slots : Held(h)' \in {Held(h), None} /\ (Forgetting(h)' <=> Forgetting(h))
    BY <2>2, <2>3, HeldIs
  <2>5. QED BY <2>1, <2>2, <2>4, FreedByHolder
<1>6. QED BY <1>1, <1>2, <1>3, <1>4, <1>5 DEF TerminalStep
-----------------------------------------------------------------------------
(* The detail screens.                                                     *)
LEMMA DetailHolds ==
  ASSUME Inv, TypeOK', NEW d \in Detail, DetailStep(d)
  PROVE  Single' /\ HeldOpen'
<1> DEFINE g == <<"detail", d>>
<1> USE SlotCases DEF Inv
<1>0. /\ detail[d] \in DetailRecord /\ g \in Slots /\ Held(g) = DetailHeld(detail[d])
      /\ None \notin Conn /\ ~Forgetting(g)
  BY HeldIs, SharingAssumption DEF TypeOK, DetailRecord
<1>1. ASSUME NEW r \in DetailRecord, SetDetail(d, r), DetailHeld(r) \in {Held(g), None},
             UNCHANGED <<open, parked, shell, browser, helper, crossed>>
      PROVE  Single' /\ HeldOpen'
  BY <1>0, <1>1, OnlyDetail, SameSlots
<1> USE <1>0 DEF DetailRecord, DetailHeld, termVars
<1>2. CASE OpenDetail(d)
  <2>1. SetDetail(d, [NoDetail EXCEPT !.screen = "started", !.at = "connect"])
    BY <1>2 DEF OpenDetail, SetDetail, Ended, NoDetail
  <2>2. QED BY <1>1, <1>2, <2>1 DEF OpenDetail, NoDetail
<1>3. CASE StartDetail(d)
  <2>1. PICK at \in {detail[d].at} \cup {"connect"} :
          /\ SetDetail(d, [detail[d] EXCEPT !.screen = "started", !.at = at])
          /\ detail[d].at # "idle" => at = detail[d].at
    BY <1>3 DEF StartDetail
  <2>2. QED BY <1>1, <1>3, <2>1 DEF StartDetail
<1>4. ASSUME NEW r \in DetailRecord, SetDetail(d, r), r.at = detail[d].at, r.keep = detail[d].keep,
             r.conn = IF detail[d].keep THEN r.conn ELSE None,
             Free(Released(d)), crossed' = crossed \cup AsParked(d),
             UNCHANGED <<parked, shell, browser, helper>>
      PROVE  Single' /\ HeldOpen'
  <2>1. DetailHeld(r) = None
    BY <1>4
  <2>2. /\ Held(g)' = None /\ \A h \in Slots \ {g} : Held(h)' = Held(h)
        /\ \A h \in Slots : Forgetting(h)' <=> Forgetting(h)
    BY <1>4, <2>1, OnlyDetail
  <2>3. CASE detail[d].at \in {"keep", "keepNew"}
    <3>0. /\ crossed' = crossed \cup ({detail[d].conn} \ {None})
          /\ open' = open \ {IF detail[d].keep THEN None ELSE detail[d].conn}
          /\ None \notin open
      BY <1>4, <2>3 DEF Free, Released, AsParked, TypeOK
    <3>1. open' \ crossed' \subseteq open \ crossed /\ open \subseteq open' \cup crossed'
          /\ crossed \subseteq crossed'
      BY <3>0
    <3>2. Single'
      BY <2>2, <3>1, NoNewHolder
    <3>3. HeldOpen'
      BY <2>2, <3>1 DEF HeldOpen
    <3>4. QED BY <3>2, <3>3
  <2>4. CASE detail[d].at \notin {"keep", "keepNew"}
    <3>1. open' = open \ {Held(g)} /\ crossed' = crossed
      BY <1>4, <2>4 DEF Free, Released, AsParked
    <3>2. QED BY <2>2, <3>1, FreedByHolder
  <2>5. QED BY <2>3, <2>4
<1>5. CASE StopDetail(d)
  BY <1>4, <1>5 DEF StopDetail
<1>6. CASE DestroyDetail(d)
  BY <1>4, <1>6 DEF DestroyDetail
<1>7. CASE ConnectDetail(d)
  <2>1. ASSUME NEW c \in Conn, Fresh(c), Open(c),
               SetDetail(d, [detail[d] EXCEPT !.conn = c, !.at = "register"])
        PROVE  Single' /\ HeldOpen'
    <3>1. UNCHANGED <<parked, shell, browser, helper, crossed>>
      BY <1>7 DEF ConnectDetail
    <3> DEFINE r == [detail[d] EXCEPT !.conn = c, !.at = "register"]
    <3>2. r \in DetailRecord /\ DetailHeld(r) \in {c, None} /\ SetDetail(d, r)
      BY <2>1
    <3> HIDE DEF r
    <3>3. /\ Held(g)' \in {c, None}
          /\ \A h \in Slots \ {g} : Held(h)' = Held(h) /\ (Forgetting(h)' <=> Forgetting(h))
      BY <3>1, <3>2, OnlyDetail
    <3>4. QED BY <2>1, <3>1, <3>3, FreshInSlot
  <2>2. QED BY <1>1, <1>7, <2>1 DEF ConnectDetail
<1>8. CASE RegisterDetail(d)
  <2>1. sessions # <<>> => Head(sessions) \in Ids
    BY DEF TypeOK
  <2>2. \E id \in Ids \cup {None}, at \in {"idle", "park", "parkNew"} :
          \/ SetDetail(d, [detail[d] EXCEPT !.at = at])
          \/ SetDetail(d, [detail[d] EXCEPT !.id = id, !.at = at])
    BY <1>8, <2>1 DEF RegisterDetail
  <2>3. UNCHANGED <<open, parked, shell, browser, helper, crossed>>
    BY <1>8 DEF RegisterDetail
  <2>4. detail[d].at = "register"
    BY <1>8 DEF RegisterDetail
  <2>5. ASSUME NEW id \in Ids \cup {None}, NEW at \in {"idle", "park", "parkNew"},
               \/ SetDetail(d, [detail[d] EXCEPT !.at = at])
               \/ SetDetail(d, [detail[d] EXCEPT !.id = id, !.at = at])
        PROVE  Single' /\ HeldOpen'
    <3>1. CASE SetDetail(d, [detail[d] EXCEPT !.at = at])
      BY <1>1, <2>3, <2>4, <3>1
    <3>2. CASE SetDetail(d, [detail[d] EXCEPT !.id = id, !.at = at])
      BY <1>1, <2>3, <2>4, <3>2
    <3>3. QED BY <2>5, <3>1, <3>2
  <2>6. QED BY <2>2, <2>5
<1>9. CASE ParkDetail(d)
  <2>0. detail[d].id \in Places
    BY <1>9 DEF ParkDetail, Agree, DetailsAgree, Places
  <2> PICK i \in Places, c \in Conn \cup {None} : i = detail[d].id /\ c = detail[d].conn
    BY <2>0
  <2> DEFINE k == <<"parked", i>>
  <2>1. k \in Slots /\ ~detail[d].keep
    BY <1>9 DEF ParkDetail, Agree, DetailsAgree
  <2>2. UNCHANGED <<open, shell, browser, helper, crossed>>
    BY <1>9 DEF ParkDetail
  <2>3. Held(g) = c /\ detail'[d].at \in {"keep", "keepNew"}
        /\ \A e \in Detail \ {d} : detail'[e] = detail[e]
    BY <1>9, <2>1 DEF ParkDetail, SetDetail, Ended, TypeOK
  <2>4. parked' = IF c = None THEN parked ELSE [parked EXCEPT ![i] = c]
    BY <1>9 DEF ParkDetail, WithParked
  <2>11. parked'[i] = IF c = None THEN parked[i] ELSE c
    BY <2>1, <2>4 DEF TypeOK, Places
  <2>12. \A j \in Places \ {i} : parked'[j] = parked[j]
    BY <2>4 DEF TypeOK, Places
  <2>5. /\ Held(g)' = None
        /\ \A h \in Slots \ {g, k} : Held(h)' = Held(h)
        /\ \A h \in Slots : Forgetting(h)' <=> Forgetting(h)
    <3>1. Held(g)' = None
      BY <2>3, HeldIs
    <3>2. QED BY <2>2, <2>3, <2>12, <3>1, HeldIs
  <2>6. Held(k)' = IF c = None THEN Held(k) ELSE c
    BY <2>1, <2>11, HeldIs
  <2>7. g # k
    OBVIOUS
  <2> HIDE DEF g, k
  <2>13. /\ \A h \in Slots \ {k} : Held(h)' \in {Held(h), None}
         /\ open' \ crossed' \subseteq open \ crossed
    BY <2>2, <2>5
  <2>8. CASE c = None
    <3>1. \A h \in Slots : Held(h)' \in {Held(h), None}
      BY <2>6, <2>8, <2>13
    <3>2. QED BY <2>2, <2>5, <3>1, SameSlots
  <2>9. CASE c # None
    <3>1. Held(k)' = Held(g) /\ Held(g)' = None
      BY <2>3, <2>5, <2>6, <2>9
    <3>2. Single'
      BY <2>1, <2>7, <2>13, <3>1, MovedToSlot
    <3>3. Held(g) \in open \cup crossed
      BY <2>3, <2>9 DEF HeldOpen
    <3>6. \A h \in Slots : Held(h)' # None /\ ~Forgetting(h)' =>
            \/ Held(h)' = Held(h) /\ ~Forgetting(h)
            \/ Held(h)' \in open' \cup crossed'
      BY <2>2, <2>5, <3>1, <3>3
    <3>4. HeldOpen'
      BY <2>2, <3>6, NothingFreed
    <3>5. QED BY <3>2, <3>4
  <2>10. QED BY <2>8, <2>9
<1>10. CASE KeepDetail(d)
  BY <1>1, <1>10 DEF KeepDetail
<1>11. QED BY <1>2, <1>3, <1>5, <1>6, <1>7, <1>8, <1>9, <1>10 DEF DetailStep
-----------------------------------------------------------------------------
(* The helper screens.                                                     *)
LEMMA HelperHolds ==
  ASSUME Inv, TypeOK', NEW s \in Helper, HelperStep(s)
  PROVE  Single' /\ HeldOpen'
<1> DEFINE g == <<"helper", s>>
<1> USE SlotCases DEF Inv
<1>0. /\ helper[s] \in HelperRecord /\ g \in Slots /\ Held(g) = HelperHeld(helper[s])
      /\ None \notin Conn /\ ~Forgetting(g)
  BY HeldIs, SharingAssumption DEF TypeOK, HelperRecord
<1>1. ASSUME NEW r \in HelperRecord, SetHelper(s, r), HelperHeld(r) \in {Held(g), None},
             UNCHANGED <<open, parked, shell, detail, browser, crossed>>
      PROVE  Single' /\ HeldOpen'
  BY <1>0, <1>1, OnlyHelper, SameSlots
<1> USE <1>0 DEF HelperRecord, HelperHeld, termVars
<1>2. CASE OpenHelper(s)
  <2>1. SetHelper(s, [NoHelper EXCEPT !.screen = "open", !.at = "connect"])
    BY <1>2 DEF OpenHelper, SetHelper, Ended, NoHelper
  <2>2. QED BY <1>1, <1>2, <2>1 DEF OpenHelper, NoHelper
<1>3. CASE ConnectHelper(s)
  <2>0. UNCHANGED <<parked, shell, detail, browser, crossed>>
    BY <1>3 DEF ConnectHelper
  <2>1. CASE Connected # {} /\ HelperGets(s, shell[FindConnected], "borrowed") /\ UNCHANGED open
    <3>1. shell[FindConnected] \in Conn
      BY <2>1, FindConnectedFacts DEF Agree
    <3>2. QED BY <1>1, <2>0, <2>1, <3>1 DEF HelperGets
  <2>2. ASSUME NEW c \in Conn, Fresh(c), Open(c), HelperGets(s, c, "idle")
        PROVE  Single' /\ HeldOpen'
    <3> DEFINE r == [helper[s] EXCEPT !.conn = c, !.at = "idle"]
    <3>1. r \in HelperRecord /\ HelperHeld(r) \in {c, None} /\ SetHelper(s, r)
      BY <2>2 DEF HelperGets
    <3> HIDE DEF r
    <3>2. /\ Held(g)' \in {c, None}
          /\ \A h \in Slots \ {g} : Held(h)' = Held(h) /\ (Forgetting(h)' <=> Forgetting(h))
      BY <2>0, <3>1, OnlyHelper
    <3>3. QED BY <2>0, <2>2, <3>2, FreshInSlot
  <2>3. CASE HelperGets(s, None, "idle") /\ UNCHANGED open
    BY <1>1, <2>0, <2>3 DEF HelperGets
  <2>4. QED BY <1>3, <2>1, <2>2, <2>3 DEF ConnectHelper
<1>4. CASE StoreShared(s)
  BY <1>1, <1>4 DEF StoreShared
<1>5. CASE ReloadHelper(s)
  BY <1>1, <1>5 DEF ReloadHelper
<1>6. CASE DestroyHelper(s)
  <2>1. /\ UNCHANGED <<parked, shell, detail, browser>> /\ crossed \subseteq crossed'
        /\ open' = open \ {Releases(s)}
    BY <1>6 DEF DestroyHelper, Free
  <2> DEFINE r == [helper[s] EXCEPT !.screen = "closed", !.conn = None, !.shared = FALSE]
  <2>6. r \in HelperRecord /\ HelperHeld(r) = None /\ SetHelper(s, r)
    BY <1>6 DEF DestroyHelper
  <2> HIDE DEF r
  <2>2. /\ Held(g)' = None /\ \A h \in Slots \ {g} : Held(h)' = Held(h)
        /\ \A h \in Slots : Forgetting(h)' <=> Forgetting(h)
    BY <2>1, <2>6, OnlyHelper
  <2>3. CASE Releases(s) = Held(g)
    BY <2>1, <2>2, <2>3, FreedByHolder
  <2>4. CASE Releases(s) # Held(g)
    <3>1. helper[s].at = "borrowed" /\ Releases(s) = helper[s].conn
      BY <2>4 DEF Releases
    <3>2. open \subseteq open' \cup crossed'
      BY <1>6, <2>1, <3>1 DEF DestroyHelper
    <3>3. Single'
      BY <2>1, <2>2, NoNewHolder
    <3>4. HeldOpen'
      BY <2>1, <2>2, <3>2 DEF HeldOpen
    <3>5. QED BY <3>3, <3>4
  <2>5. QED BY <2>3, <2>4
<1>7. QED BY <1>2, <1>3, <1>4, <1>5, <1>6 DEF HelperStep
-----------------------------------------------------------------------------
(* The file browsers.                                                      *)
Opened(id, conn) == [NoBrowser EXCEPT !.screen = "open", !.id = id, !.at = "connect",
                       !.conn = conn, !.shared = conn # None, !.prefer = conn = None]

LEMMA OpenedRecord ==
  ASSUME NEW id \in Places, NEW conn \in Conn \cup {None}
  PROVE  /\ Opened(id, conn) \in BrowserRecord
         /\ Opened(id, conn).conn = conn /\ Opened(id, conn).at = "connect"
         /\ ~Opened(id, conn).borrowed /\ Opened(id, conn).screen = "open"
BY DEF Opened, NoBrowser, Places, BrowserRecord

LEMMA BrowserHolds ==
  ASSUME Inv, TypeOK', NEW b \in Browser, BrowserStep(b)
  PROVE  Single' /\ HeldOpen'
<1> DEFINE g == <<"browser", b>>
<1> USE SlotCases DEF Inv
<1>0. /\ browser[b] \in BrowserRecord /\ g \in Slots /\ Held(g) = BrowserHeld(browser[b])
      /\ None \notin Conn /\ (Forgetting(g) <=> browser[b].at = "forget")
      /\ BrowserAgrees(browser[b], open)
  BY HeldIs, SharingAssumption
     DEF TypeOK, BrowserRecord, BrowserAgrees, Agree, BrowsersAgree
<1>1. ASSUME NEW r \in BrowserRecord, SetBrowser(b, r), BrowserHeld(r) \in {Held(g), None},
             browser[b].at = "forget" => r.at = "forget" \/ BrowserHeld(r) = None,
             UNCHANGED <<open, parked, shell, detail, helper>>, crossed \subseteq crossed'
      PROVE  Single' /\ HeldOpen'
  <2>1. /\ Held(g)' \in {BrowserHeld(r), None}
        /\ Forgetting(g)' <=> r.at = "forget"
        /\ \A h \in Slots \ {g} : Held(h)' = Held(h) /\ (Forgetting(h)' <=> Forgetting(h))
    BY <1>1, OnlyBrowser
  <2> HIDE DEF g
  <2>2. \A h \in Slots : /\ Held(h)' \in {Held(h), None}
                         /\ Forgetting(h) => Forgetting(h)' \/ Held(h)' = None
    BY <1>0, <1>1, <2>1
  <2>3. QED BY <1>1, <2>2, SameSlots
<1> USE <1>0 DEF BrowserRecord, BrowserHeld, termVars
<1>2. CASE OpenBrowser(b)
  <2>1. PICK hint \in Hints : OpenBrowser(b)!(hint)
    BY <1>2 DEF OpenBrowser
  <2> DEFINE free == hint # None /\ ~HasTerminal(hint)
             id0   == IF free THEN hint ELSE Endpoint
             conn0 == IF free THEN parked[id0] ELSE None
  <2>2. id0 \in Places /\ conn0 \in Conn \cup {None}
    BY IdsFacts DEF Hints, TypeOK, Ids, Places
  <2> PICK id \in Places, conn \in Conn \cup {None} : id = id0 /\ conn = conn0
    BY <2>2
  <2> DEFINE new == Opened(id, conn)
             k == <<"parked", id>>
  <2>3. /\ browser' = [browser EXCEPT ![b] = new] /\ browser[b] = NoBrowser
        /\ UNCHANGED <<open, shell, detail, helper, crossed>>
    BY <2>1 DEF Opened
  <2>4. conn # None => parked' = [parked EXCEPT ![id] = None] /\ conn = parked[id]
    BY <2>1 DEF Taken
  <2>5. conn = None => UNCHANGED parked \/ parked' = [parked EXCEPT ![id] = None]
    BY <2>1 DEF Taken
  <2> HIDE DEF id0, conn0, free
  <2>6. new \in BrowserRecord /\ BrowserHeld(new) = conn /\ new.at = "connect"
    BY OpenedRecord
  <2> HIDE DEF new
  <2>7. browser'[b] = new /\ \A a \in Browser \ {b} : browser'[a] = browser[a]
    BY <2>3 DEF TypeOK
  <2>8. \A j \in Places : parked'[j] = parked[j] \/ (j = id /\ parked'[j] = None)
    BY <2>4, <2>5 DEF TypeOK, Places
  <2>9. Held(g) = None /\ Held(g)' = conn /\ ~Forgetting(g) /\ ~Forgetting(g)' /\ k \in Slots /\ k # g
    BY <2>3, <2>6, <2>7, HeldIs DEF NoBrowser
  <2>10. \A h \in Slots \ {g} : Held(h)' \in {Held(h), None} /\ (Forgetting(h)' <=> Forgetting(h))
    BY <2>3, <2>7, <2>8, HeldIs
  <2>11. conn # None => Held(k) = conn /\ Held(k)' = None /\ ~Forgetting(k)
    BY <2>4, HeldIs DEF TypeOK, Places
  <2> HIDE DEF g, k
  <2>12. open' \ crossed' \subseteq open \ crossed
    BY <2>3
  <2>13. CASE conn = None
    <3>1. \A h \in Slots : Held(h)' \in {Held(h), None}
      BY <2>9, <2>10, <2>13
    <3>2. QED BY <2>3, <2>9, <2>10, <3>1, SameSlots
  <2>14. CASE conn # None
    <3>1. Single'
      BY <2>9, <2>10, <2>11, <2>12, <2>14, MovedToSlot
    <3>2. conn \in open \cup crossed
      BY <2>9, <2>11, <2>14 DEF HeldOpen
    <3>3. \A h \in Slots : Held(h)' # None /\ ~Forgetting(h)' =>
            \/ Held(h)' = Held(h) /\ ~Forgetting(h)
            \/ Held(h)' \in open' \cup crossed'
      BY <2>3, <2>9, <2>10, <3>2
    <3>4. HeldOpen'
      BY <2>3, <3>3, NothingFreed
    <3>5. QED BY <3>1, <3>4
  <2>15. QED BY <2>13, <2>14
<1>3. CASE Reload(b)
  BY <1>1, <1>3 DEF Reload
<1>4. CASE ConnectBrowser(b)
  <2>1. UNCHANGED <<parked, shell, detail, helper, crossed>> /\ browser[b].at \in {"connect", "reconnect"}
    BY <1>4 DEF ConnectBrowser
  <2>2. ASSUME NEW c \in Conn \cup {None}, NEW x \in BOOLEAN, NEW y \in BOOLEAN,
               BrowserGets(b, c, x, y), UNCHANGED open, y \/ (c = browser[b].conn /\ y = browser[b].borrowed)
        PROVE  Single' /\ HeldOpen'
    BY <1>1, <2>1, <2>2 DEF BrowserGets
  <2>3. ASSUME NEW c \in Conn, Fresh(c), Open(c), BrowserGets(b, c, FALSE, FALSE)
        PROVE  Single' /\ HeldOpen'
    <3> DEFINE r == [browser[b] EXCEPT !.conn = c, !.shared = FALSE, !.borrowed = FALSE,
                       !.at = IF @ = "connect" THEN "list" ELSE "relist"]
    <3>1. r \in BrowserRecord /\ BrowserHeld(r) = c /\ SetBrowser(b, r) /\ r.at # "forget"
      BY <2>3 DEF BrowserGets
    <3> HIDE DEF r
    <3>2. /\ Held(g)' \in {c, None}
          /\ \A h \in Slots \ {g} : Held(h)' = Held(h) /\ (Forgetting(h)' <=> Forgetting(h))
      BY <2>1, <3>1, OnlyBrowser
    <3>3. QED BY <2>1, <2>3, <3>2, FreshInSlot
  <2>4. Connected # {} => shell[FindConnected] \in Conn
    BY FindConnectedFacts DEF Agree
  <2>5. SetBrowser(b, [browser[b] EXCEPT !.at = "idle"]) /\ UNCHANGED open => Single' /\ HeldOpen'
    BY <1>1, <2>1
  <2>6. QED BY <1>4, <2>2, <2>3, <2>4, <2>5 DEF ConnectBrowser
<1>5. CASE ListedWell(b)
  BY <1>1, <1>5 DEF ListedWell
<1>6. CASE DropShared(b)
  BY <1>1, <1>6 DEF DropShared
<1>7. CASE DropOwn(b)
  <2>1. /\ SetBrowser(b, [browser[b] EXCEPT !.at = "forget"])
        /\ UNCHANGED <<parked, shell, detail, helper, crossed>>
        /\ browser[b].at \in {"list", "relist"}
    BY <1>7 DEF DropOwn
  <2>2. CASE browser[b].shared
    BY <1>1, <1>7, <2>1, <2>2 DEF DropOwn
  <2>3. CASE ~browser[b].shared
    <3>1. ~browser[b].borrowed /\ Held(g) = browser[b].conn
      BY <2>3 DEF BrowserAgrees
    <3>2. open' = open \ {Held(g)}
      BY <1>7, <2>3, <3>1 DEF DropOwn, Free
    <3>3. /\ Held(g)' \in {Held(g), None} /\ Forgetting(g)'
          /\ \A h \in Slots \ {g} : Held(h)' = Held(h) /\ (Forgetting(h)' <=> Forgetting(h))
      BY <2>1, <3>1, OnlyBrowser
    <3> HIDE DEF g
    <3>4. \A h \in Slots : Held(h)' \in {Held(h), None} /\ (Forgetting(h) => Forgetting(h)')
      BY <3>3
    <3>5. QED BY <2>1, <3>2, <3>3, <3>4, FreedByHolder
  <2>4. QED BY <2>2, <2>3
<1>8. CASE ForgetOwn(b)
  BY <1>1, <1>8 DEF ForgetOwn
<1>9. CASE DestroyBrowser(b)
  <2>0. browser[b].id \in Places
    BY <1>9 DEF DestroyBrowser, BrowserAgrees
  <2> PICK i \in Places, c \in Conn \cup {None} : i = browser[b].id /\ c = browser[b].conn
    BY <2>0
  <2> DEFINE k == <<"parked", i>>
             r == [browser[b] EXCEPT !.screen = "closed", !.conn = None, !.borrowed = FALSE,
                                     !.shared = IF c = None THEN @ ELSE TRUE]
  <2>1. /\ SetBrowser(b, r) /\ r \in BrowserRecord /\ BrowserHeld(r) = None
        /\ UNCHANGED <<open, shell, detail, helper>> /\ crossed \subseteq crossed'
    BY <1>9 DEF DestroyBrowser
  <2>2. (browser[b].borrowed \/ browser[b].at = "forget") /\ c # None => c \in crossed'
    BY <1>9 DEF DestroyBrowser
  <2>3. parked' = IF c = None THEN parked ELSE [parked EXCEPT ![i] = c]
    BY <1>9 DEF DestroyBrowser, WithParked
  <2> HIDE DEF r
  <2>4. CASE c = None
    BY <1>1, <2>1, <2>3, <2>4
  <2>5. CASE c # None
    <3>1. parked'[i] = c /\ \A j \in Places \ {i} : parked'[j] = parked[j]
      BY <2>3, <2>5 DEF TypeOK, Places
    <3>2. BrowserHeld(browser'[b]) = None /\ \A a \in Browser \ {b} : browser'[a] = browser[a]
      BY <2>1 DEF SetBrowser, Ended, NoBrowser, TypeOK
    <3>3. /\ k \in Slots /\ k # g /\ Held(k)' = c /\ Held(g)' = None
          /\ \A h \in Slots \ {g, k} : Held(h)' = Held(h) /\ (Forgetting(h)' <=> Forgetting(h))
          /\ ~Forgetting(k)' /\ ~Forgetting(k)
      BY <2>1, <3>1, <3>2, HeldIs
    <3>4. \/ c \in crossed'
          \/ Held(g) = c /\ ~Forgetting(g)
      BY <2>2, <2>5
    <3> HIDE DEF g, k
    <3>5. /\ \A h \in Slots \ {k} : Held(h)' \in {Held(h), None}
          /\ open' \ crossed' \subseteq open \ crossed
      BY <2>1, <3>3
    <3>6. c \in open' \cup crossed'
      BY <2>1, <2>5, <3>4 DEF HeldOpen
    <3>7. Single'
      <4>1. CASE c \in crossed'
        <5>1. /\ \A h \in Slots \ {k} :
                   /\ Held(h)' \in {Held(h), None}
                   /\ Held(h)' = Held(k)' => Held(k)' \notin open' \ crossed'
              /\ open' \ crossed' \subseteq (open \ crossed) \cup {Held(k)'}
          BY <3>3, <3>5, <4>1
        <5>2. QED BY <3>3, <5>1, OneNewHolder
      <4>2. CASE Held(g) = c
        BY <3>3, <3>5, <4>2, MovedToSlot
      <4>3. QED BY <3>4, <4>1, <4>2
    <3>8. \A h \in Slots : Held(h)' # None /\ ~Forgetting(h)' =>
            \/ Held(h)' = Held(h) /\ ~Forgetting(h)
            \/ Held(h)' \in open' \cup crossed'
      BY <3>3, <3>6
    <3>9. HeldOpen'
      BY <2>1, <3>8, NothingFreed
    <3>10. QED BY <3>7, <3>9
  <2>6. QED BY <2>4, <2>5
<1>10. QED BY <1>2, <1>3, <1>4, <1>5, <1>6, <1>7, <1>8, <1>9 DEF BrowserStep
-----------------------------------------------------------------------------
(* Owners, kind by kind.                                                   *)
DetailOwns(r, c) == r.conn = c /\ ~r.keep
  /\ \/ r.screen # "closed" /\ r.at \notin {"keep", "keepNew"}
     \/ r.at \in {"register", "park", "parkNew"}
BrowserOwns(r, c) == r.conn = c /\ ~r.borrowed /\ r.screen = "open"
HelperOwns(r, c) == r.conn = c /\ ~r.shared /\ r.at # "borrowed" /\ r.screen = "open"
OwnedElsewhere(c) == \/ \E i \in Places : parked[i] = c
                     \/ \E i \in Ids : terminal[i] = "open" /\ shell[i] = c
HasOwner(c) == \/ OwnedElsewhere(c)
               \/ \E d \in Detail : DetailOwns(detail[d], c)
               \/ \E b \in Browser : BrowserOwns(browser[b], c)
               \/ \E s \in Helper : HelperOwns(helper[s], c)

LEMMA HasOwnerIs ==
  /\ \A c : Owners(c) # {} <=> HasOwner(c)
  /\ \A c : (Owners(c) # {} <=> HasOwner(c))'
<1> USE DEF Owners, HasOwner, OwnedElsewhere, DetailOwns, BrowserOwns, HelperOwns, Places
<1>1. \A c : Owners(c) # {} <=> HasOwner(c)
  BY ZenonT(60)
<1>2. \A c : (Owners(c) # {} <=> HasOwner(c))'
  BY ZenonT(60)
<1>3. QED BY <1>1, <1>2

(* A screen that is gone owned nothing any more.                           *)
LEMMA EndedOwns ==
  /\ \A r \in DetailRecord, c \in Conn : DetailOwns(Ended(r, NoDetail), c) <=> DetailOwns(r, c)
  /\ \A r \in BrowserRecord, c \in Conn : BrowserOwns(Ended(r, NoBrowser), c) <=> BrowserOwns(r, c)
  /\ \A r \in HelperRecord, c \in Conn : HelperOwns(Ended(r, NoHelper), c) <=> HelperOwns(r, c)
BY SharingAssumption
   DEF Ended, DetailOwns, BrowserOwns, HelperOwns, NoDetail, NoBrowser, NoHelper,
       DetailRecord, BrowserRecord, HelperRecord

(* One screen changes.                                                     *)
LEMMA DetailForgetsNone ==
  ASSUME TypeOK, TypeOK', NoneForgotten, NEW d \in Detail, NEW r \in DetailRecord, SetDetail(d, r),
         lost \subseteq lost', UNCHANGED <<shell, terminal, browser, helper>>,
         \A c \in open' \ lost' :
           \/ OwnedElsewhere(c)' \/ DetailOwns(r, c)
           \/ c \in open /\ ~DetailOwns(detail[d], c) /\ (OwnedElsewhere(c) => OwnedElsewhere(c)')
  PROVE  NoneForgotten'
<1>1. detail'[d] = Ended(r, NoDetail) /\ \A e \in Detail \ {d} : detail'[e] = detail[e]
  BY DEF SetDetail, TypeOK
<1>2. SUFFICES ASSUME NEW c \in open' \ lost' PROVE HasOwner(c)'
  BY HasOwnerIs DEF NoneForgotten
<1>3. c \in Conn
  BY DEF TypeOK
<1>4. CASE OwnedElsewhere(c)' \/ DetailOwns(r, c)
  BY <1>1, <1>3, <1>4, EndedOwns DEF HasOwner
<1>5. CASE c \in open /\ ~DetailOwns(detail[d], c) /\ (OwnedElsewhere(c) => OwnedElsewhere(c)')
  <2>1. HasOwner(c)
    BY <1>5, HasOwnerIs DEF NoneForgotten
  <2>2. QED BY <1>1, <1>5, <2>1 DEF HasOwner
<1>6. QED BY <1>4, <1>5

LEMMA BrowserForgetsNone ==
  ASSUME TypeOK, TypeOK', NoneForgotten, NEW b \in Browser, NEW r \in BrowserRecord, SetBrowser(b, r),
         lost \subseteq lost', UNCHANGED <<shell, terminal, detail, helper>>,
         \A c \in open' \ lost' :
           \/ OwnedElsewhere(c)' \/ BrowserOwns(r, c)
           \/ c \in open /\ ~BrowserOwns(browser[b], c) /\ (OwnedElsewhere(c) => OwnedElsewhere(c)')
  PROVE  NoneForgotten'
<1>1. browser'[b] = Ended(r, NoBrowser) /\ \A e \in Browser \ {b} : browser'[e] = browser[e]
  BY DEF SetBrowser, TypeOK
<1>2. SUFFICES ASSUME NEW c \in open' \ lost' PROVE HasOwner(c)'
  BY HasOwnerIs DEF NoneForgotten
<1>3. c \in Conn
  BY DEF TypeOK
<1>4. CASE OwnedElsewhere(c)' \/ BrowserOwns(r, c)
  BY <1>1, <1>3, <1>4, EndedOwns DEF HasOwner
<1>5. CASE c \in open /\ ~BrowserOwns(browser[b], c) /\ (OwnedElsewhere(c) => OwnedElsewhere(c)')
  <2>1. HasOwner(c)
    BY <1>5, HasOwnerIs DEF NoneForgotten
  <2>2. QED BY <1>1, <1>5, <2>1 DEF HasOwner
<1>6. QED BY <1>4, <1>5

LEMMA HelperForgetsNone ==
  ASSUME TypeOK, TypeOK', NoneForgotten, NEW s \in Helper, NEW r \in HelperRecord, SetHelper(s, r),
         lost \subseteq lost', UNCHANGED <<parked, shell, terminal, detail, browser>>,
         \A c \in open' \ lost' : HelperOwns(r, c) \/ (c \in open /\ ~HelperOwns(helper[s], c))
  PROVE  NoneForgotten'
<1>1. helper'[s] = Ended(r, NoHelper) /\ \A e \in Helper \ {s} : helper'[e] = helper[e]
  BY DEF SetHelper, TypeOK
<1>2. SUFFICES ASSUME NEW c \in open' \ lost' PROVE HasOwner(c)'
  BY HasOwnerIs DEF NoneForgotten
<1>3. c \in Conn
  BY DEF TypeOK
<1>4. CASE HelperOwns(r, c)
  BY <1>1, <1>3, <1>4, EndedOwns DEF HasOwner
<1>5. CASE c \in open /\ ~HelperOwns(helper[s], c)
  <2>1. HasOwner(c)
    BY <1>5, HasOwnerIs DEF NoneForgotten
  <2>2. QED BY <1>1, <1>5, <2>1 DEF HasOwner, OwnedElsewhere
<1>6. QED BY <1>4, <1>5

(* A terminal changes, and with it what is parked.                         *)
LEMMA TerminalForgetsNone ==
  ASSUME TypeOK, TypeOK', NoneForgotten, lost' = lost, UNCHANGED <<detail, browser, helper>>,
         \A c \in open' : \/ OwnedElsewhere(c)'
                          \/ c \in open /\ (OwnedElsewhere(c) => OwnedElsewhere(c)')
  PROVE  NoneForgotten'
<1>1. SUFFICES ASSUME NEW c \in open' \ lost' PROVE HasOwner(c)'
  BY HasOwnerIs DEF NoneForgotten
<1>2. CASE OwnedElsewhere(c)'
  BY <1>2 DEF HasOwner
<1>3. CASE c \in open /\ (OwnedElsewhere(c) => OwnedElsewhere(c)')
  <2>1. HasOwner(c)
    BY <1>1, <1>3, HasOwnerIs DEF NoneForgotten
  <2>2. QED BY <1>3, <2>1 DEF HasOwner
<1>4. QED BY <1>2, <1>3
-----------------------------------------------------------------------------
LEMMA TerminalStepForgetsNone ==
  ASSUME Inv, NoneForgotten, TypeOK', TerminalStep
  PROVE  NoneForgotten'
<1> USE DEF Inv
<1>0. /\ parked \in [Places -> Conn \cup {None}] /\ shell \in [Ids -> Conn \cup {None}]
      /\ terminal \in [Ids -> {"none", "dead", "open"}] /\ None \notin Conn
      /\ open \subseteq Conn /\ open' \subseteq Conn /\ Ids \subseteq Places
  BY SharingAssumption DEF TypeOK, Places
<1>1. ASSUME NEW i \in Ids, Connects(i), terminal[i] # "open",
             UNCHANGED <<parked, detail, browser, helper, lost>>
      PROVE  NoneForgotten'
  <2>1. ASSUME NEW c \in Conn, Open(c), SetTerminal(i, c) PROVE NoneForgotten'
    <3>1. \A x \in open' : OwnedElsewhere(x)' \/ (x \in open /\ (OwnedElsewhere(x) => OwnedElsewhere(x)'))
      BY <1>0, <1>1, <2>1 DEF Open, SetTerminal, OwnedElsewhere
    <3>2. QED BY <1>1, <3>1, TerminalForgetsNone
  <2>2. CASE UNCHANGED open /\ SetTerminal(i, None)
    <3>1. \A x \in open' : x \in open /\ (OwnedElsewhere(x) => OwnedElsewhere(x)')
      BY <1>0, <1>1, <2>2 DEF SetTerminal, OwnedElsewhere
    <3>2. QED BY <1>1, <3>1, TerminalForgetsNone
  <2>3. QED BY <1>1, <2>1, <2>2 DEF Connects
<1>2. CASE NewTerminal
  <2>1. nextId \in Ids /\ terminal[nextId] # "open"
    BY <1>2, IdsFacts DEF NewTerminal, Given
  <2>2. QED BY <1>1, <1>2, <2>1 DEF NewTerminal
<1>3. CASE ReconnectTerminal
  <2>1. Head(sessions) \in Ids /\ Head(sessions) \in Listed
    BY <1>3 DEF ReconnectTerminal, TypeOK, Listed, ToSet
  <2>2. QED BY <1>1, <1>3, <2>1 DEF ReconnectTerminal, Connected
<1>4. ASSUME NEW i \in Ids, RestoreTerminal(i) PROVE NoneForgotten'
  <2>1. CASE parked[i] = None
    <3>1. UNCHANGED parked
      BY <1>0, <1>4, <2>1 DEF RestoreTerminal, Taken
    <3>2. QED BY <1>1, <1>4, <2>1, <3>1 DEF RestoreTerminal
  <2>2. CASE parked[i] # None
    <3>1. \A x \in open' : x \in open /\ (OwnedElsewhere(x) => OwnedElsewhere(x)')
      BY <1>0, <1>4, <2>2 DEF RestoreTerminal, Taken, SetTerminal, OwnedElsewhere
    <3>2. QED BY <1>4, <3>1, TerminalForgetsNone DEF RestoreTerminal
  <2>3. QED BY <2>1, <2>2
<1>5. ASSUME NEW i \in Ids, EndTerminal(i) PROVE NoneForgotten'
  <2>1. \A x \in open' : x \in open /\ (OwnedElsewhere(x) => OwnedElsewhere(x)')
    BY <1>0, <1>5 DEF EndTerminal, Free, SetTerminal, OwnedElsewhere
  <2>2. QED BY <1>5, <2>1, TerminalForgetsNone DEF EndTerminal
<1>6. ASSUME NEW i \in Ids, CloseContainer(i) PROVE NoneForgotten'
  <2>1. \A x \in open' : x \in open /\ (OwnedElsewhere(x) => OwnedElsewhere(x)')
    BY <1>0, <1>6 DEF CloseContainer, Free, OwnedElsewhere
  <2>2. QED BY <1>6, <2>1, TerminalForgetsNone DEF CloseContainer
<1>7. QED BY <1>2, <1>3, <1>4, <1>5, <1>6 DEF TerminalStep
(* What is parked: nothing that was owned there is lost without a trace.   *)
LEMMA ParkedKeeps ==
  ASSUME TypeOK, NEW i \in Places, NEW c \in Conn \cup {None}, parked' = WithParked(i, c),
         lost' = lost \cup Overwritten(i, c), UNCHANGED <<shell, terminal>>
  PROVE  /\ c # None => OwnedElsewhere(c)'
         /\ \A x \in Conn \ lost' : OwnedElsewhere(x) => OwnedElsewhere(x)'
<1>0. parked \in [Places -> Conn \cup {None}] /\ None \notin Conn
  BY SharingAssumption DEF TypeOK, Places
<1>1. CASE c = None
  BY <1>1 DEF WithParked, OwnedElsewhere
<1>2. CASE c # None
  <2>1. parked'[i] = c /\ \A j \in Places \ {i} : parked'[j] = parked[j]
    BY <1>0, <1>2 DEF WithParked
  <2>2. \A x \in Conn \ lost' : parked[i] = x => x = c
    BY <1>0, <1>2 DEF Overwritten
  <2>3. QED BY <2>1, <2>2 DEF OwnedElsewhere
<1>3. QED BY <1>1, <1>2

LEMMA DetailStepForgetsNone ==
  ASSUME Inv, NoneForgotten, TypeOK', NEW d \in Detail, DetailStep(d)
  PROVE  NoneForgotten'
<1> USE DEF Inv, termVars
<1>0. /\ detail[d] \in DetailRecord /\ None \notin Conn /\ open \subseteq Conn /\ open' \subseteq Conn
      /\ sessions \in Seq(Ids)
  BY SharingAssumption DEF TypeOK, DetailRecord
<1>1. ASSUME NEW r \in DetailRecord, SetDetail(d, r), lost \subseteq lost',
             UNCHANGED <<parked, shell, terminal, browser, helper>>,
             \A c \in open' \ lost' : DetailOwns(r, c) \/ (c \in open /\ ~DetailOwns(detail[d], c))
      PROVE  NoneForgotten'
  <2>1. \A c : OwnedElsewhere(c) => OwnedElsewhere(c)'
    BY <1>1 DEF OwnedElsewhere
  <2>2. QED BY <1>1, <2>1, DetailForgetsNone
<1> USE DEF DetailOwns, DetailRecord
<1>2. CASE OpenDetail(d)
  <2> DEFINE r == [NoDetail EXCEPT !.screen = "started", !.at = "connect"]
  <2>1. r \in DetailRecord /\ SetDetail(d, r)
    BY <1>2 DEF OpenDetail, SetDetail, Ended, NoDetail
  <2>2. detail[d].conn = None
    BY <1>2 DEF OpenDetail, NoDetail
  <2> HIDE DEF r
  <2>3. QED BY <1>0, <1>1, <1>2, <2>1, <2>2 DEF OpenDetail
<1>3. CASE StartDetail(d)
  <2>1. PICK at \in {detail[d].at} \cup (IF detail[d].at = "idle" THEN {"connect"} ELSE {}) :
          SetDetail(d, [detail[d] EXCEPT !.screen = "started", !.at = at])
    BY <1>3 DEF StartDetail
  <2>2. QED BY <1>0, <1>1, <1>3, <2>1 DEF StartDetail
<1>4. CASE StopDetail(d)
  BY <1>0, <1>1, <1>4 DEF StopDetail, Released, Free
<1>5. CASE DestroyDetail(d)
  BY <1>0, <1>1, <1>5 DEF DestroyDetail, Released, Free
<1>6. CASE ConnectDetail(d)
  BY <1>0, <1>1, <1>6 DEF ConnectDetail, Open
<1>7. CASE RegisterDetail(d)
  <2>1. sessions # <<>> => Head(sessions) \in Ids
    BY <1>0
  <2>2. QED BY <1>0, <1>1, <1>7, <2>1 DEF RegisterDetail
<1>8. CASE ParkDetail(d)
  <2> PICK i \in Places, c \in Conn \cup {None} : i = detail[d].id /\ c = detail[d].conn
    BY <1>0, <1>8 DEF ParkDetail, Agree, DetailsAgree, Places
  <2>1. /\ c # None => OwnedElsewhere(c)'
        /\ \A x \in Conn \ lost' : OwnedElsewhere(x) => OwnedElsewhere(x)'
    BY <1>8, ParkedKeeps DEF ParkDetail
  <2> DEFINE r == [detail[d] EXCEPT !.at = IF @ = "park" THEN "keep" ELSE "keepNew"]
  <2>2. r \in DetailRecord /\ SetDetail(d, r) /\ lost \subseteq lost' /\ UNCHANGED open
    BY <1>0, <1>8 DEF ParkDetail
  <2> HIDE DEF r
  <2>3. \A x \in open' \ lost' :
          OwnedElsewhere(x)' \/ (x \in open /\ ~DetailOwns(detail[d], x) /\ (OwnedElsewhere(x) => OwnedElsewhere(x)'))
    BY <1>0, <2>1, <2>2
  <2>4. QED BY <1>8, <2>2, <2>3, DetailForgetsNone DEF ParkDetail
<1>9. CASE KeepDetail(d)
  BY <1>0, <1>1, <1>9 DEF KeepDetail
<1>10. QED BY <1>2, <1>3, <1>4, <1>5, <1>6, <1>7, <1>8, <1>9 DEF DetailStep

LEMMA BrowserStepForgetsNone ==
  ASSUME Inv, NoneForgotten, TypeOK', NEW b \in Browser, BrowserStep(b)
  PROVE  NoneForgotten'
<1> USE DEF Inv, termVars
<1>0. /\ browser[b] \in BrowserRecord /\ None \notin Conn /\ open \subseteq Conn /\ open' \subseteq Conn
      /\ BrowserAgrees(browser[b], open)
  BY SharingAssumption DEF TypeOK, BrowserRecord, Agree, BrowsersAgree, BrowserAgrees
<1>1. ASSUME NEW r \in BrowserRecord, SetBrowser(b, r), lost \subseteq lost',
             UNCHANGED <<parked, shell, terminal, detail, helper>>,
             \A c \in open' \ lost' : BrowserOwns(r, c) \/ (c \in open /\ ~BrowserOwns(browser[b], c))
      PROVE  NoneForgotten'
  <2>1. \A c : OwnedElsewhere(c) => OwnedElsewhere(c)'
    BY <1>1 DEF OwnedElsewhere
  <2>2. QED BY <1>1, <2>1, BrowserForgetsNone
<1> USE DEF BrowserOwns, BrowserRecord, BrowserAgrees
<1>2. CASE OpenBrowser(b)
  <2>1. PICK hint \in Hints : OpenBrowser(b)!(hint)
    BY <1>2 DEF OpenBrowser
  <2> DEFINE free == hint # None /\ ~HasTerminal(hint)
             id0   == IF free THEN hint ELSE Endpoint
             conn0 == IF free THEN parked[id0] ELSE None
  <2>2. id0 \in Places /\ conn0 \in Conn \cup {None}
    BY IdsFacts DEF Hints, TypeOK, Ids, Places
  <2> PICK id \in Places, conn \in Conn \cup {None} : id = id0 /\ conn = conn0
    BY <2>2
  <2> DEFINE new == Opened(id, conn)
  <2>3. /\ browser' = [browser EXCEPT ![b] = new] /\ browser[b] = NoBrowser
        /\ UNCHANGED <<open, lost, shell, terminal, detail, helper>>
    BY <2>1 DEF Opened
  <2>4. parked' = parked \/ (parked' = [parked EXCEPT ![id] = None] /\ conn = parked[id])
    BY <2>1 DEF Taken
  <2> HIDE DEF id0, conn0, free
  <2>5. /\ new \in [screen : {"closed", "open"}, conn : Conn \cup {None},
             shared : BOOLEAN, prefer : BOOLEAN, id : Ids \cup {Endpoint, None},
             at : {"idle", "connect", "list", "reconnect", "relist", "forget"}, borrowed : BOOLEAN]
        /\ new.conn = conn /\ ~new.borrowed /\ new.screen = "open"
    BY OpenedRecord
  <2> HIDE DEF new
  <2>6. SetBrowser(b, new)
    BY <2>3, <2>5 DEF SetBrowser, Ended
  <2>7. browser[b].conn = None
    BY <2>3 DEF NoBrowser
  <2>8. \A x \in open : BrowserOwns(new, x) \/ (OwnedElsewhere(x) => OwnedElsewhere(x)')
    BY <1>0, <2>3, <2>4, <2>5 DEF OwnedElsewhere, TypeOK, Places
  <2>9. \A x \in open' \ lost' :
          \/ BrowserOwns(new, x)
          \/ x \in open /\ ~BrowserOwns(browser[b], x) /\ (OwnedElsewhere(x) => OwnedElsewhere(x)')
    BY <1>0, <2>3, <2>7, <2>8
  <2>10. QED BY <2>3, <2>5, <2>6, <2>9, BrowserForgetsNone
<1>3. CASE Reload(b)
  BY <1>0, <1>1, <1>3 DEF Reload
<1>4. CASE ConnectBrowser(b)
  <2>1. Connected # {} => shell[FindConnected] \in Conn
    BY FindConnectedFacts DEF Agree
  <2>2. CASE browser[b].conn # None
    BY <1>0, <1>1, <1>4, <2>2 DEF ConnectBrowser, BrowserGets
  <2>3. CASE browser[b].conn = None
    BY <1>0, <1>1, <1>4, <2>1, <2>3, ZenonT(60) DEF ConnectBrowser, BrowserGets, Open
  <2>4. QED BY <2>2, <2>3
<1>5. CASE ListedWell(b)
  BY <1>0, <1>1, <1>5 DEF ListedWell
<1>6. CASE DropShared(b)
  BY <1>0, <1>1, <1>6 DEF DropShared
<1>7. CASE DropOwn(b)
  BY <1>0, <1>1, <1>7 DEF DropOwn, Free
<1>8. CASE ForgetOwn(b)
  BY <1>0, <1>1, <1>8 DEF ForgetOwn
<1>9. CASE DestroyBrowser(b)
  <2> PICK i \in Places, c \in Conn \cup {None} : i = browser[b].id /\ c = browser[b].conn
    BY <1>0, <1>9 DEF DestroyBrowser
  <2>1. /\ c # None => OwnedElsewhere(c)'
        /\ \A x \in Conn \ lost' : OwnedElsewhere(x) => OwnedElsewhere(x)'
    BY <1>9, ParkedKeeps DEF DestroyBrowser
  <2> DEFINE r == [browser[b] EXCEPT !.screen = "closed", !.conn = None, !.borrowed = FALSE,
                                     !.shared = IF c = None THEN @ ELSE TRUE]
  <2>2. r \in BrowserRecord /\ SetBrowser(b, r) /\ lost \subseteq lost' /\ UNCHANGED open
    BY <1>0, <1>9 DEF DestroyBrowser
  <2> HIDE DEF r
  <2>3. \A x \in open' \ lost' :
          OwnedElsewhere(x)' \/ (x \in open /\ ~BrowserOwns(browser[b], x) /\ (OwnedElsewhere(x) => OwnedElsewhere(x)'))
    BY <1>0, <2>1, <2>2
  <2>4. QED BY <1>9, <2>2, <2>3, BrowserForgetsNone DEF DestroyBrowser
<1>10. QED BY <1>2, <1>3, <1>4, <1>5, <1>6, <1>7, <1>8, <1>9 DEF BrowserStep

LEMMA HelperStepForgetsNone ==
  ASSUME Inv, NoneForgotten, TypeOK', NEW s \in Helper, HelperStep(s)
  PROVE  NoneForgotten'
<1> USE DEF Inv, termVars, HelperOwns, HelperRecord
<1>0. /\ helper[s] \in HelperRecord /\ None \notin Conn /\ open \subseteq Conn /\ open' \subseteq Conn
      /\ HelpersAgree
  BY SharingAssumption DEF TypeOK, HelperRecord, Agree
<1>1. CASE OpenHelper(s)
  <2> DEFINE r == [NoHelper EXCEPT !.screen = "open", !.at = "connect"]
  <2>1. r \in HelperRecord /\ SetHelper(s, r)
    BY <1>1 DEF OpenHelper, SetHelper, Ended, NoHelper
  <2>2. helper[s].conn = None
    BY <1>1 DEF OpenHelper, NoHelper
  <2> HIDE DEF r
  <2>3. QED BY <1>0, <1>1, <2>1, <2>2, HelperForgetsNone DEF OpenHelper
<1>2. CASE ConnectHelper(s)
  <2>1. Connected # {} => shell[FindConnected] \in Conn
    BY FindConnectedFacts DEF Agree
  <2>2. helper[s].screen = "open" => ~helper[s].shared
    BY <1>0, <1>2 DEF ConnectHelper, HelpersAgree
  <2>3. QED BY <1>0, <1>2, <2>1, <2>2, HelperForgetsNone, ZenonT(60) DEF ConnectHelper, HelperGets, Open
<1>3. CASE StoreShared(s)
  BY <1>0, <1>3, HelperForgetsNone DEF StoreShared
<1>4. CASE ReloadHelper(s)
  BY <1>0, <1>4, HelperForgetsNone DEF ReloadHelper
<1>5. CASE DestroyHelper(s)
  BY <1>0, <1>5, HelperForgetsNone, ZenonT(60) DEF DestroyHelper, Releases, Free
<1>6. QED BY <1>1, <1>2, <1>3, <1>4, <1>5 DEF HelperStep
-----------------------------------------------------------------------------
(* The invariant holds at first, and every step keeps it.                  *)
LEMMA AtFirst ==
  ASSUME Init
  PROVE  Inv /\ NoneForgotten
<1> USE DEF Init
<1>1. TypeOK
  <2>1. 1 \in 1 .. MaxIds + 1
    BY IdsFacts
  <2>2. QED BY <2>1 DEF TypeOK, NoDetail, NoBrowser, NoHelper
<1>2. Agree
  BY IdsFacts DEF Agree, TerminalsAgree, DetailsAgree, BrowsersAgree, HelpersAgree,
                  NoDetail, NoBrowser, NoHelper
<1>3. Given
  <2>1. Listed = {}
    BY DEF Listed, ToSet
  <2>2. QED BY <2>1 DEF Given, NoDetail, None
<1>4. Single
  BY DEF Single
<1>5. HeldOpen
  BY SlotCases, HeldIs DEF HeldOpen, DetailHeld, BrowserHeld, HelperHeld,
                           NoDetail, NoBrowser, NoHelper, Places
<1>6. QED BY <1>1, <1>2, <1>3, <1>4, <1>5 DEF Inv, NoneForgotten

LEMMA TerminalStepFrame ==
  TerminalStep => UNCHANGED <<detail, browser, helper>>
BY DEF TerminalStep, NewTerminal, ReconnectTerminal, RestoreTerminal, EndTerminal, CloseContainer

LEMMA DetailStepFrame ==
  ASSUME NEW d \in Detail, DetailStep(d)
  PROVE  UNCHANGED <<terminal, shell, browser, helper>>
BY DEF DetailStep, OpenDetail, StartDetail, StopDetail, DestroyDetail, ConnectDetail,
       RegisterDetail, ParkDetail, KeepDetail, termVars

LEMMA BrowserStepFrame ==
  ASSUME NEW b \in Browser, BrowserStep(b)
  PROVE  UNCHANGED <<terminal, shell, detail, helper>>
BY DEF BrowserStep, OpenBrowser, Reload, ConnectBrowser, ListedWell, DropShared, DropOwn,
       ForgetOwn, DestroyBrowser, termVars

LEMMA HelperStepFrame ==
  ASSUME NEW s \in Helper, HelperStep(s)
  PROVE  UNCHANGED <<terminal, shell, detail, browser>>
BY DEF HelperStep, OpenHelper, ConnectHelper, StoreShared, ReloadHelper, DestroyHelper, termVars

LEMMA StepKeeps ==
  ASSUME Inv, NoneForgotten, [Next]_vars
  PROVE  Inv' /\ NoneForgotten'
<1>0. TypeOK /\ Agree /\ TerminalsAgree /\ DetailsAgree /\ BrowsersAgree /\ HelpersAgree
      /\ Given /\ Single /\ HeldOpen
  BY DEF Inv, Agree
<1>1. Next => Given'
  BY <1>0, GivenLasts
<1>2. CASE TerminalStep
  <2>1. TypeOK' /\ Next
    BY <1>0, <1>2, TerminalType DEF Next
  <2>2. UNCHANGED <<detail, browser, helper>>
    BY <1>2, TerminalStepFrame
  <2>3. TerminalsAgree'
    BY <1>0, <1>2, <2>1, TerminalsGoOnAgreeing
  <2>4. BrowsersAgree'
    BY <1>0, <2>1, <2>2, BrowserKept
  <2>5. DetailsAgree' /\ HelpersAgree'
    BY <1>0, <2>2 DEF DetailsAgree, HelpersAgree
  <2>6. Single' /\ HeldOpen' /\ NoneForgotten'
    BY <1>2, <2>1, TerminalHolds, TerminalStepForgetsNone
  <2>7. QED BY <1>1, <2>1, <2>3, <2>4, <2>5, <2>6 DEF Inv, Agree
<1>3. ASSUME NEW d \in Detail, DetailStep(d) PROVE Inv' /\ NoneForgotten'
  <2>1. TypeOK' /\ Next
    BY <1>0, <1>3, DetailType DEF Next
  <2>2. UNCHANGED <<terminal, shell, browser, helper>>
    BY <1>3, DetailStepFrame
  <2>3. DetailsAgree'
    BY <1>0, <1>3, DetailsGoOnAgreeing
  <2>4. BrowsersAgree'
    BY <1>0, <2>1, <2>2, BrowserKept
  <2>5. TerminalsAgree' /\ HelpersAgree'
    BY <1>0, <2>2 DEF TerminalsAgree, HelpersAgree
  <2>6. Single' /\ HeldOpen' /\ NoneForgotten'
    BY <1>3, <2>1, DetailHolds, DetailStepForgetsNone
  <2>7. QED BY <1>1, <2>1, <2>3, <2>4, <2>5, <2>6 DEF Inv, Agree
<1>4. ASSUME NEW b \in Browser, BrowserStep(b) PROVE Inv' /\ NoneForgotten'
  <2>1. TypeOK' /\ Next
    BY <1>0, <1>4, BrowserType DEF Next
  <2>2. UNCHANGED <<terminal, shell, detail, helper>>
    BY <1>4, BrowserStepFrame
  <2>3. BrowsersAgree'
    BY <1>0, <1>4, BrowsersGoOnAgreeing
  <2>4. TerminalsAgree' /\ DetailsAgree' /\ HelpersAgree'
    BY <1>0, <2>2 DEF TerminalsAgree, DetailsAgree, HelpersAgree
  <2>5. Single' /\ HeldOpen' /\ NoneForgotten'
    BY <1>4, <2>1, BrowserHolds, BrowserStepForgetsNone
  <2>6. QED BY <1>1, <2>1, <2>3, <2>4, <2>5 DEF Inv, Agree
<1>5. ASSUME NEW s \in Helper, HelperStep(s) PROVE Inv' /\ NoneForgotten'
  <2>1. TypeOK' /\ Next
    BY <1>0, <1>5, HelperType DEF Next
  <2>2. UNCHANGED <<terminal, shell, detail, browser>>
    BY <1>5, HelperStepFrame
  <2>3. HelpersAgree'
    BY <1>0, <1>5, HelpersGoOnAgreeing
  <2>4. BrowsersAgree'
    BY <1>0, <2>1, <2>2, BrowserKept
  <2>5. TerminalsAgree' /\ DetailsAgree'
    BY <1>0, <2>2 DEF TerminalsAgree, DetailsAgree
  <2>6. Single' /\ HeldOpen' /\ NoneForgotten'
    BY <1>5, <2>1, HelperHolds, HelperStepForgetsNone
  <2>7. QED BY <1>1, <2>1, <2>3, <2>4, <2>5, <2>6 DEF Inv, Agree
<1>6. CASE UNCHANGED vars
  <2>1. TypeOK' /\ Agree' /\ Given' /\ NoneForgotten'
    BY <1>0, <1>6 DEF vars, termVars, TypeOK, Agree, TerminalsAgree, DetailsAgree, BrowsersAgree,
                      HelpersAgree, Given, Listed, NoneForgotten, Owners
  <2>2. \A h \in Slots : Held(h)' = Held(h) /\ (Forgetting(h)' <=> Forgetting(h))
    BY <1>6 DEF vars, termVars, Held, Forgetting
  <2>3. Single' /\ HeldOpen'
    BY <1>0, <1>6, <2>1, <2>2, SameSlots DEF vars
  <2>4. QED BY <2>1, <2>3 DEF Inv
<1>7. QED BY <1>2, <1>3, <1>4, <1>5, <1>6 DEF Next

(* An owner is a slot that holds the connection.                           *)
LEMMA OwnersHold ==
  \A c \in Conn : \A p \in Owners(c) : p \in Slots /\ Held(p) = c
BY SlotCases, HeldIs DEF Owners, DetailHeld, BrowserHeld, HelperHeld, Places

LEMMA InvGives ==
  ASSUME Inv
  PROVE  OneOwner /\ OwnedIsOpen
<1>1. OneOwner
  BY OwnersHold DEF OneOwner, Inv, Single, TypeOK
<1>2. ASSUME NEW i \in Places, parked[i] # None PROVE parked[i] \in open \cup crossed
  <2>1. /\ <<"parked", i>> \in Slots /\ Held(<<"parked", i>>) = parked[i]
        /\ ~Forgetting(<<"parked", i>>)
    BY SlotCases, HeldIs
  <2>2. QED BY <1>2, <2>1 DEF Inv, HeldOpen
<1>3. ASSUME NEW i \in Ids, terminal[i] = "open" PROVE shell[i] \in open \cup crossed
  <2>1. /\ <<"terminal", i>> \in Slots /\ Held(<<"terminal", i>>) = shell[i]
        /\ ~Forgetting(<<"terminal", i>>)
    BY SlotCases, HeldIs
  <2>2. shell[i] # None
    BY <1>3 DEF Inv, Agree, TerminalsAgree
  <2>3. QED BY <2>1, <2>2 DEF Inv, HeldOpen
<1>4. QED BY <1>1, <1>2, <1>3 DEF OwnedIsOpen, Places

(* Every connection that is open, but for those lost in the known ways,    *)
(* has somebody who will free it or hand it on, whatever the order of the  *)
(* lifecycle callbacks of the screens and the steps of their workers.      *)
THEOREM NoneForgottenHolds == Spec => []NoneForgotten
<1>1. Init => Inv /\ NoneForgotten
  BY AtFirst
<1>2. Inv /\ NoneForgotten /\ [Next]_vars => (Inv /\ NoneForgotten)'
  BY StepKeeps
<1>3. QED BY <1>1, <1>2, PTL DEF Spec

(* A connection is handed to one screen only: what a terminal, the         *)
(* registry or a screen owns nobody else owns, the known ways excepted.    *)
THEOREM OneOwnerHolds == Spec => []OneOwner
<1>1. Init => Inv /\ NoneForgotten
  BY AtFirst
<1>2. Inv /\ NoneForgotten /\ [Next]_vars => (Inv /\ NoneForgotten)'
  BY StepKeeps
<1>3. Inv => OneOwner
  BY InvGives
<1>4. QED BY <1>1, <1>2, <1>3, PTL DEF Spec

(* What is parked and what a terminal works with has not been freed by     *)
(* anybody else, the known ways excepted.                                  *)
THEOREM OwnedIsOpenHolds == Spec => []OwnedIsOpen
<1>1. Init => Inv /\ NoneForgotten
  BY AtFirst
<1>2. Inv /\ NoneForgotten /\ [Next]_vars => (Inv /\ NoneForgotten)'
  BY StepKeeps
<1>3. Inv => OwnedIsOpen
  BY InvGives
<1>4. QED BY <1>1, <1>2, <1>3, PTL DEF Spec
=============================================================================
