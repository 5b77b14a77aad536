------------------------- MODULE TransferQueueProofs -------------------------
(***************************************************************************)
(* Theorems of TransferQueue, for every number of workers, tasks and        *)
(* retries.                                                                 *)
(*                                                                          *)
(* First its type invariant, with the slots and the primary transfer.  Then *)
(* the ledger: in how many places a task is, from the intent that asks for  *)
(* it to the end it reports.  On the ledger rest the backing of the slots,  *)
(* the single end, the counters, the foreground, the sessions that          *)
(* transfers borrow, the connections they close, and that the service       *)
(* implements TransferJobs.                                                 *)
(***************************************************************************)
EXTENDS TransferQueue, SequenceTheorems, WellFoundedInduction, FiniteSetTheorems, TLAPS
-----------------------------------------------------------------------------
(* Lists of java.util as sequences: what removing the first occurrence of   *)
(* an element and taking from the head do to the length and the elements.   *)

(* The order of the naturals as a well-founded relation.                   *)
LEMMA NatOrder ==
  \E R : /\ \A i, j \in Nat : <<i, j>> \in R <=> i < j
         /\ IsWellFoundedOn(R, Nat)
<1>1. \A i, j \in Nat : <<i, j>> \in OpToRel(<, Nat) <=> i < j
  BY DEF OpToRel
<1>2. QED BY Zenon, <1>1, NatLessThanWellFounded

(* A set of naturals that is not empty has a least element, and Min is it. *)
LEMMA LeastIndex ==
  ASSUME NEW I, I \subseteq Nat, I # {}
  PROVE  /\ Min(I) \in I
         /\ \A i \in I : Min(I) <= i
<1>1. PICK R : /\ \A i, j \in Nat : <<i, j>> \in R <=> i < j
               /\ IsWellFoundedOn(R, Nat)
  BY NatOrder
<1>0. IsWellFoundedOn(R, Nat) /\ I \subseteq Nat /\ I # {}
  BY <1>1
<1>2. PICK i \in I : \A j \in I : ~(<<j, i>> \in R)
  BY <1>0, WFMin
<1>3. \A j \in I : i <= j
  <2> SUFFICES ASSUME NEW j \in I PROVE i <= j
    OBVIOUS
  <2>1. i \in Nat /\ j \in Nat
    OBVIOUS
  <2>2. ~(j < i)
    BY <1>1, <1>2, <2>1, Zenon
  <2>3. QED BY <2>1, <2>2
<1>4. QED BY <1>3 DEF Min

(* SequencesExt!RemoveFirst drops one occurrence of the element and keeps   *)
(* every other element.                                                    *)
LEMMA RemoveFirstFacts ==
  ASSUME NEW S, NEW s \in Seq(S), NEW t
  PROVE  /\ RemoveFirst(s, t) \in Seq(S)
         /\ t \in ToSet(s) => Len(RemoveFirst(s, t)) = Len(s) - 1
         /\ t \notin ToSet(s) => RemoveFirst(s, t) = s
         /\ ToSet(RemoveFirst(s, t)) \subseteq ToSet(s)
         /\ ToSet(s) \ {t} \subseteq ToSet(RemoveFirst(s, t))
<1>1. CASE t \notin ToSet(s)
  <2>1. RemoveFirst(s, t) = s
    BY <1>1 DEF RemoveFirst, ToSet
  <2>2. QED BY <1>1, <2>1
<1>2. CASE t \in ToSet(s)
  <2> DEFINE I == {i \in 1 .. Len(s) : s[i] = t}
             k == Min(I)
  <2>1. I # {} /\ I \subseteq Nat
    BY <1>2 DEF ToSet
  <2>2. k \in 1 .. Len(s) /\ s[k] = t
    BY <2>1, LeastIndex
  <2>3. RemoveFirst(s, t) = SubSeq(s, 1, k - 1) \o SubSeq(s, k + 1, Len(s))
    BY <1>2, <2>1 DEF RemoveFirst, RemoveAt, SelectInSeq, ToSet
  <2> HIDE DEF k
  <2> DEFINE l == SubSeq(s, 1, k - 1)
             r == SubSeq(s, k + 1, Len(s))
             q == l \o r
  <2>4. /\ l \in Seq(S) /\ Len(l) = k - 1
        /\ \A i \in 1 .. k - 1 : l[i] = s[i]
    BY <2>2
  <2>5. /\ r \in Seq(S) /\ Len(r) = Len(s) - k
        /\ \A i \in 1 .. Len(s) - k : r[i] = s[k + i]
    BY <2>2
  <2>20. k \in Nat /\ Len(s) \in Nat /\ 1 <= k /\ k <= Len(s)
    BY <2>2
  <2> HIDE DEF l, r
  <2>6. /\ q \in Seq(S)
        /\ Len(q) = Len(s) - 1
        /\ \A i \in 1 .. Len(s) - 1 : i <= k - 1 => q[i] = s[i]
        /\ \A i \in 1 .. Len(s) - 1 : i > k - 1 => q[i] = r[i - (k - 1)]
    <3>1. /\ q \in Seq(S)
          /\ Len(q) = Len(l) + Len(r)
          /\ \A i \in 1 .. Len(l) + Len(r) :
                q[i] = IF i <= Len(l) THEN l[i] ELSE r[i - Len(l)]
      BY <2>4, <2>5, ConcatProperties
    <3>2. Len(l) + Len(r) = Len(s) - 1
      BY <2>20, <2>4, <2>5
    <3> HIDE DEF q
    <3>3. \A i \in 1 .. Len(s) - 1 : i <= k - 1 => q[i] = s[i]
      BY <3>1, <3>2, <2>20, <2>4
    <3>4. \A i \in 1 .. Len(s) - 1 : i > k - 1 => q[i] = r[i - (k - 1)]
      BY <3>1, <3>2, <2>20, <2>4
    <3>5. QED BY <3>1, <3>2, <3>3, <3>4
  <2>21. \A i \in 1 .. Len(s) - 1 : i > k - 1 => q[i] = s[i + 1]
    <3> SUFFICES ASSUME NEW i \in 1 .. Len(s) - 1, i > k - 1 PROVE q[i] = s[i + 1]
      OBVIOUS
    <3>1. i - (k - 1) \in 1 .. Len(s) - k /\ k + (i - (k - 1)) = i + 1
      BY <2>20
    <3>2. QED BY <3>1, <2>5, <2>6
  <2> HIDE DEF q
  <2>7. \A i \in 1 .. Len(s) : s[i] = t \/ \E j \in 1 .. Len(s) - 1 : q[j] = s[i]
    <3> SUFFICES ASSUME NEW i \in 1 .. Len(s), s[i] # t
                 PROVE  \E j \in 1 .. Len(s) - 1 : q[j] = s[i]
      OBVIOUS
    <3>1. CASE i < k
      BY <3>1, <2>6, <2>20
    <3>2. CASE i > k
      <4>1. i - 1 \in 1 .. Len(s) - 1 /\ i - 1 > k - 1 /\ (i - 1) + 1 = i
        BY <3>2, <2>20
      <4>2. q[i - 1] = s[i]
        BY <4>1, <2>21
      <4>3. QED BY <4>1, <4>2
    <3>3. QED BY <3>1, <3>2, <2>2, <2>20
  <2>8. \A j \in 1 .. Len(s) - 1 : \E i \in 1 .. Len(s) : q[j] = s[i]
    <3> SUFFICES ASSUME NEW j \in 1 .. Len(s) - 1
                 PROVE  \E i \in 1 .. Len(s) : q[j] = s[i]
      OBVIOUS
    <3>1. j \in 1 .. Len(s) /\ j + 1 \in 1 .. Len(s) /\ (j <= k - 1 \/ j > k - 1)
      BY <2>20
    <3>2. QED BY <3>1, <2>6, <2>21
  <2>9. DOMAIN q = 1 .. Len(s) - 1 /\ DOMAIN s = 1 .. Len(s)
    BY <2>6, LenProperties
  <2>10. RemoveFirst(s, t) = q
    BY <2>3 DEF l, r, q
  <2>11. ToSet(q) \subseteq ToSet(s)
    BY <2>8, <2>9 DEF ToSet
  <2>12. ToSet(s) \ {t} \subseteq ToSet(q)
    BY <2>7, <2>9 DEF ToSet
  <2>13. QED BY <1>2, <2>6, <2>10, <2>11, <2>12
<1>3. QED BY <1>1, <1>2

(* The same as a split of the list around the occurrence that is removed.  *)
SplitAround(s, t, l, r) == s = l \o (<<t>> \o r) /\ RemoveFirst(s, t) = l \o r

LEMMA RemoveFirstSplit ==
  ASSUME NEW S, NEW s \in Seq(S), NEW t, t \in ToSet(s)
  PROVE  \E l \in Seq(S), r \in Seq(S) :
           SplitAround(s, t, l, r)
<1> DEFINE I == {i \in 1 .. Len(s) : s[i] = t}
           k == Min(I)
           l == SubSeq(s, 1, k - 1)
           r == SubSeq(s, k + 1, Len(s))
<1>1. I # {} /\ I \subseteq Nat
  BY DEF ToSet
<1>2. k \in 1 .. Len(s) /\ s[k] = t
  BY <1>1, LeastIndex
<1>3. RemoveFirst(s, t) = l \o r
  BY <1>1 DEF RemoveFirst, RemoveAt, SelectInSeq, ToSet
<1> HIDE DEF k
<1>4. l \in Seq(S) /\ r \in Seq(S)
  BY <1>2
<1>5. l \o SubSeq(s, k, Len(s)) = s
  <2>1. /\ 1 \in 1 .. Len(s) + 1 /\ k - 1 \in 1 - 1 .. Len(s) /\ Len(s) \in k - 1 .. Len(s)
        /\ (k - 1) + 1 = k
    BY <1>2
  <2>2. l \o SubSeq(s, (k - 1) + 1, Len(s)) = SubSeq(s, 1, Len(s))
    BY <2>1, ConcatAdjacentSubSeq, Zenon
  <2>3. SubSeq(s, 1, Len(s)) = s
    BY SubSeqFull, Zenon
  <2>4. QED BY <2>1, <2>2, <2>3
<1>6. SubSeq(s, k, Len(s)) = <<t>> \o r
  <2>1. Len(s) \in k .. Len(s)
    BY <1>2
  <2>2. SubSeq(s, k, Len(s)) = <<s[k]>> \o SubSeq(s, k + 1, Len(s))
    BY <1>2, <2>1, SubSeqRecursiveFirst, Zenon
  <2>3. QED BY <1>2, <2>2
<1>7. s = l \o (<<t>> \o r)
  BY <1>5, <1>6
<1>8. QED BY <1>3, <1>4, <1>7 DEF SplitAround

(* Taking n elements from the head of a list leaves two lists.             *)
LEMMA SplitFacts ==
  ASSUME NEW S, NEW s \in Seq(S), NEW n \in 0 .. Len(s)
  PROVE  /\ SubSeq(s, 1, n) \in Seq(S) /\ Len(SubSeq(s, 1, n)) = n
         /\ SubSeq(s, n + 1, Len(s)) \in Seq(S)
         /\ Len(SubSeq(s, n + 1, Len(s))) = Len(s) - n
         /\ n > 0 => SubSeq(s, 1, n)[1] = s[1] /\ s[1] \in S
  OBVIOUS
-----------------------------------------------------------------------------

TypeInv == TypeOK /\ LocalsOK /\ SlotsAndPrimary

LEMMA InitType == Init => TypeInv
<1> SUFFICES ASSUME Init PROVE TypeInv
  OBVIOUS
<1>1. TypeOK
  <2>1. ListsOK
    BY DEF Init, ListsOK
  <2>2. ServiceOK
    BY DEF Init, ServiceOK
  <2>7. FlagsOK
    BY DEF Init, FlagsOK
  <2>3. ThreadsOK
    BY DEF Init, ThreadsOK, Result, Place
  <2>4. TasksOK
    BY ConstantsAssumption DEF Init, TasksOK, ConstantsAssumption
  <2>5. WorldOK
    BY DEF Init, WorldOK
  <2>6. QED BY <2>1, <2>2, <2>3, <2>4, <2>5, <2>7 DEF TypeOK
<1>2. Owners = {}
  BY DEF Init, Owners
<1>3. LocalsOK
  BY <1>2, FS_EmptySet, ConstantsAssumption
     DEF Init, LocalsOK, Running, Thread, ConstantsAssumption
<1>4. SlotsAndPrimary
  BY ConstantsAssumption DEF Init, SlotsAndPrimary, ConstantsAssumption
<1>5. QED BY <1>1, <1>3, <1>4 DEF TypeInv

(* The workers that own a connection are a finite set, and stepping one of *)
(* them in or out of it changes its size by at most one.                   *)
LEMMA OwnersCount ==
  ASSUME NEW w \in Worker
  PROVE  /\ IsFiniteSet(Owners) /\ Cardinality(Owners) \in Nat
         /\ Cardinality(Owners \cup {w}) \in Nat
         /\ Cardinality(Owners \cup {w}) <= Cardinality(Owners) + 1
         /\ Cardinality(Owners \ {w}) \in Nat
         /\ Cardinality(Owners \ {w}) <= Cardinality(Owners)
         /\ w \in Owners => Cardinality(Owners \ {w}) = Cardinality(Owners) - 1
<1>1. IsFiniteSet(Worker)
  BY ConstantsAssumption DEF ConstantsAssumption
<1>2. Owners \subseteq Worker
  BY DEF Owners
<1>3. IsFiniteSet(Owners)
  BY <1>1, <1>2, FS_Subset
<1>4. IsFiniteSet(Owners \cup {w}) /\ IsFiniteSet(Owners \ {w})
  BY <1>3, FS_AddElement, FS_RemoveElement
<1>5. QED BY <1>3, <1>4, FS_AddElement, FS_RemoveElement, FS_CardinalityType

(* What filling the slots does: the tasks taken from the head of the list  *)
(* fit into the free slots, and the first of them becomes the primary one   *)
(* when there is none.                                                      *)
LEMMA FillFacts ==
  ASSUME ListsOK, SlotsAndPrimary, NEW th \in Thread, Fill(th)
  PROVE  \/ UNCHANGED <<queue, active, primary, toStart>>
         \/ \E next \in Seq(Task) :
              /\ queue' \in Seq(Task)
              /\ active' = active \o next
              /\ Len(active) + Len(next) <= MAX_PARALLEL_TRANSFERS
              /\ toStart' = [toStart EXCEPT ![th] = next]
              /\ \/ primary' = primary /\ (primary = NoTask => next = <<>>)
                 \/ primary = NoTask /\ next # <<>> /\ primary' = next[1]
<1>1. CASE NothingLeft
  BY <1>1 DEF Fill
<1>2. CASE ~NothingLeft
  <2> DEFINE room  == MAX_PARALLEL_TRANSFERS - Len(active)
             taken == IF Len(queue) < room THEN Len(queue) ELSE room
             next  == SubSeq(queue, 1, taken)
  <2>1. /\ queue \in Seq(Task) /\ active \in Seq(Task)
        /\ room \in Nat /\ taken \in 0 .. Len(queue) /\ taken <= room
        /\ MAX_PARALLEL_TRANSFERS \in Nat
    BY ConstantsAssumption DEF ListsOK, SlotsAndPrimary, ConstantsAssumption
  <2>2. /\ next \in Seq(Task) /\ Len(next) = taken
        /\ SubSeq(queue, taken + 1, Len(queue)) \in Seq(Task)
    BY <2>1, SplitFacts
  <2>3. /\ queue' = SubSeq(queue, taken + 1, Len(queue))
        /\ active' = active \o next
        /\ toStart' = [toStart EXCEPT ![th] = next]
        /\ primary' = IF primary = NoTask /\ taken > 0 THEN next[1] ELSE primary
    BY <1>2 DEF Fill
  <2>4. Len(active) + Len(next) <= MAX_PARALLEL_TRANSFERS
    BY <2>1, <2>2
  <2>5. next = <<>> <=> ~(taken > 0)
    BY <2>1, <2>2, SMTT(40)
  <2> HIDE DEF next, taken, room
  <2>6. QED BY <2>2, <2>3, <2>4, <2>5
<1>3. QED BY <1>1, <1>2

LEMMA ListsNext == TypeInv /\ [Next]_vars => ListsOK'
<1> SUFFICES ASSUME TypeInv, [Next]_vars PROVE ListsOK'
  OBVIOUS
<1>1. /\ ListsOK /\ ServiceOK /\ ThreadsOK /\ SlotsAndPrimary
      /\ \A w \in Worker : pc[w] \in Running => cur[w] \in Task
  BY DEF TypeInv, TypeOK, LocalsOK
<1> USE DEF taskVars, localVars, listVars, uiVars, serviceVars, worldVars, historyVars
<1>2. CASE Terminals \/ OnCancel \/ RequestCancel \/ OnStop
  BY <1>1, <1>2 DEF ListsOK, Terminals, OnCancel, RequestCancel, OnStop, OpenTerminal, CloseTerminal
<1>3. CASE OnDestroy
  BY <1>1, <1>3 DEF ListsOK, OnDestroy
<1>4. ASSUME NEW t \in Task, EnqueueTransfer(t)
      PROVE  ListsOK'
  BY <1>1, <1>4 DEF ListsOK, EnqueueTransfer
<1>5. ASSUME NEW kind \in {"cancel", "stop"}, SendControl(kind)
      PROVE  ListsOK'
  BY <1>1, <1>5 DEF ListsOK, SendControl
<1>6. ASSUME NEW th \in Thread, Peek(th) \/ Notify(th) \/ Dispatch(th)
      PROVE  ListsOK'
  BY <1>1, <1>6 DEF ListsOK, Peek, Notify, Dispatch
<1>7. ASSUME NEW w \in Worker, Take(w) \/ Begin(w) \/ Connect(w) \/ Claim(w)
      PROVE  ListsOK'
  BY <1>1, <1>7 DEF ListsOK, Take, Begin, Connect, Claim
<1>8. ASSUME NEW w \in Worker, ConnectFresh(w) \/ Prepare(w) \/ Progress(w) \/ EndMoving(w)
      PROVE  ListsOK'
  BY <1>1, <1>8 DEF ListsOK, ConnectFresh, Prepare, Progress, EndMoving
<1>9. ASSUME NEW w \in Worker, Close(w) \/ Report(w) \/ ReleaseSharedHandle(w)
      PROVE  ListsOK'
  BY <1>1, <1>9 DEF ListsOK, Close, Report, ReleaseSharedHandle
<1>10. CASE OnEnqueue
  <2>1. inbox \in Seq(Message) /\ inbox # <<>> /\ Head(inbox).kind = "enqueue"
    BY <1>1, <1>10 DEF OnEnqueue, Receive, ServiceOK
  <2>2. Head(inbox) \in Message /\ Tail(inbox) \in Seq(Message)
    BY <2>1
  <2>3. Head(inbox).task \in Task
    BY <2>1, <2>2 DEF Message
  <2>4. QED BY <1>1, <1>10, <2>2, <2>3 DEF OnEnqueue, ListsOK
<1>11. ASSUME NEW th \in Thread, Fill(th) PROVE ListsOK'
  <2>1. UNCHANGED <<completed, accepted>>
    BY <1>11 DEF Fill
  <2>2. queue' \in Seq(Task) /\ active' \in Seq(Task)
    <3>1. queue \in Seq(Task) /\ active \in Seq(Task)
      BY <1>1 DEF ListsOK
    <3>2. \A next \in Seq(Task) : active \o next \in Seq(Task)
      BY <3>1
    <3>3. QED BY <1>1, <1>11, <3>1, <3>2, FillFacts, ZenonT(60)
  <2>3. primary' \in Task \cup {NoTask}
    BY <1>1, <1>11, FillFacts DEF ListsOK
  <2>4. QED BY <1>1, <2>1, <2>2, <2>3 DEF ListsOK
<1>12. ASSUME NEW w \in Worker, Requeue(w) PROVE ListsOK'
  BY <1>1, <1>12
  DEF ListsOK, Requeue, Goto, Running
<1>13. ASSUME NEW w \in Worker, LeaveActive(w) PROVE ListsOK'
  BY <1>1, <1>13, RemoveFirstFacts
  DEF ListsOK, LeaveActive, RemoveTask, Completed, Elect, AfterLeaving, Outcome, Goto, Running
<1>14. CASE UNCHANGED vars
  BY <1>1, <1>14 DEF ListsOK, vars
<1>15. QED BY <1>2, <1>3, <1>4, <1>5, <1>6, <1>7, <1>8, <1>9, <1>10, <1>11, <1>12, <1>13, <1>14
  DEF Next, User, MainThread, RunTransferTask, ProcessNextTransfer, Thread

LEMMA ServiceNext == TypeOK /\ LocalsOK /\ [Next]_vars => ServiceOK'
<1> SUFFICES ASSUME TypeOK, LocalsOK, [Next]_vars PROVE ServiceOK'
  OBVIOUS
<1>1. ServiceOK /\ ThreadsOK
  BY DEF TypeOK, LocalsOK
<1> USE DEF taskVars, localVars, listVars, uiVars, serviceVars, worldVars, historyVars
<1>2. CASE Terminals
  BY <1>1, <1>2 DEF ServiceOK, Terminals, OpenTerminal, CloseTerminal
<1>3. ASSUME NEW th \in Thread, Peek(th)
      PROVE  ServiceOK'
  BY <1>1, <1>3 DEF ServiceOK, Peek
<1>4. ASSUME NEW w \in Worker, Begin(w) \/ Connect(w) \/ Claim(w) \/ ConnectFresh(w)
      PROVE  ServiceOK'
  BY <1>1, <1>4 DEF ServiceOK, Begin, Connect, Claim, ConnectFresh
<1>5. ASSUME NEW w \in Worker, Prepare(w) \/ EndMoving(w) \/ Close(w) \/ Requeue(w)
      PROVE  ServiceOK'
  BY <1>1, <1>5 DEF ServiceOK, Prepare, EndMoving, Close, Requeue
<1>6. ASSUME NEW w \in Worker, ReleaseSharedHandle(w) \/ LeaveActive(w)
      PROVE  ServiceOK'
  BY <1>1, <1>6 DEF ServiceOK, ReleaseSharedHandle, LeaveActive
<1>7. ASSUME NEW t \in Task, EnqueueTransfer(t) PROVE ServiceOK'
  BY <1>1, <1>7
  DEF ServiceOK, EnqueueTransfer, Send, Message
<1>8. ASSUME NEW kind \in {"cancel", "stop"}, SendControl(kind) PROVE ServiceOK'
  BY <1>1, <1>8
  DEF ServiceOK, SendControl, Send, Message
<1>9. CASE OnEnqueue
  BY <1>1, <1>9
  DEF ServiceOK, OnEnqueue, Receive
<1>10. CASE OnCancel
  BY <1>1, <1>10
  DEF ServiceOK, OnCancel, Receive
<1>11. CASE RequestCancel
  BY <1>1, <1>11
  DEF ServiceOK, RequestCancel
<1>12. CASE OnStop
  BY <1>1, <1>12
  DEF ServiceOK, OnStop, Receive, StopSelf, Message
<1>13. CASE OnDestroy
  BY <1>1, <1>13
  DEF ServiceOK, OnDestroy, Receive
<1>14. ASSUME NEW th \in Thread, Fill(th) PROVE ServiceOK'
  BY <1>1, <1>14
  DEF ServiceOK, Fill, NothingLeft, StopSelf, Message
<1>15. ASSUME NEW th \in Thread, Notify(th) PROVE ServiceOK'
  BY <1>1, <1>15
  DEF ServiceOK, Notify
<1>16. ASSUME NEW th \in Thread, Dispatch(th) PROVE ServiceOK'
  <2>1. UNCHANGED <<inbox, sent>>
    BY <1>16 DEF Dispatch
  <2>2. toStart[th] # <<>> => Head(toStart[th]) \in Task
    BY <1>1 DEF ThreadsOK
  <2>3. pool' \in Seq(Task)
    BY <1>1, <1>16, <2>2, SMTT(40) DEF ServiceOK, Dispatch
  <2>4. QED BY <1>1, <2>1, <2>3 DEF ServiceOK
<1>17. ASSUME NEW w \in Worker, Take(w) PROVE ServiceOK'
  BY <1>1, <1>17
  DEF ServiceOK, Take, Goto, Outcome
<1>18. ASSUME NEW w \in Worker, Progress(w) PROVE ServiceOK'
  BY <1>1, <1>18
  DEF ServiceOK, Progress
<1>19. ASSUME NEW w \in Worker, Report(w) PROVE ServiceOK'
  BY <1>1, <1>19
  DEF ServiceOK, Report, RetryAgain, Events, Goto
<1>20. CASE UNCHANGED vars
  BY <1>1, <1>20 DEF ServiceOK, vars
<1>21. QED BY <1>2, <1>3, <1>4, <1>5, <1>6, <1>7, <1>8, <1>9, <1>10, <1>11, <1>12, <1>13, <1>14, <1>15, <1>16, <1>17, <1>18, <1>19, <1>20
  DEF Next, User, MainThread, RunTransferTask, ProcessNextTransfer, Thread

LEMMA FlagsNext == TypeOK /\ LocalsOK /\ [Next]_vars => FlagsOK'
<1> SUFFICES ASSUME TypeOK, LocalsOK, [Next]_vars PROVE FlagsOK'
  OBVIOUS
<1>1. FlagsOK
  BY DEF TypeOK, LocalsOK
<1> USE DEF taskVars, localVars, listVars, uiVars, serviceVars, worldVars, historyVars
<1>2. CASE Terminals
  BY <1>1, <1>2 DEF FlagsOK, Terminals, OpenTerminal, CloseTerminal
<1>3. ASSUME NEW th \in Thread, Peek(th)
      PROVE  FlagsOK'
  BY <1>1, <1>3 DEF FlagsOK, Peek
<1>4. ASSUME NEW w \in Worker, Begin(w) \/ Connect(w) \/ Claim(w) \/ ConnectFresh(w)
      PROVE  FlagsOK'
  BY <1>1, <1>4 DEF FlagsOK, Begin, Connect, Claim, ConnectFresh
<1>5. ASSUME NEW w \in Worker, Prepare(w) \/ EndMoving(w) \/ Close(w) \/ Requeue(w)
      PROVE  FlagsOK'
  BY <1>1, <1>5 DEF FlagsOK, Prepare, EndMoving, Close, Requeue
<1>6. ASSUME NEW w \in Worker, ReleaseSharedHandle(w) \/ LeaveActive(w)
      PROVE  FlagsOK'
  BY <1>1, <1>6 DEF FlagsOK, ReleaseSharedHandle, LeaveActive
<1>7. ASSUME NEW t \in Task, EnqueueTransfer(t) PROVE FlagsOK'
  BY <1>1, <1>7
  DEF FlagsOK, EnqueueTransfer, Send
<1>8. ASSUME NEW kind \in {"cancel", "stop"}, SendControl(kind) PROVE FlagsOK'
  BY <1>1, <1>8
  DEF FlagsOK, SendControl, Send
<1>9. CASE OnEnqueue
  BY <1>1, <1>9
  DEF FlagsOK, OnEnqueue, Receive
<1>10. CASE OnCancel
  BY <1>1, <1>10
  DEF FlagsOK, OnCancel, Receive
<1>11. CASE RequestCancel
  BY <1>1, <1>11
  DEF FlagsOK, RequestCancel
<1>12. CASE OnStop
  BY <1>1, <1>12
  DEF FlagsOK, OnStop, Receive, StopSelf
<1>13. CASE OnDestroy
  BY <1>1, <1>13
  DEF FlagsOK, OnDestroy, Receive
<1>14. ASSUME NEW th \in Thread, Fill(th) PROVE FlagsOK'
  BY <1>1, <1>14
  DEF FlagsOK, Fill, NothingLeft, StopSelf
<1>15. ASSUME NEW th \in Thread, Notify(th) PROVE FlagsOK'
  BY <1>1, <1>15
  DEF FlagsOK, Notify
<1>16. ASSUME NEW th \in Thread, Dispatch(th) PROVE FlagsOK'
  BY <1>1, <1>16
  DEF FlagsOK, Dispatch, ThreadsOK
<1>17. ASSUME NEW w \in Worker, Take(w) PROVE FlagsOK'
  BY <1>1, <1>17
  DEF FlagsOK, Take, Goto, Outcome
<1>18. ASSUME NEW w \in Worker, Progress(w) PROVE FlagsOK'
  BY <1>1, <1>18
  DEF FlagsOK, Progress
<1>19. ASSUME NEW w \in Worker, Report(w) PROVE FlagsOK'
  BY <1>1, <1>19
  DEF FlagsOK, Report, RetryAgain, Events, Goto
<1>20. CASE UNCHANGED vars
  BY <1>1, <1>20 DEF FlagsOK, vars
<1>21. QED BY <1>2, <1>3, <1>4, <1>5, <1>6, <1>7, <1>8, <1>9, <1>10, <1>11, <1>12, <1>13, <1>14, <1>15, <1>16, <1>17, <1>18, <1>19, <1>20
  DEF Next, User, MainThread, RunTransferTask, ProcessNextTransfer, Thread

LEMMA TasksNext == TypeOK /\ LocalsOK /\ [Next]_vars => TasksOK'
<1> SUFFICES ASSUME TypeOK, LocalsOK, [Next]_vars PROVE TasksOK'
  OBVIOUS
<1>1. TasksOK /\ LocalsOK
  BY DEF TypeOK, LocalsOK
<1> USE DEF taskVars, localVars, listVars, uiVars, serviceVars, worldVars, historyVars
<1>2. CASE Terminals \/ OnEnqueue \/ OnCancel \/ OnStop
  BY <1>1, <1>2 DEF TasksOK, Terminals, OnEnqueue, OnCancel, OnStop, OpenTerminal, CloseTerminal
<1>3. CASE OnDestroy
  BY <1>1, <1>3 DEF TasksOK, OnDestroy
<1>4. ASSUME NEW t \in Task, EnqueueTransfer(t)
      PROVE  TasksOK'
  BY <1>1, <1>4 DEF TasksOK, EnqueueTransfer
<1>5. ASSUME NEW kind \in {"cancel", "stop"}, SendControl(kind)
      PROVE  TasksOK'
  BY <1>1, <1>5 DEF TasksOK, SendControl
<1>6. ASSUME NEW th \in Thread, Fill(th) \/ Peek(th) \/ Notify(th) \/ Dispatch(th)
      PROVE  TasksOK'
  BY <1>1, <1>6 DEF TasksOK, Fill, Peek, Notify, Dispatch
<1>7. ASSUME NEW w \in Worker, Take(w) \/ Begin(w) \/ Connect(w) \/ Prepare(w)
      PROVE  TasksOK'
  BY <1>1, <1>7 DEF TasksOK, Take, Begin, Connect, Prepare
<1>8. ASSUME NEW w \in Worker, Progress(w) \/ EndMoving(w) \/ Close(w) \/ Requeue(w)
      PROVE  TasksOK'
  BY <1>1, <1>8 DEF TasksOK, Progress, EndMoving, Close, Requeue
<1>9. ASSUME NEW w \in Worker, LeaveActive(w)
      PROVE  TasksOK'
  BY <1>1, <1>9 DEF TasksOK, LeaveActive
<1>10. CASE RequestCancel
  BY <1>1, <1>10
  DEF TasksOK, RequestCancel
<1>11. ASSUME NEW w \in Worker, Claim(w) PROVE TasksOK'
  BY <1>1, <1>11
  DEF TasksOK, Claim, Taken, Goto
<1>12. ASSUME NEW w \in Worker, ConnectFresh(w) PROVE TasksOK'
  BY <1>1, <1>12
  DEF TasksOK, ConnectFresh, Goto, Outcome
<1>13. ASSUME NEW w \in Worker, Report(w) PROVE TasksOK'
  BY <1>1, <1>13, ConstantsAssumption
  DEF TasksOK, Report, RetryAgain, Events, Goto, LocalsOK, Running, ConstantsAssumption
<1>14. ASSUME NEW w \in Worker, ReleaseSharedHandle(w) PROVE TasksOK'
  BY <1>1, <1>14
  DEF TasksOK, ReleaseSharedHandle, Goto
<1>15. CASE UNCHANGED vars
  BY <1>1, <1>15 DEF TasksOK, vars
<1>16. QED BY <1>2, <1>3, <1>4, <1>5, <1>6, <1>7, <1>8, <1>9, <1>10, <1>11, <1>12, <1>13, <1>14, <1>15
  DEF Next, User, MainThread, RunTransferTask, ProcessNextTransfer, Thread

LEMMA WorldNext == TypeOK /\ LocalsOK /\ [Next]_vars => WorldOK'
<1> SUFFICES ASSUME TypeOK, LocalsOK, [Next]_vars PROVE WorldOK'
  OBVIOUS
<1>1. WorldOK /\ ThreadsOK /\ LocalsOK
  BY DEF TypeOK, LocalsOK
<1> USE DEF taskVars, localVars, listVars, uiVars, serviceVars, worldVars, historyVars
<1>2. CASE OnEnqueue \/ OnCancel \/ RequestCancel \/ OnStop
  BY <1>1, <1>2 DEF WorldOK, OnEnqueue, OnCancel, RequestCancel, OnStop
<1>3. CASE OnDestroy
  BY <1>1, <1>3 DEF WorldOK, OnDestroy
<1>4. ASSUME NEW t \in Task, EnqueueTransfer(t)
      PROVE  WorldOK'
  BY <1>1, <1>4 DEF WorldOK, EnqueueTransfer
<1>5. ASSUME NEW kind \in {"cancel", "stop"}, SendControl(kind)
      PROVE  WorldOK'
  BY <1>1, <1>5 DEF WorldOK, SendControl
<1>6. ASSUME NEW th \in Thread, Fill(th) \/ Peek(th) \/ Notify(th) \/ Dispatch(th)
      PROVE  WorldOK'
  BY <1>1, <1>6 DEF WorldOK, Fill, Peek, Notify, Dispatch
<1>7. ASSUME NEW w \in Worker, Take(w) \/ Begin(w) \/ Connect(w) \/ Prepare(w)
      PROVE  WorldOK'
  BY <1>1, <1>7 DEF WorldOK, Take, Begin, Connect, Prepare
<1>8. ASSUME NEW w \in Worker, Progress(w) \/ EndMoving(w) \/ Report(w) \/ Requeue(w)
      PROVE  WorldOK'
  BY <1>1, <1>8 DEF WorldOK, Progress, EndMoving, Report, Requeue
<1>9. ASSUME NEW w \in Worker, LeaveActive(w)
      PROVE  WorldOK'
  BY <1>1, <1>9 DEF WorldOK, LeaveActive
<1>10. CASE Terminals
  BY <1>1, <1>10
  DEF WorldOK, Terminals, OpenTerminal, CloseTerminal
<1>11. ASSUME NEW w \in Worker, Claim(w) PROVE WorldOK'
  BY <1>1, <1>11, ConstantsAssumption
  DEF WorldOK, Claim, Taken, Goto, LocalsOK, Running, ConstantsAssumption
<1>12. ASSUME NEW w \in Worker, ConnectFresh(w) PROVE WorldOK'
  BY <1>1, <1>12
  DEF WorldOK, ConnectFresh, Goto, Outcome
<1>13. ASSUME NEW w \in Worker, Close(w) PROVE WorldOK'
  <2>1. handle[w] \in Key \cup {"none", "fresh"}
    BY <1>1 DEF ThreadsOK
  <2>2. handle[w] = "fresh" => opened > 0
    <3>1. SUFFICES ASSUME handle[w] = "fresh" PROVE opened > 0
      OBVIOUS
    <3>2. w \in Owners /\ IsFiniteSet(Owners)
      BY <3>1, OwnersCount DEF Owners
    <3>3. Cardinality(Owners) > 0 /\ Cardinality(Owners) \in Nat
      BY <3>2, FS_EmptySet, FS_CardinalityType
    <3>4. QED BY <1>1, <3>3 DEF LocalsOK, WorldOK
  <2>3. handle[w] # "none"
    BY <1>1, <1>13 DEF LocalsOK, Close
  <2>4. /\ torn' \in Nat /\ crossed' \subseteq Worker
        /\ inUse' \subseteq Key /\ terminal' \subseteq Key
    BY <1>1, <1>13, <2>1, <2>3 DEF WorldOK, Close
  <2>5. opened' \in Nat
    BY <1>1, <1>13, <2>2 DEF WorldOK, Close
  <2>6. QED BY <2>4, <2>5 DEF WorldOK
<1>14. ASSUME NEW w \in Worker, ReleaseSharedHandle(w) PROVE WorldOK'
  BY <1>1, <1>14
  DEF WorldOK, ReleaseSharedHandle, Goto
<1>15. CASE UNCHANGED vars
  BY <1>1, <1>15 DEF WorldOK, vars
<1>16. QED BY <1>2, <1>3, <1>4, <1>5, <1>6, <1>7, <1>8, <1>9, <1>10, <1>11, <1>12, <1>13, <1>14, <1>15
  DEF Next, User, MainThread, RunTransferTask, ProcessNextTransfer, Thread

LEMMA ThreadsNext == TypeInv /\ [Next]_vars => ThreadsOK'
<1> SUFFICES ASSUME TypeInv, [Next]_vars PROVE ThreadsOK'
  OBVIOUS
<1>1. ThreadsOK /\ ListsOK /\ ServiceOK /\ LocalsOK /\ SlotsAndPrimary
  BY DEF TypeInv, TypeOK
<1> USE DEF taskVars, localVars, listVars, uiVars, serviceVars, worldVars, historyVars
<1>2. CASE Terminals \/ OnStop \/ OnDestroy
  BY <1>1, <1>2 DEF ThreadsOK, Terminals, OnStop, OnDestroy, OpenTerminal, CloseTerminal
<1>3. ASSUME NEW t \in Task, EnqueueTransfer(t)
      PROVE  ThreadsOK'
  BY <1>1, <1>3 DEF ThreadsOK, EnqueueTransfer
<1>4. ASSUME NEW kind \in {"cancel", "stop"}, SendControl(kind)
      PROVE  ThreadsOK'
  BY <1>1, <1>4 DEF ThreadsOK, SendControl
<1>5. ASSUME NEW w \in Worker, Progress(w)
      PROVE  ThreadsOK'
  BY <1>1, <1>5 DEF ThreadsOK, Progress
<1>6. CASE OnEnqueue
  BY <1>1, <1>6
  DEF ThreadsOK, OnEnqueue, Receive, Thread, Place, Running, Result
<1>7. CASE OnCancel
  BY <1>1, <1>7
  DEF ThreadsOK, OnCancel, ListsOK, Receive, Thread, Place, Running, Result
<1>8. CASE RequestCancel
  BY <1>1, <1>8
  DEF ThreadsOK, RequestCancel, Thread, Place, Running, Result
<1>9. ASSUME NEW th \in Thread, Fill(th) PROVE ThreadsOK'
  <2>1. UNCHANGED <<cur, handle, result, requeued>>
    BY <1>9 DEF Fill
  <2>2. \E to \in {"idle", "notify", "peek"} : pc' = [pc EXCEPT ![th] = to]
    BY <1>9 DEF Fill
  <2>3. pc' \in [Thread -> Place]
    BY <1>1, <2>2 DEF ThreadsOK, Place
  <2>4. toStart' \in [Thread -> Seq(Task)]
    BY <1>1, <1>9, FillFacts DEF ThreadsOK
  <2>5. QED BY <1>1, <2>1, <2>3, <2>4 DEF ThreadsOK
<1>10. ASSUME NEW th \in Thread, Peek(th) PROVE ThreadsOK'
  BY <1>1, <1>10
  DEF ThreadsOK, Peek, Thread, Place, Running, Result
<1>11. ASSUME NEW th \in Thread, Notify(th) PROVE ThreadsOK'
  BY <1>1, <1>11
  DEF ThreadsOK, Notify, Thread, Place, Running, Result
<1>12. ASSUME NEW th \in Thread, Dispatch(th) PROVE ThreadsOK'
  <2>1. UNCHANGED <<cur, handle, result, requeued>>
    BY <1>12 DEF Dispatch
  <2>2. pc' \in [Thread -> Place]
    BY <1>1, <1>12 DEF ThreadsOK, Dispatch, Place
  <2>3. toStart[th] # <<>> => Tail(toStart[th]) \in Seq(Task)
    BY <1>1 DEF ThreadsOK
  <2>4. toStart' \in [Thread -> Seq(Task)]
    BY <1>1, <1>12, <2>3 DEF ThreadsOK, Dispatch
  <2>5. QED BY <1>1, <2>1, <2>2, <2>4 DEF ThreadsOK
<1>13. ASSUME NEW w \in Worker, Take(w) PROVE ThreadsOK'
  BY <1>1, <1>13
  DEF ThreadsOK, Take, ServiceOK, Goto, Outcome, Thread, Place, Running, Result
<1>14. ASSUME NEW w \in Worker, Begin(w) PROVE ThreadsOK'
  BY <1>1, <1>14
  DEF ThreadsOK, Begin, Goto, Outcome, Thread, Place, Running, Result
<1>15. ASSUME NEW w \in Worker, Connect(w) PROVE ThreadsOK'
  BY <1>1, <1>15
  DEF ThreadsOK, Connect, Goto, Thread, Place, Running, Result
<1>16. ASSUME NEW w \in Worker, Claim(w) PROVE ThreadsOK'
  <2>1. cur[w] \in Task /\ KeyOf[cur[w]] \in Key
    BY <1>1, <1>16, ConstantsAssumption DEF Claim, LocalsOK, Running, ConstantsAssumption
  <2>2. handle' = handle \/ handle' = [handle EXCEPT ![w] = KeyOf[cur[w]]]
    BY <1>16 DEF Claim
  <2>3. pc' \in [Thread -> Place]
    BY <1>1, <1>16, ZenonT(60) DEF ThreadsOK, Claim, Goto, Thread, Place, Running
  <2>4. UNCHANGED <<cur, toStart, result, requeued>>
    BY <1>16 DEF Claim
  <2>5. QED BY <1>1, <2>1, <2>2, <2>3, <2>4 DEF ThreadsOK
<1>17. ASSUME NEW w \in Worker, ConnectFresh(w) PROVE ThreadsOK'
  <2>1. \E r \in Result : result' = result \/ result' = [result EXCEPT ![w] = r]
    BY <1>17, ConstantsAssumption DEF ConnectFresh, Outcome, Result, ConstantsAssumption
  <2>2. handle' = handle \/ handle' = [handle EXCEPT ![w] = "fresh"]
    BY <1>17 DEF ConnectFresh
  <2>3. pc' \in [Thread -> Place]
    BY <1>1, <1>17 DEF ThreadsOK, ConnectFresh, Goto, Thread, Place, Running
  <2>4. UNCHANGED <<cur, toStart, requeued>>
    BY <1>17 DEF ConnectFresh
  <2>5. QED BY <1>1, <2>1, <2>2, <2>3, <2>4 DEF ThreadsOK
<1>18. ASSUME NEW w \in Worker, Prepare(w) PROVE ThreadsOK'
  BY <1>1, <1>18
  DEF ThreadsOK, Prepare, Goto, Outcome, Thread, Place, Running, Result
<1>19. ASSUME NEW w \in Worker, EndMoving(w) PROVE ThreadsOK'
  <2>1. \E r \in Result : result' = [result EXCEPT ![w] = r]
    BY <1>19, ConstantsAssumption DEF EndMoving, Outcome, Result, ConstantsAssumption
  <2>2. pc' \in [Thread -> Place]
    BY <1>1, <1>19 DEF ThreadsOK, EndMoving, Goto, Thread, Place, Running
  <2>3. UNCHANGED <<cur, toStart, handle, requeued>>
    BY <1>19 DEF EndMoving
  <2>4. QED BY <1>1, <2>1, <2>2, <2>3 DEF ThreadsOK
<1>20. ASSUME NEW w \in Worker, Close(w) PROVE ThreadsOK'
  BY <1>1, <1>20
  DEF ThreadsOK, Close, OwnsHandle, Goto, Thread, Place, Running, Result
<1>21. ASSUME NEW w \in Worker, Report(w) PROVE ThreadsOK'
  BY <1>1, <1>21
  DEF ThreadsOK, Report, RetryAgain, Events, Goto, Thread, Place, Running, Result
<1>22. ASSUME NEW w \in Worker, Requeue(w) PROVE ThreadsOK'
  BY <1>1, <1>22
  DEF ThreadsOK, Requeue, Goto, Thread, Place, Running, Result
<1>23. ASSUME NEW w \in Worker, ReleaseSharedHandle(w) PROVE ThreadsOK'
  BY <1>1, <1>23
  DEF ThreadsOK, ReleaseSharedHandle, Goto, Thread, Place, Running, Result
<1>24. ASSUME NEW w \in Worker, LeaveActive(w) PROVE ThreadsOK'
  BY <1>1, <1>24
  DEF ThreadsOK, LeaveActive, RemoveTask, Completed, Elect, AfterLeaving, Outcome, Goto, Thread, Place, Running, Result
<1>25. CASE UNCHANGED vars
  BY <1>1, <1>25 DEF ThreadsOK, vars
<1>26. QED BY <1>2, <1>3, <1>4, <1>5, <1>6, <1>7, <1>8, <1>9, <1>10, <1>11, <1>12, <1>13, <1>14, <1>15, <1>16, <1>17, <1>18, <1>19, <1>20, <1>21, <1>22, <1>23, <1>24, <1>25
  DEF Next, User, MainThread, RunTransferTask, ProcessNextTransfer, Thread

LEMMA LocalsNext == TypeOK /\ LocalsOK /\ [Next]_vars => LocalsOK'
<1> SUFFICES ASSUME TypeOK, LocalsOK, [Next]_vars PROVE LocalsOK'
  OBVIOUS
<1>1. /\ ListsOK /\ ServiceOK /\ ThreadsOK /\ LocalsOK /\ WorldOK
      /\ Main \notin Worker /\ Main \in Thread /\ Worker \subseteq Thread
      /\ NoTask \notin Task
  BY ConstantsAssumption DEF TypeOK, ConstantsAssumption, Thread
<1> USE DEF taskVars, localVars, listVars, uiVars, serviceVars, worldVars, historyVars
<1>2. CASE Terminals \/ OnStop
  BY <1>1, <1>2 DEF LocalsOK, Owners, Terminals, OnStop, OpenTerminal, CloseTerminal
<1>3. CASE OnDestroy
  BY <1>1, <1>3 DEF LocalsOK, Owners, OnDestroy
<1>4. ASSUME NEW t \in Task, EnqueueTransfer(t) PROVE LocalsOK'
  BY <1>1, <1>4 DEF LocalsOK, Owners, EnqueueTransfer
<1>5. ASSUME NEW kind \in {"cancel", "stop"}, SendControl(kind) PROVE LocalsOK'
  BY <1>1, <1>5 DEF LocalsOK, Owners, SendControl
<1>6. ASSUME NEW w \in Worker, Progress(w) PROVE LocalsOK'
  BY <1>1, <1>6 DEF LocalsOK, Owners, Progress
<1>7. CASE OnEnqueue
  BY <1>1, <1>7 DEF LocalsOK, ThreadsOK, Owners, OnEnqueue, Receive, Running
<1>8. CASE OnCancel
  BY <1>1, <1>8 DEF LocalsOK, ThreadsOK, Owners, OnCancel, Receive, ListsOK, Running
<1>9. CASE RequestCancel
  BY <1>1, <1>9 DEF LocalsOK, ThreadsOK, Owners, RequestCancel, Running
<1>10. ASSUME NEW th \in Thread, Fill(th) PROVE LocalsOK'
  BY <1>1, <1>10 DEF LocalsOK, ThreadsOK, Owners, Fill, NothingLeft, Running
<1>11. ASSUME NEW th \in Thread, Peek(th) PROVE LocalsOK'
  BY <1>1, <1>11 DEF LocalsOK, ThreadsOK, Owners, Peek, Running
<1>12. ASSUME NEW th \in Thread, Notify(th) PROVE LocalsOK'
  BY <1>1, <1>12 DEF LocalsOK, ThreadsOK, Owners, Notify, Running
<1>13. ASSUME NEW th \in Thread, Dispatch(th) PROVE LocalsOK'
  BY <1>1, <1>13 DEF LocalsOK, ThreadsOK, Owners, Dispatch, Running
<1>14. ASSUME NEW w \in Worker, Take(w) PROVE LocalsOK'
  BY <1>1, <1>14 DEF LocalsOK, ThreadsOK, Owners, Take, ServiceOK, Goto, Running
<1>15. ASSUME NEW w \in Worker, Begin(w) PROVE LocalsOK'
  BY <1>1, <1>15 DEF LocalsOK, ThreadsOK, Owners, Begin, Goto, Running
<1>16. ASSUME NEW w \in Worker, Connect(w) PROVE LocalsOK'
  BY <1>1, <1>16 DEF LocalsOK, ThreadsOK, Owners, Connect, Goto, Running
<1>17. ASSUME NEW w \in Worker, EndMoving(w) PROVE LocalsOK'
  BY <1>1, <1>17 DEF LocalsOK, ThreadsOK, Owners, EndMoving, Goto, Running
<1>18. ASSUME NEW w \in Worker, Report(w) PROVE LocalsOK'
  BY <1>1, <1>18 DEF LocalsOK, ThreadsOK, Owners, Report, RetryAgain, Goto, Running
<1>19. ASSUME NEW w \in Worker, Requeue(w) PROVE LocalsOK'
  BY <1>1, <1>19 DEF LocalsOK, ThreadsOK, Owners, Requeue, Goto, Running
<1>20. ASSUME NEW w \in Worker, ReleaseSharedHandle(w) PROVE LocalsOK'
  BY <1>1, <1>20 DEF LocalsOK, ThreadsOK, Owners, ReleaseSharedHandle, Goto, Running
<1>21. ASSUME NEW w \in Worker, LeaveActive(w) PROVE LocalsOK'
  BY <1>1, <1>21 DEF LocalsOK, ThreadsOK, Owners, LeaveActive, AfterLeaving, Outcome, Goto, Running
<1>22. ASSUME NEW w \in Worker, Claim(w) PROVE LocalsOK'
  <2>1. Owners' = Owners \/ Owners' = Owners \ {w}
    BY <1>1, <1>22, ConstantsAssumption DEF Claim, Taken, Owners, ThreadsOK, LocalsOK, Running, ConstantsAssumption
  <2>2. Cardinality(Owners') <= opened'
    <3>1. Cardinality(Owners) <= opened /\ opened \in Nat /\ opened' = opened
      BY <1>1, <1>22 DEF Claim, LocalsOK, WorldOK
    <3>2. Cardinality(Owners \ {w}) <= Cardinality(Owners)
          /\ Cardinality(Owners \ {w}) \in Nat /\ Cardinality(Owners) \in Nat
      BY OwnersCount
    <3>3. QED BY <2>1, <3>1, <3>2
  <2>3. KeyOf[cur[w]] # "none"
    BY <1>1, <1>22, ConstantsAssumption DEF Claim, LocalsOK, Running, ConstantsAssumption
  <2>4. QED BY <1>1, <1>22, <2>2, <2>3 DEF LocalsOK, ThreadsOK, Claim, Taken, Goto, Running
<1>23. ASSUME NEW w \in Worker, Prepare(w) PROVE LocalsOK'
  <2>1. Owners' = Owners \/ Owners' = Owners \ {w}
    BY <1>1, <1>23, ConstantsAssumption DEF Prepare, Owners, ThreadsOK, LocalsOK, Running, ConstantsAssumption
  <2>2. Cardinality(Owners') <= opened'
    <3>1. Cardinality(Owners) <= opened /\ opened \in Nat /\ opened' = opened
      BY <1>1, <1>23 DEF Prepare, LocalsOK, WorldOK
    <3>2. Cardinality(Owners \ {w}) <= Cardinality(Owners)
          /\ Cardinality(Owners \ {w}) \in Nat /\ Cardinality(Owners) \in Nat
      BY OwnersCount
    <3>3. QED BY <2>1, <3>1, <3>2
  <2>3. QED BY <1>1, <1>23, <2>2 DEF LocalsOK, ThreadsOK, Prepare, Goto, Running
<1>24. ASSUME NEW w \in Worker, ConnectFresh(w) PROVE LocalsOK'
  <2>1. \/ Owners' = Owners /\ opened' = opened
        \/ Owners' = Owners \cup {w} /\ opened' = opened + 1
    BY <1>1, <1>24 DEF ConnectFresh, Owners, ThreadsOK
  <2>2. Cardinality(Owners') <= opened'
    <3>1. Cardinality(Owners) <= opened /\ opened \in Nat
      BY <1>1 DEF LocalsOK, WorldOK
    <3>2. Cardinality(Owners \cup {w}) <= Cardinality(Owners) + 1
          /\ Cardinality(Owners \cup {w}) \in Nat /\ Cardinality(Owners) \in Nat
      BY OwnersCount
    <3>3. QED BY <2>1, <3>1, <3>2
  <2>3. QED BY <1>1, <1>24, <2>2 DEF LocalsOK, ThreadsOK, ConnectFresh, Outcome, Goto, Running
<1>25. ASSUME NEW w \in Worker, Close(w) PROVE LocalsOK'
  <2>1. Owners' = Owners \ {w}
    BY <1>1, <1>25 DEF Close, Owners, ThreadsOK
  <2>2. opened' = opened \/ (w \in Owners /\ opened' = opened - 1)
    BY <1>1, <1>25 DEF Close, Owners, ThreadsOK
  <2>3. Cardinality(Owners') <= opened'
    <3>1. Cardinality(Owners) <= opened /\ opened \in Nat
      BY <1>1 DEF LocalsOK, WorldOK
    <3>2. /\ Cardinality(Owners \ {w}) <= Cardinality(Owners)
          /\ w \in Owners => Cardinality(Owners \ {w}) = Cardinality(Owners) - 1
          /\ Cardinality(Owners \ {w}) \in Nat /\ Cardinality(Owners) \in Nat
      BY OwnersCount
    <3>3. QED BY <2>1, <2>2, <3>1, <3>2
  <2>4. QED BY <1>1, <1>25, <2>3 DEF LocalsOK, ThreadsOK, Close, Goto, Running
<1>26. CASE UNCHANGED vars
  BY <1>1, <1>26 DEF LocalsOK, Owners, vars
<1>27. QED BY <1>2, <1>3, <1>4, <1>5, <1>6, <1>7, <1>8, <1>9, <1>10, <1>11, <1>12, <1>13, <1>14, <1>15, <1>16, <1>17, <1>18, <1>19, <1>20, <1>21, <1>22, <1>23, <1>24, <1>25, <1>26
  DEF Next, User, MainThread, RunTransferTask, ProcessNextTransfer, Thread

LEMMA SlotsNext == TypeInv /\ [Next]_vars => SlotsAndPrimary'
<1> SUFFICES ASSUME TypeInv, [Next]_vars PROVE SlotsAndPrimary'
  OBVIOUS
<1>1. /\ ListsOK /\ SlotsAndPrimary /\ NoTask \notin Task
      /\ \A w \in Worker : pc[w] \in Running => cur[w] \in Task
      /\ MAX_PARALLEL_TRANSFERS \in Nat
  BY ConstantsAssumption DEF TypeInv, TypeOK, LocalsOK, ConstantsAssumption
<1>2. ASSUME NEW th \in Thread, Fill(th) PROVE SlotsAndPrimary'
  <2>1. CASE UNCHANGED <<queue, active, primary, toStart>>
    BY <1>1, <2>1 DEF SlotsAndPrimary
  <2>2. ASSUME NEW next \in Seq(Task),
               active' = active \o next,
               Len(active) + Len(next) <= MAX_PARALLEL_TRANSFERS,
               \/ primary' = primary /\ (primary = NoTask => next = <<>>)
               \/ primary = NoTask /\ next # <<>> /\ primary' = next[1]
        PROVE  SlotsAndPrimary'
    <3>1. active \in Seq(Task) /\ primary \in Task \cup {NoTask}
      BY <1>1 DEF ListsOK
    <3>2. /\ Len(active') = Len(active) + Len(next)
          /\ \A i \in 1 .. Len(active) : active'[i] = active[i]
      BY <2>2, <3>1
    <3>3. CASE primary # NoTask
      <4>1. active # <<>> /\ primary' = primary
        BY <1>1, <2>2, <3>3 DEF SlotsAndPrimary
      <4>2. PICK i \in 1 .. Len(active) : active[i] = primary
        BY <1>1, <3>1, <4>1 DEF SlotsAndPrimary, ToSet
      <4>3. i \in DOMAIN active' /\ active'[i] = primary'
        BY <2>2, <3>1, <3>2, <4>1, <4>2
      <4>4. QED BY <2>2, <3>1, <3>2, <4>3 DEF SlotsAndPrimary, ToSet
    <3>4. CASE primary = NoTask
      <4>1. active = <<>>
        BY <1>1, <3>1, <3>4 DEF SlotsAndPrimary, ToSet
      <4>2. active' = next
        BY <2>2, <4>1
      <4>3. CASE next = <<>>
        BY <1>1, <2>2, <3>4, <4>2, <4>3 DEF SlotsAndPrimary
      <4>4. CASE next # <<>>
        <5>1. primary' = next[1] /\ 1 \in DOMAIN next
          BY <2>2, <3>4, <4>4
        <5>2. QED BY <2>2, <3>2, <4>2, <4>4, <5>1 DEF SlotsAndPrimary, ToSet
      <4>5. QED BY <4>3, <4>4
    <3>5. QED BY <3>3, <3>4
  <2>3. QED BY <1>1, <1>2, <2>1, <2>2, FillFacts
<1>3. ASSUME NEW w \in Worker, LeaveActive(w) PROVE SlotsAndPrimary'
  <2> DEFINE t == cur[w]
             rest == RemoveFirst(active, t)
  <2>1. t \in Task /\ active \in Seq(Task)
    BY <1>1, <1>3 DEF LeaveActive, ListsOK, Running
  <2>2. active' = rest /\ primary' = Elect(t, rest)
    BY <1>3 DEF LeaveActive, RemoveTask
  <2>3. /\ rest \in Seq(Task) /\ Len(rest) <= Len(active)
        /\ ToSet(active) \ {t} \subseteq ToSet(rest)
        /\ ToSet(rest) \subseteq ToSet(active)
    BY <2>1, RemoveFirstFacts
  <2> HIDE DEF rest, t
  <2>4. Len(active') <= MAX_PARALLEL_TRANSFERS
    BY <1>1, <2>1, <2>2, <2>3 DEF SlotsAndPrimary
  <2>5. rest = <<>> => ToSet(rest) = {}
    BY DEF ToSet
  <2>6. active = <<>> => ToSet(active) = {}
    BY DEF ToSet
  <2>7. rest # <<>> => rest[1] \in ToSet(rest)
    BY <2>3 DEF ToSet
  <2>8. rest # <<>> => ToSet(rest) # {}
    BY <2>7
  <2>9. CASE t # primary
    BY <1>1, <2>1, <2>2, <2>3, <2>4, <2>5, <2>6, <2>8, <2>9 DEF SlotsAndPrimary, Elect
  <2>10. CASE t = primary
    BY <1>1, <2>1, <2>2, <2>4, <2>7, <2>10 DEF SlotsAndPrimary, Elect
  <2>11. QED BY <2>9, <2>10
<1>4. ASSUME UNCHANGED <<active, primary>> PROVE SlotsAndPrimary'
  BY <1>1, <1>4 DEF SlotsAndPrimary
<1> USE DEF taskVars, localVars, listVars, uiVars, serviceVars, worldVars, historyVars
<1>5. CASE Terminals \/ OnEnqueue \/ OnCancel \/ RequestCancel \/ OnStop \/ OnDestroy
  BY <1>4, <1>5 DEF Terminals, OnEnqueue, OnCancel, RequestCancel, OnStop, OnDestroy,
                    OpenTerminal, CloseTerminal
<1>6. CASE User
  BY <1>4, <1>6 DEF User, EnqueueTransfer, SendControl
<1>7. ASSUME NEW th \in Thread, Peek(th) \/ Notify(th) \/ Dispatch(th)
      PROVE  SlotsAndPrimary'
  BY <1>4, <1>7 DEF Peek, Notify, Dispatch
<1>8. ASSUME NEW w \in Worker, \/ Take(w) \/ Begin(w) \/ Connect(w) \/ Claim(w)
                               \/ ConnectFresh(w) \/ Prepare(w)
      PROVE  SlotsAndPrimary'
  BY <1>4, <1>8 DEF Take, Begin, Connect, Claim, ConnectFresh, Prepare
<1>9. ASSUME NEW w \in Worker, \/ Progress(w) \/ EndMoving(w) \/ Close(w) \/ Report(w)
                               \/ Requeue(w) \/ ReleaseSharedHandle(w)
      PROVE  SlotsAndPrimary'
  BY <1>4, <1>9 DEF Progress, EndMoving, Close, Report, Requeue, ReleaseSharedHandle
<1>10. CASE UNCHANGED vars
  BY <1>4, <1>10 DEF vars
<1>11. QED BY <1>2, <1>3, <1>5, <1>6, <1>7, <1>8, <1>9, <1>10
  DEF Next, MainThread, RunTransferTask, ProcessNextTransfer, Thread

LEMMA Inductive == TypeInv /\ [Next]_vars => TypeInv'
  BY ListsNext, ServiceNext, FlagsNext, TasksNext, WorldNext, ThreadsNext, LocalsNext, SlotsNext
  DEF TypeInv, TypeOK

LEMMA Invariant == Spec => []TypeInv
<1>1. Init /\ [][Next]_vars => []TypeInv
  BY InitType, Inductive, PTL
<1>2. QED BY <1>1, PTL DEF Spec, SafetySpec

(* Every variable keeps its type, a working thread has a task, and there are *)
(* never fewer open connections than transfers about to close their own.     *)
THEOREM TypeCorrect == Spec => [](TypeOK /\ LocalsOK)
<1>1. TypeInv => TypeOK /\ LocalsOK
  BY DEF TypeInv
<1>2. QED BY <1>1, Invariant, PTL

(* However many tasks are enqueued, retried and re-elected, no more than     *)
(* MAX_PARALLEL_TRANSFERS hold a slot, and activeTransfer is one of them.    *)
THEOREM SlotsCorrect == Spec => []SlotsAndPrimary
<1>1. TypeInv => SlotsAndPrimary
  BY DEF TypeInv
<1>2. QED BY <1>1, Invariant, PTL

(* Two finite sets with nothing in common.                                 *)
LEMMA DisjointUnion ==
  ASSUME NEW A, NEW B, IsFiniteSet(A), IsFiniteSet(B), A \cap B = {}
  PROVE  IsFiniteSet(A \cup B) /\ Cardinality(A \cup B) = Cardinality(A) + Cardinality(B)
<1>1. /\ IsFiniteSet(A \cup B)
      /\ Cardinality(A \cup B) = Cardinality(A) + Cardinality(B) - Cardinality(A \cap B)
  BY FS_Union, Zenon
<1>2. Cardinality(A \cap B) = 0
  BY FS_EmptySet, Zenon
<1>3. Cardinality(A) \in Nat /\ Cardinality(B) \in Nat
  BY FS_CardinalityType, Zenon
<1>4. QED BY <1>1, <1>2, <1>3

Same(x, y) == IF x = y THEN 1 ELSE 0

(* The places where an element stands in a list are finitely many.         *)
LEMMA OccurrencesType ==
  ASSUME NEW S, NEW s \in Seq(S), NEW t
  PROVE  /\ IsFiniteSet({i \in DOMAIN s : s[i] = t})
         /\ Occurrences(s, t) \in Nat
         /\ Occurrences(s, t) = 0 <=> t \notin ToSet(s)
<1> DEFINE P == {i \in DOMAIN s : s[i] = t}
<1>1. IsFiniteSet(1 .. Len(s))
  BY FS_Interval
<1>2. P \in SUBSET (1 .. Len(s))
  OBVIOUS
<1>3. IsFiniteSet(P)
  BY <1>1, <1>2, FS_Subset
<1>4. Cardinality(P) \in Nat /\ (Cardinality(P) = 0 <=> P = {})
  BY <1>3, FS_CardinalityType, FS_EmptySet
<1>5. P = {} <=> t \notin ToSet(s)
  BY DEF ToSet
<1>6. QED BY <1>3, <1>4, <1>5 DEF Occurrences

(* Two lists one after the other.                                          *)
LEMMA OccurrencesConcat ==
  ASSUME NEW S, NEW s \in Seq(S), NEW u \in Seq(S), NEW t
  PROVE  Occurrences(s \o u, t) = Occurrences(s, t) + Occurrences(u, t)
<1> DEFINE P == {i \in DOMAIN s : s[i] = t}
           Q == {i \in DOMAIN u : u[i] = t}
           R == {i \in Len(s) + 1 .. Len(s) + Len(u) : u[i - Len(s)] = t}
           f == [i \in Q |-> i + Len(s)]
<1>1. /\ s \o u \in Seq(S) /\ Len(s \o u) = Len(s) + Len(u)
      /\ \A i \in 1 .. Len(s) + Len(u) :
            (s \o u)[i] = IF i <= Len(s) THEN s[i] ELSE u[i - Len(s)]
  BY ConcatProperties, Zenon
<1>2. /\ DOMAIN (s \o u) = 1 .. Len(s) + Len(u)
      /\ DOMAIN s = 1 .. Len(s) /\ DOMAIN u = 1 .. Len(u)
      /\ Len(s) \in Nat /\ Len(u) \in Nat
  BY <1>1
<1>3. {i \in DOMAIN (s \o u) : (s \o u)[i] = t} = P \cup R
  BY <1>1, <1>2
<1>4. P \cap R = {}
  BY <1>2
<1>5. f \in Bijection(Q, R)
  <2>1. f \in [Q -> R]
    BY <1>2
  <2>2. \A i, j \in Q : f[i] = f[j] => i = j
    BY <1>2
  <2>3. \A r \in R : \E q \in Q : f[q] = r
    <3> SUFFICES ASSUME NEW r \in R PROVE \E q \in Q : f[q] = r
      OBVIOUS
    <3>1. r - Len(s) \in Q /\ f[r - Len(s)] = r
      BY <1>2
    <3>2. QED BY <3>1
  <2>4. QED BY <2>1, <2>2, <2>3 DEF Bijection, Injection, Surjection, IsInjective
<1>6. IsFiniteSet(P) /\ IsFiniteSet(Q)
  BY OccurrencesType
<1>7. IsFiniteSet(R) /\ Cardinality(R) = Cardinality(Q)
  BY <1>5, <1>6, FS_Bijection DEF ExistsBijection
<1>8. Cardinality(P \cup R) = Cardinality(P) + Cardinality(R)
  BY <1>4, <1>6, <1>7, DisjointUnion, Zenon
<1>9. QED BY <1>3, <1>7, <1>8 DEF Occurrences

LEMMA OccurrencesEmpty ==
  ASSUME NEW t
  PROVE  Occurrences(<<>>, t) = 0
BY FS_EmptySet DEF Occurrences

(* An element that is put before or behind a list.                         *)
LEMMA OccurrencesPut ==
  ASSUME NEW S, NEW s \in Seq(S), NEW e \in S, NEW t
  PROVE  /\ Occurrences(Append(s, e), t) = Occurrences(s, t) + Same(e, t)
         /\ Occurrences(<<e>> \o s, t) = Occurrences(s, t) + Same(e, t)
<1>2. Occurrences(<<e>>, t) = Same(e, t)
  <2>1. CASE e = t
    <3>1. {i \in DOMAIN <<e>> : <<e>>[i] = t} = {1}
      BY <2>1
    <3>2. QED BY <2>1, <3>1, FS_Singleton DEF Occurrences, Same
  <2>2. CASE e # t
    <3>1. {i \in DOMAIN <<e>> : <<e>>[i] = t} = {}
      BY <2>2
    <3>2. QED BY <2>2, <3>1, FS_EmptySet DEF Occurrences, Same
  <2>3. QED BY <2>1, <2>2
<1>0. <<e>> \in Seq(S)
  OBVIOUS
<1>3. Occurrences(s \o <<e>>, t) = Occurrences(s, t) + Occurrences(<<e>>, t)
  BY <1>0, OccurrencesConcat, Zenon
<1>4. Occurrences(<<e>> \o s, t) = Occurrences(<<e>>, t) + Occurrences(s, t)
  BY <1>0, OccurrencesConcat, Zenon
<1>5. Append(s, e) = s \o <<e>>
  OBVIOUS
<1>6. Occurrences(s, t) \in Nat /\ Same(e, t) \in Nat
  BY OccurrencesType DEF Same
<1>7. QED BY <1>2, <1>3, <1>4, <1>5, <1>6

(* The first element of a list, and a list in two parts.                   *)
LEMMA OccurrencesSplit ==
  ASSUME NEW S, NEW s \in Seq(S), NEW t
  PROVE  /\ \A n \in 0 .. Len(s) :
              Occurrences(s, t) =
                Occurrences(SubSeq(s, 1, n), t) + Occurrences(SubSeq(s, n + 1, Len(s)), t)
         /\ s # <<>> => Occurrences(s, t) = Occurrences(Tail(s), t) + Same(Head(s), t)
<1>1. ASSUME NEW n \in 0 .. Len(s)
      PROVE  Occurrences(s, t) =
               Occurrences(SubSeq(s, 1, n), t) + Occurrences(SubSeq(s, n + 1, Len(s)), t)
  <2>1. SubSeq(s, 1, n) \in Seq(S) /\ SubSeq(s, n + 1, Len(s)) \in Seq(S)
    BY SplitFacts
  <2>2. SubSeq(s, 1, n) \o SubSeq(s, n + 1, Len(s)) = s
    <3>1. 1 \in 1 .. Len(s) + 1 /\ n \in 1 - 1 .. Len(s) /\ Len(s) \in n .. Len(s)
      OBVIOUS
    <3>2. SubSeq(s, 1, n) \o SubSeq(s, n + 1, Len(s)) = SubSeq(s, 1, Len(s))
      BY <3>1, ConcatAdjacentSubSeq, Zenon
    <3>3. QED BY <3>2, SubSeqFull, Zenon
  <2>3. Occurrences(SubSeq(s, 1, n) \o SubSeq(s, n + 1, Len(s)), t) =
          Occurrences(SubSeq(s, 1, n), t) + Occurrences(SubSeq(s, n + 1, Len(s)), t)
    BY <2>1, OccurrencesConcat, Zenon
  <2>4. QED BY <2>2, <2>3
<1>2. ASSUME s # <<>>
      PROVE  Occurrences(s, t) = Occurrences(Tail(s), t) + Same(Head(s), t)
  <2>1. Head(s) \in S /\ Tail(s) \in Seq(S)
    BY <1>2
  <2>2. s = <<Head(s)>> \o Tail(s)
    BY <1>2
  <2>3. Occurrences(<<Head(s)>> \o Tail(s), t) = Occurrences(Tail(s), t) + Same(Head(s), t)
    BY <2>1, OccurrencesPut, Zenon
  <2>4. QED BY <2>2, <2>3
<1>3. QED BY <1>1, <1>2
(* RemoveFirst takes away one of the places where the element stands.      *)
LEMMA OccurrencesRemoved ==
  ASSUME NEW S, NEW s \in Seq(S), NEW e, e \in ToSet(s), NEW t
  PROVE  Occurrences(RemoveFirst(s, e), t) + Same(e, t) = Occurrences(s, t)
<1>1. PICK l \in Seq(S), r \in Seq(S) :
        SplitAround(s, e, l, r)
  BY RemoveFirstSplit, Zenon
<1>2. e \in S
  BY DEF ToSet
<1>3. <<e>> \o r \in Seq(S)
  BY <1>2
<1>4. /\ Occurrences(l \o (<<e>> \o r), t) = Occurrences(l, t) + Occurrences(<<e>> \o r, t)
      /\ Occurrences(l \o r, t) = Occurrences(l, t) + Occurrences(r, t)
  BY <1>3, OccurrencesConcat, ZenonT(40)
<1>5. Occurrences(<<e>> \o r, t) = Occurrences(r, t) + Same(e, t)
  BY <1>2, OccurrencesPut, Zenon
<1>6. Occurrences(l, t) \in Nat /\ Occurrences(r, t) \in Nat
  BY OccurrencesType, Zenon
<1>8. Same(e, t) \in Nat
  BY DEF Same
<1>9. s = l \o (<<e>> \o r) /\ RemoveFirst(s, e) = l \o r
  BY <1>1 DEF SplitAround
<1>10. /\ Occurrences(s, t) = Occurrences(l \o (<<e>> \o r), t)
       /\ Occurrences(RemoveFirst(s, e), t) = Occurrences(l \o r, t)
  BY <1>9
<1>11. QED BY <1>4, <1>5, <1>6, <1>8, <1>10

(* The tasks that threads have taken from the list and not dispatched yet.  *)
Pairs(f, t) == {p \in Thread \X (1 .. MAX_PARALLEL_TRANSFERS) :
                  p[2] \in DOMAIN f[p[1]] /\ f[p[1]][p[2]] = t}
Handed(f, t) == Cardinality(Pairs(f, t))

LEMMA PairsFinite ==
  ASSUME NEW f, NEW t
  PROVE  IsFiniteSet(Pairs(f, t)) /\ Handed(f, t) \in Nat
<1>1. IsFiniteSet(Worker) /\ MAX_PARALLEL_TRANSFERS \in Nat
  BY ConstantsAssumption DEF ConstantsAssumption
<1>2. IsFiniteSet(Thread)
  BY <1>1, FS_AddElement DEF Thread
<1>3. IsFiniteSet(1 .. MAX_PARALLEL_TRANSFERS)
  BY <1>1, FS_Interval
<1>4. IsFiniteSet(Thread \X (1 .. MAX_PARALLEL_TRANSFERS))
  BY <1>2, <1>3, FS_Product
<1>5. Pairs(f, t) \in SUBSET (Thread \X (1 .. MAX_PARALLEL_TRANSFERS))
  BY DEF Pairs
<1>6. IsFiniteSet(Pairs(f, t))
  BY <1>4, <1>5, FS_Subset, Zenon
<1>7. QED BY <1>6, FS_CardinalityType, Zenon DEF Handed

(* Of one thread there are as many as stand in its own list.               *)
LEMMA PairsOfThread ==
  ASSUME NEW f \in [Thread -> Seq(Task)], NEW th \in Thread, NEW t,
         Len(f[th]) <= MAX_PARALLEL_TRANSFERS
  PROVE  LET own == {p \in Pairs(f, t) : p[1] = th}
         IN  IsFiniteSet(own) /\ Cardinality(own) = Occurrences(f[th], t)
<1> DEFINE own == {p \in Pairs(f, t) : p[1] = th}
           at  == {i \in DOMAIN f[th] : f[th][i] = t}
           g   == [i \in at |-> <<th, i>>]
<1>0. MAX_PARALLEL_TRANSFERS \in Nat /\ f[th] \in Seq(Task)
  BY ConstantsAssumption DEF ConstantsAssumption
<1>1. at \subseteq 1 .. MAX_PARALLEL_TRANSFERS
  BY <1>0
<1>2. g \in Bijection(at, own)
  <2>1. g \in [at -> own]
    BY <1>1 DEF Pairs
  <2>2. \A i, j \in at : g[i] = g[j] => i = j
    OBVIOUS
  <2>3. \A p \in own : \E i \in at : g[i] = p
    <3> SUFFICES ASSUME NEW p \in own PROVE \E i \in at : g[i] = p
      OBVIOUS
    <3>1. p \in Thread \X (1 .. MAX_PARALLEL_TRANSFERS) /\ p[1] = th /\ p[2] \in at
      BY DEF Pairs
    <3>2. g[p[2]] = p
      BY <3>1
    <3>3. QED BY <3>1, <3>2
  <2>4. QED BY <2>1, <2>2, <2>3 DEF Bijection, Injection, Surjection, IsInjective
<1>3. IsFiniteSet(at)
  BY <1>0, OccurrencesType
<1>4. IsFiniteSet(own) /\ Cardinality(own) = Cardinality(at)
  BY <1>2, <1>3, FS_Bijection DEF ExistsBijection
<1>5. QED BY <1>4 DEF Occurrences

(* When one thread's list changes, the count changes by what its list gains *)
(* and loses.                                                              *)
LEMMA HandedUpdate ==
  ASSUME NEW f \in [Thread -> Seq(Task)], NEW th \in Thread, NEW s \in Seq(Task), NEW t,
         Len(f[th]) <= MAX_PARALLEL_TRANSFERS, Len(s) <= MAX_PARALLEL_TRANSFERS
  PROVE  Handed([f EXCEPT ![th] = s], t) + Occurrences(f[th], t)
           = Handed(f, t) + Occurrences(s, t)
<1> DEFINE g == [f EXCEPT ![th] = s]
           rest   == {p \in Pairs(f, t) : p[1] # th}
           before == {p \in Pairs(f, t) : p[1] = th}
           after  == {p \in Pairs(g, t) : p[1] = th}
<1>1. g \in [Thread -> Seq(Task)] /\ g[th] = s
  OBVIOUS
<1>2. IsFiniteSet(before) /\ Cardinality(before) = Occurrences(f[th], t)
  BY PairsOfThread
<1>3. IsFiniteSet(after) /\ Cardinality(after) = Occurrences(s, t)
  <2> HIDE DEF g
  <2>1. Len(g[th]) <= MAX_PARALLEL_TRANSFERS
    BY <1>1
  <2>2. IsFiniteSet(after) /\ Cardinality(after) = Occurrences(g[th], t)
    BY <1>1, <2>1, PairsOfThread
  <2>3. QED BY <1>1, <2>2
<1>4. IsFiniteSet(rest)
  <2>1. rest \in SUBSET Pairs(f, t)
    OBVIOUS
  <2>2. QED BY <2>1, PairsFinite, FS_Subset, Zenon
<1>5. Pairs(f, t) = rest \cup before /\ rest \cap before = {}
  BY DEF Pairs
<1>6. Pairs(g, t) = rest \cup after /\ rest \cap after = {}
  <2>1. \A p \in Thread \X (1 .. MAX_PARALLEL_TRANSFERS) : p[1] # th => g[p[1]] = f[p[1]]
    OBVIOUS
  <2> HIDE DEF g
  <2>2. QED BY <2>1 DEF Pairs
<1> HIDE DEF rest, before, after, g
<1>7. /\ Cardinality(rest \cup before) = Cardinality(rest) + Cardinality(before)
      /\ Cardinality(rest \cup after) = Cardinality(rest) + Cardinality(after)
  BY <1>2, <1>3, <1>4, <1>5, <1>6, DisjointUnion
<1>8. /\ Cardinality(rest) \in Nat
      /\ Handed(g, t) = Cardinality(rest) + Occurrences(s, t)
      /\ Handed(f, t) = Cardinality(rest) + Occurrences(f[th], t)
  BY <1>2, <1>3, <1>4, <1>5, <1>6, <1>7, FS_CardinalityType DEF Handed
<1>9. Occurrences(f[th], t) \in Nat /\ Occurrences(s, t) \in Nat
  BY <1>2, <1>3, FS_CardinalityType
<1>10. QED BY <1>8, <1>9 DEF g
-----------------------------------------------------------------------------
(* A set of workers that one of them enters or leaves.                     *)
LEMMA WorkerStep ==
  ASSUME NEW A \in SUBSET Worker, NEW B \in SUBSET Worker, NEW w \in Worker,
         A \ {w} = B \ {w}
  PROVE  /\ IsFiniteSet(A) /\ Cardinality(A) \in Nat
         /\ IsFiniteSet(B) /\ Cardinality(B) \in Nat
         /\ (w \in A <=> w \in B) => Cardinality(B) = Cardinality(A)
         /\ w \notin A /\ w \in B => Cardinality(B) = Cardinality(A) + 1
         /\ w \in A /\ w \notin B => Cardinality(A) = Cardinality(B) + 1
<1>1. IsFiniteSet(Worker)
  BY ConstantsAssumption DEF ConstantsAssumption
<1>2. IsFiniteSet(A) /\ IsFiniteSet(B)
  BY <1>1, FS_Subset
<1>3. Cardinality(A) \in Nat /\ Cardinality(B) \in Nat
  BY <1>2, FS_CardinalityType
<1>4. (w \in A <=> w \in B) => A = B
  OBVIOUS
<1>5. ASSUME w \notin A, w \in B PROVE Cardinality(B) = Cardinality(A) + 1
  <2>1. B = A \cup {w}
    BY <1>5
  <2>2. QED BY <1>2, <1>5, <2>1, FS_AddElement
<1>6. ASSUME w \in A, w \notin B PROVE Cardinality(A) = Cardinality(B) + 1
  <2>1. A = B \cup {w}
    BY <1>6
  <2>2. QED BY <1>2, <1>6, <2>1, FS_AddElement
<1>7. QED BY <1>2, <1>3, <1>4, <1>5, <1>6

-----------------------------------------------------------------------------
(* Where a task is.  A task is asked for (an intent waits), listed (queue), *)
(* handed to a thread that fills the slots, pooled, or live (a worker works *)
(* on it and has not reported yet); its run is over when it has reported    *)
(* its end, and back when it has put itself on the list again, and it has   *)
(* not left activeTransfers yet.                                            *)
Before == Running \ {"release", "remove"}
Live(t) == {w \in Worker : pc[w] \in Before /\ cur[w] = t}
Over(t) == {w \in Worker : pc[w] \in {"release", "remove"} /\ ~requeued[w] /\ cur[w] = t}
Back(t) == {w \in Worker : requeued[w] /\ cur[w] = t}
Lives(t) == Cardinality(Live(t))
Overs(t) == Cardinality(Over(t))
Backs(t) == Cardinality(Back(t))
Asked(t) == Occurrences(inbox, [kind |-> "enqueue", task |-> t])
Sent(t) == IF t \in sent THEN 1 ELSE 0
In(w, S) == IF w \in S THEN 1 ELSE 0

Tokens(t) == Asked(t) + Occurrences(queue, t) + Occurrences(pool, t) + Handed(toStart, t)
               + Lives(t) + endings[t]

(* A task that was sent is in one of those places, once, or it has ended;   *)
(* only the shutdown of the executor loses it.  It stands in activeTransfers *)
(* once for every run that has not left it and once for being on its way.   *)
Entry(t) ==
  /\ Tokens(t) <= Sent(t)
  /\ ~shutdown => Tokens(t) = Sent(t)
  /\ Overs(t) <= endings[t]
  /\ Occurrences(active, t) = Overs(t) + Backs(t)
       + (IF t \in sent /\ Asked(t) = 0 /\ Occurrences(queue, t) = 0 /\ endings[t] = 0
          THEN 1 ELSE 0)
  /\ Asked(t) > 0 \/ t \notin sent => Backs(t) = 0
Ledger == \A t \in Task : Entry(t)

(* A list of started tasks lives from the critical section that filled the  *)
(* slots to their dispatch, and only a run on its way out is requeued.      *)
Placed ==
  /\ \A th \in Thread : Len(toStart[th]) <= MAX_PARALLEL_TRANSFERS
  /\ \A th \in Thread : toStart[th] # <<>> => pc[th] \in {"notify", "peek", "dispatch"}
  /\ \A w \in Worker : requeued[w] => pc[w] \in {"release", "remove"}

(* The numbers are natural numbers.                                        *)
LEMMA CountsType ==
  ASSUME TypeInv, NEW t \in Task
  PROVE  /\ Asked(t) \in Nat /\ Occurrences(queue, t) \in Nat /\ Occurrences(pool, t) \in Nat
         /\ Handed(toStart, t) \in Nat /\ Occurrences(active, t) \in Nat
         /\ Lives(t) \in Nat /\ Overs(t) \in Nat /\ Backs(t) \in Nat
         /\ endings[t] \in Nat
<1>1. /\ inbox \in Seq(Message) /\ queue \in Seq(Task) /\ pool \in Seq(Task)
      /\ active \in Seq(Task) /\ endings \in [Task -> Nat]
  BY DEF TypeInv, TypeOK, ListsOK, ServiceOK, TasksOK
<1>2. /\ Asked(t) \in Nat /\ Occurrences(queue, t) \in Nat /\ Occurrences(pool, t) \in Nat
      /\ Occurrences(active, t) \in Nat
  BY <1>1, OccurrencesType, Zenon DEF Asked
<1>3. Handed(toStart, t) \in Nat
  BY PairsFinite
<1>4. IsFiniteSet(Worker)
  BY ConstantsAssumption DEF ConstantsAssumption
<1>5. Live(t) \in SUBSET Worker /\ Over(t) \in SUBSET Worker /\ Back(t) \in SUBSET Worker
  BY DEF Live, Over, Back
<1>6. Lives(t) \in Nat /\ Overs(t) \in Nat /\ Backs(t) \in Nat
  BY <1>4, <1>5, FS_Subset, FS_CardinalityType, Zenon DEF Lives, Overs, Backs
<1>7. QED BY <1>1, <1>2, <1>3, <1>6

(* One worker moves: the counts of workers change by that worker.          *)
LEMMA WorkerCounts ==
  ASSUME NEW w \in Worker, NEW t \in Task,
         \A v \in Worker \ {w} : pc'[v] = pc[v] /\ cur'[v] = cur[v] /\ requeued'[v] = requeued[v]
  PROVE  /\ Lives(t)' + In(w, Live(t)) = Lives(t) + In(w, Live(t)')
         /\ Overs(t)' + In(w, Over(t)) = Overs(t) + In(w, Over(t)')
         /\ Backs(t)' + In(w, Back(t)) = Backs(t) + In(w, Back(t)')
<1>1. /\ Live(t) \in SUBSET Worker /\ Live(t)' \in SUBSET Worker
      /\ Live(t) \ {w} = Live(t)' \ {w}
  BY DEF Live
<1>2. /\ Over(t) \in SUBSET Worker /\ Over(t)' \in SUBSET Worker
      /\ Over(t) \ {w} = Over(t)' \ {w}
  BY DEF Over
<1>3. /\ Back(t) \in SUBSET Worker /\ Back(t)' \in SUBSET Worker
      /\ Back(t) \ {w} = Back(t)' \ {w}
  BY DEF Back
<1>4. ASSUME NEW A \in SUBSET Worker, NEW B \in SUBSET Worker, A \ {w} = B \ {w}
      PROVE  Cardinality(B) + In(w, A) = Cardinality(A) + In(w, B)
  BY <1>4, WorkerStep DEF In
<1>5. Lives(t)' + In(w, Live(t)) = Lives(t) + In(w, Live(t)')
  BY <1>1, <1>4, Zenon DEF Lives
<1>6. Overs(t)' + In(w, Over(t)) = Overs(t) + In(w, Over(t)')
  BY <1>2, <1>4, Zenon DEF Overs
<1>7. Backs(t)' + In(w, Back(t)) = Backs(t) + In(w, Back(t)')
  BY <1>3, <1>4, Zenon DEF Backs
<1>8. QED BY <1>5, <1>6, <1>7

(* No worker moves.                                                        *)
LEMMA SameWorkers ==
  ASSUME NEW t \in Task,
         \A v \in Worker : pc'[v] = pc[v] /\ cur'[v] = cur[v] /\ requeued'[v] = requeued[v]
  PROVE  Lives(t)' = Lives(t) /\ Overs(t)' = Overs(t) /\ Backs(t)' = Backs(t)
<1>1. Live(t)' = Live(t) /\ Over(t)' = Over(t) /\ Back(t)' = Back(t)
  BY DEF Live, Over, Back
<1>2. QED BY <1>1 DEF Lives, Overs, Backs

(* A worker that moves between places before its report, or between places  *)
(* where it has no task, changes none of them.                              *)
LEMMA QuietWorker ==
  ASSUME NEW w \in Worker, NEW t \in Task, ThreadsOK, Placed,
         \A v \in Worker \ {w} : pc'[v] = pc[v],
         UNCHANGED <<cur, requeued>>,
         \/ pc[w] \in Before /\ pc'[w] \in Before
         \/ pc[w] \notin Running /\ pc'[w] \notin Running
         \/ pc[w] \in {"release", "remove"} /\ pc'[w] \in {"release", "remove"}
  PROVE  Lives(t)' = Lives(t) /\ Overs(t)' = Overs(t) /\ Backs(t)' = Backs(t)
<1>1. Live(t)' = Live(t)
  BY DEF Live, Before
<1>2. Over(t)' = Over(t)
  BY DEF Over, Before, Running
<1>3. Back(t)' = Back(t)
  BY DEF Back
<1>4. QED BY <1>1, <1>2, <1>3 DEF Lives, Overs, Backs

(* Fill takes a prefix of the list, or finds nothing left.                  *)
LEMMA FillSplits ==
  ASSUME ListsOK, SlotsAndPrimary, NEW th \in Thread, Fill(th)
  PROVE  \/ /\ active = <<>> /\ queue = <<>>
            /\ UNCHANGED <<queue, active, toStart>>
            /\ pc' = [pc EXCEPT ![th] = "idle"]
            /\ inbox' = inbox \/ inbox' = Append(inbox, [kind |-> "destroy", task |-> NoTask])
         \/ \E next \in Seq(Task) :
              /\ queue' \in Seq(Task) /\ queue = next \o queue'
              /\ next = SubSeq(queue, 1, Len(next)) /\ Len(next) \in 0 .. Len(queue)
              /\ queue' = SubSeq(queue, Len(next) + 1, Len(queue))
              /\ active' = active \o next
              /\ Len(next) <= MAX_PARALLEL_TRANSFERS
              /\ toStart' = [toStart EXCEPT ![th] = next]
              /\ inbox' = inbox
              /\ \E p \in {"notify", "peek"} : pc' = [pc EXCEPT ![th] = p]
<1>1. CASE NothingLeft
  BY <1>1 DEF Fill, NothingLeft, StopSelf
<1>2. CASE ~NothingLeft
  <2> DEFINE room  == MAX_PARALLEL_TRANSFERS - Len(active)
             taken == IF Len(queue) < room THEN Len(queue) ELSE room
             next  == SubSeq(queue, 1, taken)
             left  == SubSeq(queue, taken + 1, Len(queue))
  <2>1. /\ queue \in Seq(Task) /\ active \in Seq(Task)
        /\ room \in Nat /\ taken \in 0 .. Len(queue) /\ taken <= room
        /\ MAX_PARALLEL_TRANSFERS \in Nat
    BY ConstantsAssumption DEF ListsOK, SlotsAndPrimary, ConstantsAssumption
  <2>2. /\ next \in Seq(Task) /\ Len(next) = taken /\ left \in Seq(Task)
    BY <2>1, SplitFacts
  <2>3. /\ queue' = left
        /\ active' = active \o next
        /\ toStart' = [toStart EXCEPT ![th] = next]
        /\ inbox' = inbox
        /\ pc' = [pc EXCEPT ![th] = "notify"] \/ pc' = [pc EXCEPT ![th] = "peek"]
    BY <1>2 DEF Fill
  <2>4. /\ Len(next) <= MAX_PARALLEL_TRANSFERS /\ Len(next) \in 0 .. Len(queue)
        /\ next = SubSeq(queue, 1, Len(next)) /\ left = SubSeq(queue, Len(next) + 1, Len(queue))
    <3>1. Len(next) <= MAX_PARALLEL_TRANSFERS /\ Len(next) \in 0 .. Len(queue)
      <4>1. /\ Len(active) \in Nat /\ Len(queue) \in Nat /\ room <= MAX_PARALLEL_TRANSFERS
        BY <2>1
      <4> HIDE DEF next, left, taken, room
      <4>2. QED BY <2>1, <2>2, <4>1
    <3>2. next = SubSeq(queue, 1, taken) /\ left = SubSeq(queue, taken + 1, Len(queue))
      OBVIOUS
    <3> HIDE DEF next, left, taken, room
    <3>3. QED BY <2>2, <3>1, <3>2, Zenon
  <2>5. next \o left = queue
    <3>1. 1 \in 1 .. Len(queue) + 1 /\ taken \in 1 - 1 .. Len(queue)
            /\ Len(queue) \in taken .. Len(queue)
      BY <2>1
    <3>2. next \o left = SubSeq(queue, 1, Len(queue))
      BY <2>1, <3>1, ConcatAdjacentSubSeq, Zenon
    <3>3. QED BY <2>1, <3>2, SubSeqFull, Zenon
  <2> HIDE DEF next, left, taken, room
  <2>6. QED BY <2>2, <2>3, <2>4, <2>5
<1>3. QED BY <1>1, <1>2

LEMMA PlacedNext == TypeInv /\ Placed /\ [Next]_vars => Placed'
<1> SUFFICES ASSUME TypeInv, Placed, [Next]_vars PROVE Placed'
  OBVIOUS
<1>1. /\ ThreadsOK /\ ListsOK /\ SlotsAndPrimary
      /\ Main \notin Worker /\ Main \in Thread /\ Worker \subseteq Thread
      /\ MAX_PARALLEL_TRANSFERS \in Nat
  BY ConstantsAssumption DEF TypeInv, TypeOK, Thread, ConstantsAssumption
<1> USE DEF taskVars, localVars, listVars, uiVars, serviceVars, worldVars, historyVars
<1>2. CASE Terminals \/ User \/ OnStop \/ OnDestroy
  BY <1>1, <1>2 DEF Placed, Terminals, User, OnStop, OnDestroy, OpenTerminal, CloseTerminal,
                    EnqueueTransfer, SendControl
<1>3. CASE OnEnqueue
  BY <1>1, <1>3 DEF Placed, OnEnqueue, Receive, ThreadsOK
<1>4. CASE OnCancel
  BY <1>1, <1>4 DEF Placed, OnCancel, Receive, ThreadsOK
<1>5. CASE RequestCancel
  BY <1>1, <1>5 DEF Placed, RequestCancel, ThreadsOK
<1>6. ASSUME NEW th \in Thread, Fill(th) PROVE Placed'
  <2>1. requeued' = requeued /\ pc[th] = "fill"
    BY <1>6 DEF Fill
  <2>2. CASE /\ UNCHANGED <<queue, active, toStart>>
             /\ pc' = [pc EXCEPT ![th] = "idle"]
    BY <1>1, <2>1, <2>2 DEF Placed, ThreadsOK
  <2>3. ASSUME NEW next \in Seq(Task), Len(next) <= MAX_PARALLEL_TRANSFERS,
               toStart' = [toStart EXCEPT ![th] = next],
               \E p \in {"notify", "peek"} : pc' = [pc EXCEPT ![th] = p]
        PROVE  Placed'
    BY <1>1, <2>1, <2>3 DEF Placed, ThreadsOK
  <2>4. QED BY <1>1, <1>6, <2>2, <2>3, FillSplits
<1>7. ASSUME NEW th \in Thread, Peek(th) \/ Notify(th) PROVE Placed'
  BY <1>1, <1>7 DEF Placed, Peek, Notify, ThreadsOK
<1>8. ASSUME NEW th \in Thread, Dispatch(th) PROVE Placed'
  <2>1. toStart[th] \in Seq(Task) /\ requeued' = requeued
    BY <1>1, <1>8 DEF ThreadsOK, Dispatch
  <2>2. toStart[th] # <<>> => /\ Tail(toStart[th]) \in Seq(Task)
                              /\ Len(Tail(toStart[th])) = Len(toStart[th]) - 1
                              /\ Len(toStart[th]) \in Nat
    BY <2>1
  <2>3. CASE toStart' = toStart
    BY <1>1, <1>8, <2>1, <2>3 DEF Placed, Dispatch, ThreadsOK
  <2>4. CASE /\ toStart[th] # <<>> /\ pc' = pc
             /\ toStart' = [toStart EXCEPT ![th] = Tail(@)]
    <3>1. /\ toStart'[th] = Tail(toStart[th])
          /\ \A u \in Thread \ {th} : toStart'[u] = toStart[u]
      BY <1>1, <2>4 DEF ThreadsOK
    <3>2. Len(Tail(toStart[th])) <= MAX_PARALLEL_TRANSFERS
      BY <1>1, <2>2, <2>4 DEF Placed
    <3>3. QED BY <2>1, <2>4, <3>1, <3>2, Zenon DEF Placed
  <2>5. QED BY <1>8, <2>3, <2>4 DEF Dispatch
<1>9. ASSUME NEW w \in Worker, \/ Take(w) \/ Begin(w) \/ Connect(w) PROVE Placed'
  BY <1>1, <1>9 DEF Placed, Take, Begin, Connect, ThreadsOK, Goto
<1>10. ASSUME NEW w \in Worker, Claim(w) \/ ConnectFresh(w) \/ Prepare(w) PROVE Placed'
  BY <1>1, <1>10, ZenonT(60) DEF Placed, Claim, ConnectFresh, Prepare, ThreadsOK, Goto
<1>11. ASSUME NEW w \in Worker, Progress(w) \/ EndMoving(w) \/ Close(w) PROVE Placed'
  BY <1>1, <1>11, ZenonT(60) DEF Placed, Progress, EndMoving, Close, ThreadsOK, Goto
<1>12. ASSUME NEW w \in Worker, Report(w) \/ Requeue(w) \/ ReleaseSharedHandle(w) PROVE Placed'
  BY <1>1, <1>12 DEF Placed, Report, Requeue, ReleaseSharedHandle, ThreadsOK, Goto
<1>13. ASSUME NEW w \in Worker, LeaveActive(w) PROVE Placed'
  <2>1. \E p \in {"announce", "fill", "idle"} : pc' = [pc EXCEPT ![w] = p]
    BY <1>13 DEF LeaveActive, AfterLeaving, Goto
  <2>2. /\ pc[w] = "remove" /\ toStart' = toStart
        /\ requeued' = [requeued EXCEPT ![w] = FALSE]
    BY <1>13 DEF LeaveActive
  <2>3. QED BY <1>1, <2>1, <2>2 DEF Placed, ThreadsOK
<1>14. CASE UNCHANGED vars
  BY <1>1, <1>14 DEF Placed, vars
<1>15. QED BY <1>2, <1>3, <1>4, <1>5, <1>6, <1>7, <1>8, <1>9, <1>10, <1>11, <1>12, <1>13, <1>14
  DEF Next, MainThread, RunTransferTask, ProcessNextTransfer, Thread

(* A thread without a task moves: no worker's count changes.                *)
LEMMA IdleThread ==
  ASSUME NEW th \in Thread, NEW t \in Task, NEW p \in Place \ Running, ThreadsOK, Placed,
         pc[th] \notin Running, pc' = [pc EXCEPT ![th] = p],
         \A v \in Worker : cur'[v] = cur[v], UNCHANGED requeued
  PROVE  Lives(t)' = Lives(t) /\ Overs(t)' = Overs(t) /\ Backs(t)' = Backs(t)
<1>1. \A v \in Worker : pc'[v] # pc[v] => pc[v] \notin Running /\ pc'[v] \notin Running
  BY DEF ThreadsOK, Thread
<1>2. Live(t)' = Live(t)
  BY <1>1 DEF Live, Before
<1>3. Over(t)' = Over(t)
  BY <1>1 DEF Over, Running
<1>4. Back(t)' = Back(t)
  BY DEF Back
<1>5. QED BY <1>2, <1>3, <1>4 DEF Lives, Overs, Backs

(* The intents that ask for a task, as the inbox is filled and emptied.     *)
LEMMA InboxCounts ==
  ASSUME TypeInv, NEW t \in Task
  PROVE  LET n(s) == Occurrences(s, [kind |-> "enqueue", task |-> t])
             control == {[kind |-> k, task |-> NoTask] : k \in {"cancel", "stop", "destroy"}}
         IN  /\ \A u \in Task :
                  n(Append(inbox, [kind |-> "enqueue", task |-> u])) = Asked(t) + Same(u, t)
             /\ \A m \in control : n(Append(inbox, m)) = Asked(t)
             /\ inbox # <<>> =>
                  /\ Head(inbox).kind # "enqueue" => n(Tail(inbox)) = Asked(t)
                  /\ Head(inbox).kind = "enqueue" =>
                       /\ Head(inbox).task \in Task
                       /\ Asked(t) = n(Tail(inbox)) + Same(Head(inbox).task, t)
                  /\ \A m \in control : n(Append(Tail(inbox), m)) = n(Tail(inbox))
<1> DEFINE e(u) == [kind |-> "enqueue", task |-> u]
           control == {[kind |-> k, task |-> NoTask] : k \in {"cancel", "stop", "destroy"}}
<1>1. inbox \in Seq(Message) /\ NoTask \notin Task
  BY ConstantsAssumption DEF TypeInv, TypeOK, ServiceOK, ConstantsAssumption
<1>2. /\ \A u \in Task : e(u) \in Message /\ Same(e(u), e(t)) = Same(u, t)
      /\ \A m \in control : m \in Message /\ Same(m, e(t)) = 0
      /\ \A m \in Message :
           /\ m.kind # "enqueue" => Same(m, e(t)) = 0
           /\ m.kind = "enqueue" => m.task \in Task /\ Same(m, e(t)) = Same(m.task, t)
  BY <1>1 DEF Message, Same
<1> HIDE DEF e, control
<1>3. ASSUME NEW s \in Seq(Message), NEW m \in Message
      PROVE  Occurrences(Append(s, m), e(t)) = Occurrences(s, e(t)) + Same(m, e(t))
  BY OccurrencesPut, Zenon
<1>4. ASSUME NEW s \in Seq(Message) PROVE Occurrences(s, e(t)) \in Nat
  BY OccurrencesType, Zenon
<1>5. inbox # <<>> => Head(inbox) \in Message /\ Tail(inbox) \in Seq(Message)
  BY <1>1
<1>6. inbox # <<>> =>
        Occurrences(inbox, e(t)) = Occurrences(Tail(inbox), e(t)) + Same(Head(inbox), e(t))
  BY <1>1, OccurrencesSplit, Zenon
<1>7. Asked(t) = Occurrences(inbox, e(t))
  BY DEF Asked, e
<1>8. \A u \in Task : Occurrences(Append(inbox, e(u)), e(t)) = Asked(t) + Same(u, t)
  BY <1>1, <1>2, <1>3, <1>7
<1>9. \A m \in control : Occurrences(Append(inbox, m), e(t)) = Asked(t)
  BY <1>1, <1>2, <1>3, <1>4, <1>7
<1>10. ASSUME inbox # <<>>
       PROVE  /\ Head(inbox).kind # "enqueue" => Occurrences(Tail(inbox), e(t)) = Asked(t)
              /\ Head(inbox).kind = "enqueue" =>
                   /\ Head(inbox).task \in Task
                   /\ Asked(t) = Occurrences(Tail(inbox), e(t)) + Same(Head(inbox).task, t)
              /\ \A m \in control :
                   Occurrences(Append(Tail(inbox), m), e(t)) = Occurrences(Tail(inbox), e(t))
  <2>1. Head(inbox) \in Message /\ Tail(inbox) \in Seq(Message)
    BY <1>5, <1>10
  <2>2. /\ Head(inbox).kind # "enqueue" => Same(Head(inbox), e(t)) = 0
        /\ Head(inbox).kind = "enqueue" =>
             Head(inbox).task \in Task /\ Same(Head(inbox), e(t)) = Same(Head(inbox).task, t)
    BY <1>2, <2>1, Zenon
  <2>3. Asked(t) = Occurrences(Tail(inbox), e(t)) + Same(Head(inbox), e(t))
    BY <1>6, <1>7, <1>10
  <2>4. Occurrences(Tail(inbox), e(t)) \in Nat
    BY <1>4, <2>1
  <2>5. ASSUME NEW m \in control
        PROVE  Occurrences(Append(Tail(inbox), m), e(t)) = Occurrences(Tail(inbox), e(t))
    <3>1. m \in Message /\ Same(m, e(t)) = 0
      BY <1>2, Zenon
    <3>2. Occurrences(Append(Tail(inbox), m), e(t))
            = Occurrences(Tail(inbox), e(t)) + Same(m, e(t))
      BY <1>3, <2>1, <3>1, Zenon
    <3>3. QED BY <2>4, <3>1, <3>2
  <2>6. QED BY <2>2, <2>3, <2>4, <2>5
<1>11. QED BY <1>8, <1>9, <1>10 DEF e, control

(* A step that changes none of the counts.                                 *)
LEMMA EntrySame ==
  ASSUME NEW t \in Task, Entry(t), UNCHANGED <<sent, shutdown>>,
         Asked(t)' = Asked(t),
         Occurrences(queue', t) = Occurrences(queue, t),
         Occurrences(pool', t) = Occurrences(pool, t),
         Handed(toStart', t) = Handed(toStart, t),
         Lives(t)' = Lives(t), Overs(t)' = Overs(t), Backs(t)' = Backs(t),
         endings'[t] = endings[t],
         Occurrences(active', t) = Occurrences(active, t)
  PROVE  Entry(t)'
BY DEF Entry, Tokens, Sent

LEMMA LedgerInit == Init => Placed /\ Ledger
<1> SUFFICES ASSUME Init PROVE Placed /\ Ledger
  OBVIOUS
<1>1. Placed
  BY ConstantsAssumption DEF Init, Placed, ConstantsAssumption
<1>2. ASSUME NEW t \in Task PROVE Entry(t)
  <2>1. /\ Asked(t) = 0 /\ Occurrences(queue, t) = 0 /\ Occurrences(pool, t) = 0
        /\ Occurrences(active, t) = 0
    BY OccurrencesEmpty DEF Init, Asked
  <2>2. Pairs(toStart, t) = {}
    BY DEF Init, Pairs
  <2>3. Live(t) = {} /\ Over(t) = {} /\ Back(t) = {}
    BY DEF Init, Live, Over, Back, Before, Running, Thread
  <2>4. Handed(toStart, t) = 0 /\ Lives(t) = 0 /\ Overs(t) = 0 /\ Backs(t) = 0
    BY <2>2, <2>3, FS_EmptySet DEF Handed, Lives, Overs, Backs
  <2>5. t \notin sent /\ endings[t] = 0
    BY DEF Init
  <2>6. QED BY <2>1, <2>4, <2>5 DEF Entry, Tokens, Sent
<1>3. QED BY <1>1, <1>2 DEF Ledger

(* The user and the main thread: an intent is sent and received.            *)
LEMMA LedgerIntents ==
  ASSUME TypeInv, Placed, NEW t \in Task, Entry(t),
         \/ \E u \in Task : EnqueueTransfer(u)
         \/ \E kind \in {"cancel", "stop"} : SendControl(kind)
         \/ OnEnqueue \/ OnCancel \/ RequestCancel \/ OnStop \/ OnDestroy
  PROVE  Entry(t)'
<1>1. /\ ThreadsOK /\ ListsOK /\ ServiceOK /\ LocalsOK
      /\ Main \notin Worker /\ Main \in Thread /\ Worker \subseteq Thread
      /\ NoTask \notin Task
  BY ConstantsAssumption DEF TypeInv, TypeOK, Thread, ConstantsAssumption
<1> DEFINE e(u) == [kind |-> "enqueue", task |-> u]
           c(k) == [kind |-> k, task |-> NoTask]
<1>2. /\ \A u \in Task : Occurrences(Append(inbox, e(u)), e(t)) = Asked(t) + Same(u, t)
      /\ \A k \in {"cancel", "stop", "destroy"} : Occurrences(Append(inbox, c(k)), e(t)) = Asked(t)
      /\ inbox # <<>> =>
           /\ Head(inbox).kind # "enqueue" => Occurrences(Tail(inbox), e(t)) = Asked(t)
           /\ Head(inbox).kind = "enqueue" =>
                /\ Head(inbox).task \in Task
                /\ Asked(t) = Occurrences(Tail(inbox), e(t)) + Same(Head(inbox).task, t)
           /\ \A k \in {"cancel", "stop", "destroy"} :
                Occurrences(Append(Tail(inbox), c(k)), e(t)) = Occurrences(Tail(inbox), e(t))
  BY InboxCounts
<1>3. Asked(t)' = Occurrences(inbox', e(t))
  BY DEF Asked
<1> HIDE DEF e
<1>4. /\ Asked(t) \in Nat /\ Occurrences(queue, t) \in Nat /\ Occurrences(pool, t) \in Nat
      /\ Handed(toStart, t) \in Nat /\ Occurrences(active, t) \in Nat
      /\ Lives(t) \in Nat /\ Overs(t) \in Nat /\ Backs(t) \in Nat
      /\ endings[t] \in Nat
  BY CountsType
<1>5. \A u \in Task : (u = t => Same(u, t) = 1) /\ (u # t => Same(u, t) = 0)
  BY DEF Same
<1> USE DEF taskVars, localVars, listVars, uiVars, serviceVars, worldVars, historyVars
<1>6. ASSUME NEW u \in Task, EnqueueTransfer(u) PROVE Entry(t)'
  <2>1. /\ Asked(t)' = Asked(t) + Same(u, t) /\ u \notin sent /\ sent' = sent \cup {u}
        /\ UNCHANGED <<queue, pool, toStart, pc, cur, requeued, endings, active, shutdown>>
    BY <1>2, <1>3, <1>6 DEF EnqueueTransfer, Send, e
  <2>2. Lives(t)' = Lives(t) /\ Overs(t)' = Overs(t) /\ Backs(t)' = Backs(t)
    BY <2>1, SameWorkers
  <2>3. CASE u # t
    <3>1. Asked(t)' = Asked(t) /\ (t \in sent' <=> t \in sent)
      BY <1>4, <1>5, <2>1, <2>3
    <3>2. QED BY <2>1, <2>2, <3>1 DEF Entry, Tokens, Sent
  <2>4. CASE u = t
    <3>1. Asked(t)' = Asked(t) + 1 /\ t \in sent' /\ t \notin sent
      BY <1>5, <2>1, <2>4
    <3>2. QED BY <1>4, <2>1, <2>2, <3>1 DEF Entry, Tokens, Sent
  <2>5. QED BY <2>3, <2>4
<1>7. ASSUME NEW kind \in {"cancel", "stop"}, SendControl(kind) PROVE Entry(t)'
  <2>1. /\ Asked(t)' = Asked(t)
        /\ UNCHANGED <<sent, queue, pool, toStart, pc, cur, requeued, endings, active, shutdown>>
    BY <1>2, <1>3, <1>7 DEF SendControl, Send
  <2>2. QED BY <2>1, SameWorkers, EntrySame, Zenon
<1>8. CASE OnEnqueue
  <2> DEFINE u == Head(inbox).task
  <2>1. /\ inbox # <<>> /\ Head(inbox).kind = "enqueue" /\ inbox' = Tail(inbox)
        /\ queue' = Append(queue, u)
        /\ UNCHANGED <<sent, pool, toStart, cur, requeued, endings, active, shutdown>>
    BY <1>8 DEF OnEnqueue, Receive
  <2>2. u \in Task /\ Asked(t)' + Same(u, t) = Asked(t)
    <3>1. Asked(t) = Asked(t)' + Same(u, t) /\ u \in Task
      BY <1>2, <1>3, <2>1
    <3>2. QED BY <3>1
  <2>3. Occurrences(queue', t) = Occurrences(queue, t) + Same(u, t)
    <3>1. queue \in Seq(Task)
      BY <1>1 DEF ListsOK
    <3>2. Occurrences(Append(queue, u), t) = Occurrences(queue, t) + Same(u, t)
      BY <2>2, <3>1, OccurrencesPut, Zenon
    <3>3. QED BY <2>1, <3>2
  <2>4. \A w \in Worker : pc'[w] = pc[w]
    BY <1>1, <1>8 DEF OnEnqueue, ThreadsOK
  <2>5. Lives(t)' = Lives(t) /\ Overs(t)' = Overs(t) /\ Backs(t)' = Backs(t)
    BY <2>1, <2>4, SameWorkers
  <2>6. Asked(t)' \in Nat
    <3>1. inbox' \in Seq(Message)
      BY <1>1, <2>1 DEF ServiceOK
    <3>2. QED BY <1>3, <3>1, OccurrencesType, Zenon
  <2>10. /\ UNCHANGED <<sent, shutdown, endings>>
         /\ Occurrences(pool', t) = Occurrences(pool, t)
         /\ Handed(toStart', t) = Handed(toStart, t)
         /\ Occurrences(active', t) = Occurrences(active, t)
    BY <2>1
  <2> HIDE DEF u
  <2>7. CASE u = t
    <3>1. Same(u, t) = 1
      BY <2>7 DEF Same
    <3>2. QED BY <1>4, <2>10, <2>2, <2>3, <2>5, <2>6, <3>1 DEF Entry, Tokens, Sent
  <2>8. CASE u # t
    <3>1. Same(u, t) = 0
      BY <2>8 DEF Same
    <3>2. QED BY <1>4, <2>10, <2>2, <2>3, <2>5, <2>6, <3>1 DEF Entry, Tokens, Sent
  <2>9. QED BY <2>7, <2>8
<1>9. CASE OnCancel
  <2>1. /\ inbox # <<>> /\ Head(inbox).kind # "enqueue" /\ inbox' = Tail(inbox)
        /\ UNCHANGED <<sent, queue, pool, toStart, requeued, endings, active, shutdown>>
    BY <1>9 DEF OnCancel, Receive
  <2>2. Asked(t)' = Asked(t)
    BY <1>2, <1>3, <2>1
  <2>3. \A w \in Worker : pc'[w] = pc[w] /\ cur'[w] = cur[w]
    BY <1>1, <1>9 DEF OnCancel, ThreadsOK
  <2>4. QED BY <2>1, <2>2, <2>3, SameWorkers, EntrySame, Zenon
<1>10. CASE RequestCancel
  <2>1. UNCHANGED <<inbox, sent, queue, pool, toStart, requeued, endings, active, shutdown>>
    BY <1>10 DEF RequestCancel
  <2>2. \A w \in Worker : pc'[w] = pc[w] /\ cur'[w] = cur[w]
    BY <1>1, <1>10 DEF RequestCancel, ThreadsOK
  <2>3. Asked(t)' = Asked(t)
    BY <2>1 DEF Asked
  <2>4. QED BY <2>1, <2>2, <2>3, SameWorkers, EntrySame, Zenon
<1>11. CASE OnStop
  <2>1. /\ inbox # <<>> /\ Head(inbox).kind # "enqueue"
        /\ inbox' = Tail(inbox) \/ inbox' = Append(Tail(inbox), c("destroy"))
        /\ UNCHANGED <<pc, cur, sent, queue, pool, toStart, requeued, endings, active, shutdown>>
    BY <1>11 DEF OnStop, Receive, StopSelf
  <2>2. Asked(t)' = Asked(t)
    BY <1>2, <1>3, <2>1
  <2>3. QED BY <2>1, <2>2, SameWorkers, EntrySame, Zenon
<1>12. CASE OnDestroy
  <2>1. /\ inbox # <<>> /\ Head(inbox).kind # "enqueue" /\ inbox' = Tail(inbox)
        /\ pool' = <<>> /\ shutdown' = TRUE
        /\ UNCHANGED <<pc, cur, sent, queue, toStart, requeued, endings, active>>
    BY <1>12 DEF OnDestroy, Receive
  <2>2. Asked(t)' = Asked(t)
    BY <1>2, <1>3, <2>1
  <2>3. Lives(t)' = Lives(t) /\ Overs(t)' = Overs(t) /\ Backs(t)' = Backs(t)
    BY <2>1, SameWorkers
  <2>4. Occurrences(pool', t) = 0
    BY <2>1, OccurrencesEmpty
  <2>5. Sent(t)' = Sent(t) /\ endings'[t] = endings[t] /\ Handed(toStart', t) = Handed(toStart, t)
          /\ Occurrences(queue', t) = Occurrences(queue, t)
          /\ Occurrences(active', t) = Occurrences(active, t) /\ sent' = sent
    BY <2>1 DEF Sent
  <2>6. Tokens(t)' <= Tokens(t) /\ Tokens(t) <= Sent(t)
    BY <1>4, <2>2, <2>3, <2>4, <2>5 DEF Entry, Tokens
  <2>7. Tokens(t)' \in Nat /\ Tokens(t) \in Nat /\ Sent(t) \in Nat
    <3>1. Sent(t) \in Nat
      BY DEF Sent
    <3>2. QED BY <1>4, <2>2, <2>3, <2>4, <2>5, <3>1 DEF Tokens
  <2>8. Tokens(t)' <= Sent(t)'
    BY <2>5, <2>6, <2>7
  <2>9. QED BY <2>1, <2>2, <2>3, <2>5, <2>8 DEF Entry
<1>13. QED BY <1>6, <1>7, <1>8, <1>9, <1>10, <1>11, <1>12

(* processNextTransfer: tasks move from the list to the slots and to the    *)
(* thread that fills them, and from that thread to the executor.            *)
LEMMA LedgerProcess ==
  ASSUME TypeInv, Placed, NEW t \in Task, Entry(t), NEW th \in Thread, ProcessNextTransfer(th)
  PROVE  Entry(t)'
<1>1. /\ ThreadsOK /\ ListsOK /\ ServiceOK /\ LocalsOK /\ SlotsAndPrimary
      /\ MAX_PARALLEL_TRANSFERS \in Nat
      /\ toStart \in [Thread -> Seq(Task)] /\ toStart[th] \in Seq(Task)
      /\ Len(toStart[th]) <= MAX_PARALLEL_TRANSFERS
      /\ queue \in Seq(Task) /\ active \in Seq(Task) /\ pool \in Seq(Task)
  BY ConstantsAssumption
     DEF TypeInv, TypeOK, ConstantsAssumption, ListsOK, ServiceOK, ThreadsOK, Placed
<1>4. /\ Asked(t) \in Nat /\ Occurrences(queue, t) \in Nat /\ Occurrences(pool, t) \in Nat
      /\ Handed(toStart, t) \in Nat /\ Occurrences(active, t) \in Nat
      /\ Lives(t) \in Nat /\ Overs(t) \in Nat /\ Backs(t) \in Nat
      /\ endings[t] \in Nat
  BY CountsType
<1> USE DEF taskVars, localVars, listVars, uiVars, serviceVars, worldVars, historyVars
<1>5. CASE Fill(th)
  <2>1. /\ pc[th] \notin Running
        /\ UNCHANGED <<sent, pool, cur, requeued, endings, shutdown>>
    BY <1>5 DEF Fill, Running
  <2>2. CASE /\ UNCHANGED <<queue, active, toStart>>
             /\ pc' = [pc EXCEPT ![th] = "idle"]
             /\ inbox' = inbox \/ inbox' = Append(inbox, [kind |-> "destroy", task |-> NoTask])
    <3>1. Asked(t)' = Asked(t)
      BY <2>2, InboxCounts DEF Asked
    <3>2. "idle" \in Place \ Running
      BY DEF Place, Running
    <3>3. Lives(t)' = Lives(t) /\ Overs(t)' = Overs(t) /\ Backs(t)' = Backs(t)
      BY <1>1, <2>1, <2>2, <3>2, IdleThread
    <3>4. QED BY <2>1, <2>2, <3>1, <3>3, EntrySame, Zenon
  <2>3. ASSUME NEW next \in Seq(Task), queue' \in Seq(Task), queue = next \o queue',
               active' = active \o next, Len(next) <= MAX_PARALLEL_TRANSFERS,
               toStart' = [toStart EXCEPT ![th] = next], inbox' = inbox,
               \E p \in {"notify", "peek"} : pc' = [pc EXCEPT ![th] = p]
        PROVE  Entry(t)'
    <3>1. Asked(t)' = Asked(t)
      BY <2>3 DEF Asked
    <3>2. PICK p \in Place \ Running : pc' = [pc EXCEPT ![th] = p]
      BY <2>3 DEF Place, Running
    <3>3. Lives(t)' = Lives(t) /\ Overs(t)' = Overs(t) /\ Backs(t)' = Backs(t)
      BY <1>1, <2>1, <2>3, <3>2, IdleThread
    <3>4. Occurrences(queue, t) = Occurrences(next, t) + Occurrences(queue', t)
      <4>1. Occurrences(next \o queue', t) = Occurrences(next, t) + Occurrences(queue', t)
        <5>1. queue' \in Seq(Task)
          BY <2>3
        <5>2. QED BY <5>1, OccurrencesConcat, Zenon
      <4>2. QED BY <2>3, <4>1
    <3>5. Occurrences(active', t) = Occurrences(active, t) + Occurrences(next, t)
      <4>1. Occurrences(active \o next, t) = Occurrences(active, t) + Occurrences(next, t)
        BY <1>1, OccurrencesConcat, Zenon
      <4>2. QED BY <2>3, <4>1
    <3>6. Handed(toStart', t) = Handed(toStart, t) + Occurrences(next, t)
      <4>1. toStart[th] = <<>>
        BY <1>5 DEF Fill, Placed
      <4>2. Handed([toStart EXCEPT ![th] = next], t) + Occurrences(toStart[th], t)
              = Handed(toStart, t) + Occurrences(next, t)
        <5>1. /\ toStart \in [Thread -> Seq(Task)] /\ Len(toStart[th]) <= MAX_PARALLEL_TRANSFERS
              /\ Len(next) <= MAX_PARALLEL_TRANSFERS
          BY <1>1, <2>3
        <5>2. QED BY <5>1, HandedUpdate, ZenonT(60)
      <4>3. Occurrences(toStart[th], t) = 0
        BY <4>1, OccurrencesEmpty
      <4>4. Handed([toStart EXCEPT ![th] = next], t) \in Nat
        BY PairsFinite
      <4>5. QED BY <2>3, <4>2, <4>3, <4>4
    <3>7. Occurrences(next, t) \in Nat /\ Occurrences(queue', t) \in Nat
      BY <2>3, OccurrencesType, Zenon
    <3>8. /\ UNCHANGED <<sent, endings, shutdown>>
          /\ Occurrences(pool', t) = Occurrences(pool, t)
      BY <2>1
    <3>9. Tokens(t)' = Tokens(t)
      BY <1>4, <3>1, <3>3, <3>4, <3>6, <3>7, <3>8, SMTT(40) DEF Tokens
    <3>10. CASE Occurrences(next, t) = 0
      <4>1. /\ Occurrences(queue', t) = Occurrences(queue, t)
            /\ Occurrences(active', t) = Occurrences(active, t)
        BY <1>4, <3>4, <3>5, <3>7, <3>10
      <4>2. QED BY <3>1, <3>3, <3>8, <3>9, <4>1 DEF Entry, Sent
    <3>11. CASE Occurrences(next, t) # 0
      <4>1. /\ Occurrences(next, t) = 1 /\ Asked(t) = 0 /\ endings[t] = 0 /\ t \in sent
            /\ Occurrences(queue', t) = 0 /\ Occurrences(queue, t) = 1
        <5>1. /\ Asked(t) + Occurrences(queue, t) + Occurrences(pool, t) + Handed(toStart, t)
                   + Lives(t) + endings[t] <= Sent(t)
              /\ Sent(t) \in {0, 1} /\ (Sent(t) = 1 => t \in sent)
          BY DEF Entry, Tokens, Sent
        <5>2. Occurrences(queue, t) <= 1 /\ (Occurrences(queue, t) = 1 =>
                Sent(t) = 1 /\ Asked(t) = 0 /\ endings[t] = 0)
          <6>1. Occurrences(queue, t) <= 1
            BY <1>4, <5>1, SMTT(40)
          <6>2. ASSUME Occurrences(queue, t) = 1
                PROVE  Sent(t) = 1 /\ Asked(t) = 0 /\ endings[t] = 0
            BY <1>4, <5>1, <6>2, SMTT(40)
          <6>3. QED BY <6>1, <6>2
        <5>3. Occurrences(next, t) = 1 /\ Occurrences(queue', t) = 0 /\ Occurrences(queue, t) = 1
          BY <1>4, <3>4, <3>7, <3>11, <5>2
        <5>4. QED BY <5>1, <5>2, <5>3
      <4>2. Occurrences(active', t) = Overs(t) + Backs(t) + 1
        BY <1>4, <3>5, <4>1 DEF Entry
      <4>3. QED BY <3>1, <3>3, <3>8, <3>9, <4>1, <4>2 DEF Entry, Sent
    <3>12. QED BY <3>10, <3>11
  <2> DEFINE Nothing == /\ UNCHANGED <<queue, active, toStart>>
                        /\ pc' = [pc EXCEPT ![th] = "idle"]
                        /\ \/ inbox' = inbox
                           \/ inbox' = Append(inbox, [kind |-> "destroy", task |-> NoTask])
             Takes(next) == /\ queue' \in Seq(Task) /\ queue = next \o queue'
                            /\ active' = active \o next
                            /\ Len(next) <= MAX_PARALLEL_TRANSFERS
                            /\ toStart' = [toStart EXCEPT ![th] = next] /\ inbox' = inbox
                            /\ \E p \in {"notify", "peek"} : pc' = [pc EXCEPT ![th] = p]
  <2>4. Nothing \/ \E next \in Seq(Task) : Takes(next)
    BY <1>1, <1>5, FillSplits, Zenon
  <2>5. CASE Nothing
    BY <2>2, <2>5
  <2>6. ASSUME NEW next \in Seq(Task), Takes(next) PROVE Entry(t)'
    BY <2>3, <2>6
  <2> HIDE DEF Nothing, Takes
  <2>7. QED BY <2>4, <2>5, <2>6
<1>6. CASE Peek(th) \/ Notify(th)
  <2>1. /\ pc[th] \notin Running
        /\ \E p \in {"fill", "notify", "dispatch"} : pc' = [pc EXCEPT ![th] = p]
        /\ UNCHANGED <<inbox, sent, queue, active, toStart, pool, cur, requeued, endings, shutdown>>
    BY <1>6 DEF Peek, Notify, Running
  <2>2. PICK p \in Place \ Running : pc' = [pc EXCEPT ![th] = p]
    BY <2>1 DEF Place, Running
  <2>3. Lives(t)' = Lives(t) /\ Overs(t)' = Overs(t) /\ Backs(t)' = Backs(t)
    BY <1>1, <2>1, <2>2, IdleThread
  <2>4. Asked(t)' = Asked(t)
    BY <2>1 DEF Asked
  <2>5. QED BY <2>1, <2>3, <2>4, EntrySame, Zenon
<1>7. CASE Dispatch(th)
  <2>1. /\ pc[th] = "dispatch" /\ pc[th] \notin Running
        /\ UNCHANGED <<inbox, sent, queue, active, cur, requeued, endings, shutdown>>
    BY <1>7 DEF Dispatch, Running
  <2>2. Asked(t)' = Asked(t)
    BY <2>1 DEF Asked
  <2>3. CASE pc' = [pc EXCEPT ![th] = "idle"] /\ UNCHANGED <<pool, toStart>>
    <3>1. "idle" \in Place \ Running
      BY DEF Place, Running
    <3>2. Lives(t)' = Lives(t) /\ Overs(t)' = Overs(t) /\ Backs(t)' = Backs(t)
      BY <1>1, <2>1, <2>3, <3>1, IdleThread
    <3>3. QED BY <2>1, <2>2, <2>3, <3>2, EntrySame, Zenon
  <2>4. CASE UNCHANGED <<pc, pool, toStart>>
    <3>1. Lives(t)' = Lives(t) /\ Overs(t)' = Overs(t) /\ Backs(t)' = Backs(t)
      BY <2>1, <2>4, SameWorkers
    <3>2. QED BY <2>1, <2>2, <2>4, <3>1, EntrySame, Zenon
  <2>5. CASE /\ toStart[th] # <<>> /\ pc' = pc
             /\ pool' = Append(pool, Head(toStart[th]))
             /\ toStart' = [toStart EXCEPT ![th] = Tail(toStart[th])]
    <3>1. Lives(t)' = Lives(t) /\ Overs(t)' = Overs(t) /\ Backs(t)' = Backs(t)
      BY <2>1, <2>5, SameWorkers
    <3>2. /\ Head(toStart[th]) \in Task /\ Tail(toStart[th]) \in Seq(Task)
          /\ Len(Tail(toStart[th])) <= MAX_PARALLEL_TRANSFERS
      BY <1>1, <2>5
    <3>3. Occurrences(toStart[th], t) =
            Occurrences(Tail(toStart[th]), t) + Same(Head(toStart[th]), t)
      BY <1>1, <2>5, OccurrencesSplit, Zenon
    <3>4. Handed(toStart', t) + Occurrences(toStart[th], t)
            = Handed(toStart, t) + Occurrences(Tail(toStart[th]), t)
      BY <1>1, <2>5, <3>2, HandedUpdate, ZenonT(60)
    <3>5. Occurrences(pool', t) = Occurrences(pool, t) + Same(Head(toStart[th]), t)
      <4>1. Occurrences(Append(pool, Head(toStart[th])), t)
              = Occurrences(pool, t) + Same(Head(toStart[th]), t)
        BY <1>1, <3>2, OccurrencesPut, Zenon
      <4>2. QED BY <2>5, <4>1
    <3>6. /\ Occurrences(Tail(toStart[th]), t) \in Nat /\ Handed(toStart', t) \in Nat
          /\ Same(Head(toStart[th]), t) \in Nat
      BY <3>2, OccurrencesType, PairsFinite DEF Same
    <3>7. Occurrences(pool', t) + Handed(toStart', t) = Occurrences(pool, t) + Handed(toStart, t)
      BY <1>4, <3>3, <3>4, <3>5, <3>6
    <3>8. /\ UNCHANGED <<sent, endings, shutdown>>
          /\ Occurrences(queue', t) = Occurrences(queue, t)
          /\ Occurrences(active', t) = Occurrences(active, t)
          /\ Occurrences(pool', t) \in Nat
      BY <1>4, <2>1, <3>5, <3>6
    <3>9. QED BY <1>4, <2>2, <3>1, <3>6, <3>7, <3>8 DEF Entry, Tokens, Sent
  <2>6. QED BY <1>7, <2>3, <2>4, <2>5 DEF Dispatch
<1>8. QED BY <1>5, <1>6, <1>7 DEF ProcessNextTransfer

(* The steps of a run that move no task from one place to another.          *)
Midway(w) == \/ Begin(w) \/ Connect(w) \/ Claim(w) \/ ConnectFresh(w) \/ Prepare(w)
             \/ Progress(w) \/ EndMoving(w) \/ Close(w) \/ ReleaseSharedHandle(w)

LEMMA MidwaySteps ==
  ASSUME ThreadsOK, NEW w \in Worker, Midway(w)
  PROVE  /\ UNCHANGED <<inbox, sent, queue, pool, toStart, shutdown, endings, active, cur, requeued>>
         /\ \A v \in Thread \ {w} : pc'[v] = pc[v]
         /\ \/ pc[w] \in Before /\ pc'[w] \in Before
            \/ pc[w] \in {"release", "remove"} /\ pc'[w] \in {"release", "remove"}
<1> USE DEF taskVars, localVars, listVars, uiVars, serviceVars, worldVars, historyVars
<1>1. pc \in [Thread -> Place] /\ w \in Thread
  BY DEF ThreadsOK, Thread
<1>2. CASE Begin(w) \/ Connect(w) \/ Claim(w)
  BY <1>1, <1>2 DEF Begin, Connect, Claim, Goto, Before, Running
<1>3. CASE ConnectFresh(w) \/ Prepare(w) \/ Progress(w)
  BY <1>1, <1>3 DEF ConnectFresh, Prepare, Progress, Goto, Before, Running
<1>4. CASE EndMoving(w) \/ Close(w) \/ ReleaseSharedHandle(w)
  BY <1>1, <1>4 DEF EndMoving, Close, ReleaseSharedHandle, Goto, Before, Running
<1>5. QED BY <1>2, <1>3, <1>4 DEF Midway

(* The counts of workers are natural numbers.                              *)
LEMMA WorkerNumbers ==
  ASSUME NEW t \in Task
  PROVE  /\ Lives(t) \in Nat /\ Overs(t) \in Nat /\ Backs(t) \in Nat
         /\ Lives(t)' \in Nat /\ Overs(t)' \in Nat /\ Backs(t)' \in Nat
<1>1. IsFiniteSet(Worker)
  BY ConstantsAssumption DEF ConstantsAssumption
<1>2. /\ Live(t) \in SUBSET Worker /\ Over(t) \in SUBSET Worker /\ Back(t) \in SUBSET Worker
      /\ Live(t)' \in SUBSET Worker /\ Over(t)' \in SUBSET Worker /\ Back(t)' \in SUBSET Worker
  BY DEF Live, Over, Back
<1>3. \A A \in SUBSET Worker : Cardinality(A) \in Nat
  BY <1>1, FS_Subset, FS_CardinalityType, Zenon
<1>4. QED BY <1>2, <1>3, Zenon DEF Lives, Overs, Backs

(* Six natural numbers that add up to at most one, of which one is not zero. *)
LEMMA OnlyOne ==
  ASSUME NEW m \in Nat, NEW n \in Nat, NEW p \in Nat, NEW q \in Nat, NEW r \in Nat,
         NEW x \in Nat, NEW s \in {0, 1}, m + n + p + q + r + x <= s, r # 0
  PROVE  r = 1 /\ s = 1 /\ m = 0 /\ n = 0 /\ p = 0 /\ q = 0 /\ x = 0
OBVIOUS

(* A task that a worker works on is nowhere else and has not ended.         *)
LEMMA LiveIsAlone ==
  ASSUME TypeInv, NEW t \in Task, Entry(t), Lives(t) # 0
  PROVE  /\ t \in sent /\ Asked(t) = 0 /\ Occurrences(queue, t) = 0 /\ endings[t] = 0
         /\ Lives(t) = 1 /\ Occurrences(pool, t) = 0 /\ Handed(toStart, t) = 0
<1>1. /\ Asked(t) \in Nat /\ Occurrences(queue, t) \in Nat /\ Occurrences(pool, t) \in Nat
      /\ Handed(toStart, t) \in Nat /\ Lives(t) \in Nat /\ endings[t] \in Nat
  BY CountsType
<1>2. /\ Asked(t) + Occurrences(queue, t) + Occurrences(pool, t) + Handed(toStart, t)
           + Lives(t) + endings[t] <= Sent(t)
      /\ Sent(t) \in {0, 1} /\ (Sent(t) = 1 => t \in sent)
  BY DEF Entry, Tokens, Sent
<1>3. Lives(t) = 1 /\ Sent(t) = 1
  BY <1>1, <1>2
<1>4. Lives(t) = 1 /\ Sent(t) = 1 /\ Asked(t) = 0 /\ Occurrences(queue, t) = 0
        /\ Occurrences(pool, t) = 0 /\ Handed(toStart, t) = 0 /\ endings[t] = 0
  BY <1>1, <1>2, OnlyOne
<1>5. QED BY <1>2, <1>4

(* runTransferTask: a worker takes a task, reports, puts it back, leaves.   *)
LEMMA LedgerTransfer ==
  ASSUME TypeInv, Placed, NEW t \in Task, Entry(t), NEW w \in Worker,
         Midway(w) \/ Take(w) \/ Report(w) \/ Requeue(w) \/ LeaveActive(w)
  PROVE  Entry(t)'
<1>1. /\ ThreadsOK /\ pc \in [Thread -> Place] /\ w \in Thread
      /\ cur \in [Thread -> Task \cup {NoTask}] /\ requeued \in [Worker -> BOOLEAN]
      /\ queue \in Seq(Task) /\ active \in Seq(Task) /\ pool \in Seq(Task)
      /\ endings \in [Task -> Nat]
      /\ pc[w] \in Running => cur[w] \in Task
  BY DEF TypeInv, TypeOK, ListsOK, ServiceOK, ThreadsOK, TasksOK, Thread, LocalsOK
<1>4. /\ Asked(t) \in Nat /\ Occurrences(queue, t) \in Nat /\ Occurrences(pool, t) \in Nat
      /\ Handed(toStart, t) \in Nat /\ Occurrences(active, t) \in Nat
      /\ Lives(t) \in Nat /\ Overs(t) \in Nat /\ Backs(t) \in Nat
      /\ endings[t] \in Nat
  BY CountsType
<1> USE DEF taskVars, localVars, listVars, uiVars, serviceVars, worldVars, historyVars
<1>5. CASE Midway(w)
  <2>1. /\ UNCHANGED <<inbox, sent, queue, pool, toStart, shutdown, endings, active, cur, requeued>>
        /\ \A v \in Worker \ {w} : pc'[v] = pc[v]
        /\ \/ pc[w] \in Before /\ pc'[w] \in Before
           \/ pc[w] \in {"release", "remove"} /\ pc'[w] \in {"release", "remove"}
    BY <1>1, <1>5, MidwaySteps DEF Thread
  <2>2. Lives(t)' = Lives(t) /\ Overs(t)' = Overs(t) /\ Backs(t)' = Backs(t)
    BY <1>1, <2>1, QuietWorker
  <2>3. Asked(t)' = Asked(t)
    BY <2>1 DEF Asked
  <2>4. QED BY <2>1, <2>2, <2>3, EntrySame, Zenon
<1>6. CASE Take(w)
  <2>1. /\ pool # <<>> /\ pool' = Tail(pool) /\ pc[w] = "idle" /\ pc'[w] = "begin"
        /\ cur'[w] = Head(pool) /\ requeued'[w] = FALSE
        /\ \A v \in Worker \ {w} : pc'[v] = pc[v] /\ cur'[v] = cur[v] /\ requeued'[v] = requeued[v]
        /\ UNCHANGED <<inbox, sent, queue, toStart, shutdown, endings, active>>
    BY <1>1, <1>6 DEF Take, Goto, Thread
  <2>2. /\ Lives(t)' + In(w, Live(t)) = Lives(t) + In(w, Live(t)')
        /\ Overs(t)' + In(w, Over(t)) = Overs(t) + In(w, Over(t)')
        /\ Backs(t)' + In(w, Back(t)) = Backs(t) + In(w, Back(t)')
    BY <2>1, WorkerCounts
  <2>3. requeued[w] = FALSE
    BY <1>1, <2>1 DEF Placed
  <2>4. /\ In(w, Live(t)) = 0 /\ In(w, Live(t)') = Same(Head(pool), t)
        /\ In(w, Over(t)) = 0 /\ In(w, Over(t)') = 0
        /\ In(w, Back(t)) = 0 /\ In(w, Back(t)') = 0
    BY <2>1, <2>3 DEF In, Live, Over, Back, Before, Running, Same
  <2>5. Occurrences(pool, t) = Occurrences(pool', t) + Same(Head(pool), t)
    <3>1. Occurrences(pool, t) = Occurrences(Tail(pool), t) + Same(Head(pool), t)
      BY <1>1, <2>1, OccurrencesSplit, Zenon
    <3>2. QED BY <2>1, <3>1
  <2>6. Occurrences(pool', t) \in Nat /\ Same(Head(pool), t) \in Nat
    <3>1. pool' \in Seq(Task)
      BY <1>1, <2>1
    <3>2. QED BY <3>1, OccurrencesType, Zenon DEF Same
  <2>7. /\ Lives(t)' = Lives(t) + Same(Head(pool), t)
        /\ Overs(t)' = Overs(t) /\ Backs(t)' = Backs(t)
    <3>1. Lives(t)' \in Nat /\ Overs(t)' \in Nat /\ Backs(t)' \in Nat
      BY WorkerNumbers
    <3>2. QED BY <1>4, <2>2, <2>4, <2>6, <3>1
  <2>8. Tokens(t)' = Tokens(t)
    <3>1. /\ Asked(t)' = Asked(t) /\ Occurrences(queue', t) = Occurrences(queue, t)
          /\ Handed(toStart', t) = Handed(toStart, t) /\ endings'[t] = endings[t]
      BY <2>1 DEF Asked
    <3>2. QED BY <1>4, <2>5, <2>6, <2>7, <3>1 DEF Tokens
  <2>9. /\ Asked(t)' = Asked(t) /\ UNCHANGED <<sent, shutdown, queue, active, endings>>
    BY <2>1 DEF Asked
  <2>10. QED BY <2>7, <2>8, <2>9 DEF Entry, Sent
<1>7. CASE Report(w)
  <2> DEFINE u == cur[w]
             again == RetryAgain(w)
  <2>1. /\ pc[w] = "report" /\ pc'[w] = (IF again THEN "backoff" ELSE "release")
        /\ endings' = [endings EXCEPT ![u] = IF again THEN @ ELSE @ + 1]
        /\ UNCHANGED <<cur, requeued, inbox, sent, queue, pool, toStart, shutdown, active>>
        /\ \A v \in Worker \ {w} : pc'[v] = pc[v]
    BY <1>1, <1>7 DEF Report, Goto, Thread, Events
  <2>2. /\ Lives(t)' + In(w, Live(t)) = Lives(t) + In(w, Live(t)')
        /\ Overs(t)' + In(w, Over(t)) = Overs(t) + In(w, Over(t)')
        /\ Backs(t)' + In(w, Back(t)) = Backs(t) + In(w, Back(t)')
    BY <2>1, WorkerCounts
  <2>3. requeued[w] = FALSE /\ u \in Task
    BY <1>1, <2>1 DEF Placed, Running
  <2>4. /\ Asked(t)' = Asked(t) /\ UNCHANGED <<sent, shutdown, queue, active, pool, toStart>>
    BY <2>1 DEF Asked
  <2>5. Lives(t)' \in Nat /\ Overs(t)' \in Nat /\ Backs(t)' \in Nat
    BY WorkerNumbers
  <2>6. CASE again \/ u # t
    <3>1. /\ In(w, Live(t)') = In(w, Live(t)) /\ In(w, Over(t)') = In(w, Over(t))
          /\ In(w, Back(t)') = In(w, Back(t))
          /\ In(w, Live(t)) \in Nat /\ In(w, Over(t)) \in Nat /\ In(w, Back(t)) \in Nat
      BY <2>1, <2>3, <2>6 DEF In, Live, Over, Back, Before, Running
    <3>2. Lives(t)' = Lives(t) /\ Overs(t)' = Overs(t) /\ Backs(t)' = Backs(t)
      BY <1>4, <2>2, <2>5, <3>1
    <3>3. endings'[t] = endings[t]
      BY <1>1, <2>1, <2>3, <2>6
    <3>4. QED BY <2>4, <3>2, <3>3, EntrySame, Zenon
  <2>7. CASE ~again /\ u = t
    <3>1. /\ In(w, Live(t)) = 1 /\ In(w, Live(t)') = 0
          /\ In(w, Over(t)) = 0 /\ In(w, Over(t)') = 1
          /\ In(w, Back(t)) = 0 /\ In(w, Back(t)') = 0
      BY <2>1, <2>3, <2>7 DEF In, Live, Over, Back, Before, Running
    <3>2. Lives(t) = Lives(t)' + 1 /\ Overs(t)' = Overs(t) + 1 /\ Backs(t)' = Backs(t)
      BY <1>4, <2>2, <2>5, <3>1
    <3>3. endings'[t] = endings[t] + 1
      BY <1>1, <2>1, <2>3, <2>7
    <3>4. Tokens(t)' = Tokens(t)
      BY <1>4, <2>4, <2>5, <3>2, <3>3 DEF Tokens
    <3>5. t \in sent /\ Asked(t) = 0 /\ Occurrences(queue, t) = 0 /\ endings[t] = 0
      BY <1>4, <2>5, <3>2, LiveIsAlone
    <3>6. QED BY <1>4, <2>4, <3>2, <3>3, <3>4, <3>5 DEF Entry, Sent
  <2>8. QED BY <2>6, <2>7
<1>8. CASE Requeue(w)
  <2> DEFINE u == cur[w]
  <2>1. /\ pc[w] = "backoff" /\ pc'[w] = "release"
        /\ queue' = <<u>> \o queue /\ requeued'[w] = TRUE
        /\ UNCHANGED <<cur, inbox, sent, pool, toStart, shutdown, active, endings>>
        /\ \A v \in Worker \ {w} : pc'[v] = pc[v] /\ requeued'[v] = requeued[v]
    BY <1>1, <1>8 DEF Requeue, Goto, Thread
  <2>2. /\ Lives(t)' + In(w, Live(t)) = Lives(t) + In(w, Live(t)')
        /\ Overs(t)' + In(w, Over(t)) = Overs(t) + In(w, Over(t)')
        /\ Backs(t)' + In(w, Back(t)) = Backs(t) + In(w, Back(t)')
    BY <2>1, WorkerCounts
  <2>3. requeued[w] = FALSE /\ u \in Task
    BY <1>1, <2>1 DEF Placed, Running
  <2>4. /\ Asked(t)' = Asked(t) /\ UNCHANGED <<sent, shutdown, active, pool, toStart, endings>>
    BY <2>1 DEF Asked
  <2>5. Lives(t)' \in Nat /\ Overs(t)' \in Nat /\ Backs(t)' \in Nat
    BY WorkerNumbers
  <2>6. Occurrences(queue', t) = Occurrences(queue, t) + Same(u, t)
    <3>1. Occurrences(<<u>> \o queue, t) = Occurrences(queue, t) + Same(u, t)
      <4>1. queue \in Seq(Task) /\ cur[w] \in Task
        BY <1>1, <2>3
      <4>2. QED BY <4>1, OccurrencesPut, Zenon
    <3>2. QED BY <2>1, <3>1
  <2>7. CASE u # t
    <3>1. /\ In(w, Live(t)') = 0 /\ In(w, Live(t)) = 0 /\ In(w, Over(t)') = 0
          /\ In(w, Over(t)) = 0 /\ In(w, Back(t)') = 0 /\ In(w, Back(t)) = 0
      BY <2>1, <2>7 DEF In, Live, Over, Back
    <3>2. Lives(t)' = Lives(t) /\ Overs(t)' = Overs(t) /\ Backs(t)' = Backs(t)
      BY <1>4, <2>2, <2>5, <3>1
    <3>3. Occurrences(queue', t) = Occurrences(queue, t)
      BY <1>4, <2>6, <2>7 DEF Same
    <3>4. QED BY <2>4, <3>2, <3>3, EntrySame, Zenon
  <2>8. CASE u = t
    <3>1. /\ In(w, Live(t)) = 1 /\ In(w, Live(t)') = 0
          /\ In(w, Over(t)) = 0 /\ In(w, Over(t)') = 0
          /\ In(w, Back(t)) = 0 /\ In(w, Back(t)') = 1
      BY <2>1, <2>3, <2>8 DEF In, Live, Over, Back, Before, Running
    <3>2. Lives(t) = Lives(t)' + 1 /\ Overs(t)' = Overs(t) /\ Backs(t)' = Backs(t) + 1
      BY <1>4, <2>2, <2>5, <3>1
    <3>3. Occurrences(queue', t) = Occurrences(queue, t) + 1
      BY <2>6, <2>8 DEF Same
    <3>4. Tokens(t)' = Tokens(t)
      BY <1>4, <2>4, <2>5, <3>2, <3>3 DEF Tokens
    <3>5. t \in sent /\ Asked(t) = 0 /\ Occurrences(queue, t) = 0 /\ endings[t] = 0
      BY <1>4, <2>5, <3>2, LiveIsAlone
    <3>6. QED BY <1>4, <2>4, <3>2, <3>3, <3>4, <3>5 DEF Entry, Sent
  <2>9. QED BY <2>7, <2>8
<1>9. CASE LeaveActive(w)
  <2> DEFINE u == cur[w]
  <2>1. /\ pc[w] = "remove" /\ pc'[w] \notin Running
        /\ active' = RemoveFirst(active, u) /\ requeued'[w] = FALSE
        /\ UNCHANGED <<queue, inbox, sent, pool, toStart, shutdown, endings>>
        /\ \A v \in Worker \ {w} : pc'[v] = pc[v] /\ cur'[v] = cur[v] /\ requeued'[v] = requeued[v]
    BY <1>1, <1>9 DEF LeaveActive, Goto, Thread, RemoveTask, AfterLeaving, Running
  <2>2. /\ Lives(t)' + In(w, Live(t)) = Lives(t) + In(w, Live(t)')
        /\ Overs(t)' + In(w, Over(t)) = Overs(t) + In(w, Over(t)')
        /\ Backs(t)' + In(w, Back(t)) = Backs(t) + In(w, Back(t)')
    BY <2>1, WorkerCounts
  <2>3. u \in Task
    BY <1>1, <2>1 DEF Running
  <2>4. /\ Asked(t)' = Asked(t) /\ UNCHANGED <<sent, shutdown, queue, pool, toStart, endings>>
    BY <2>1 DEF Asked
  <2>5. Lives(t)' \in Nat /\ Overs(t)' \in Nat /\ Backs(t)' \in Nat
    BY WorkerNumbers
  <2>6. /\ In(w, Live(t)) = 0 /\ In(w, Live(t)') = 0
        /\ In(w, Over(t)') = 0 /\ In(w, Back(t)') = 0
        /\ In(w, Over(t)) + In(w, Back(t)) = Same(u, t)
        /\ In(w, Over(t)) \in Nat /\ In(w, Back(t)) \in Nat
    BY <2>1 DEF In, Live, Over, Back, Before, Running, Same
  <2>7. Occurrences(active', t) + Same(u, t) = Occurrences(active, t)
    <3>1. CASE u # t /\ u \notin ToSet(active)
      <4>1. active' = active
        BY <1>1, <2>1, <3>1, RemoveFirstFacts
      <4>2. QED BY <1>4, <3>1, <4>1 DEF Same
    <3>2. CASE u \in ToSet(active)
      <4>1. Occurrences(RemoveFirst(active, u), t) + Same(u, t) = Occurrences(active, t)
        BY <1>1, <3>2, OccurrencesRemoved, Zenon
      <4>2. QED BY <2>1, <4>1
    <3>3. u = t => u \in ToSet(active)
      <4>1. SUFFICES ASSUME u = t PROVE t \in ToSet(active)
        OBVIOUS
      <4>2. Overs(t) + Backs(t) >= 1
        <5>1. Same(u, t) = 1
          BY <4>1 DEF Same
        <5>2. QED BY <1>4, <2>2, <2>5, <2>6, <5>1
      <4>3. Occurrences(active, t) # 0
        BY <1>4, <4>2 DEF Entry
      <4>4. QED BY <1>1, <4>3, OccurrencesType, Zenon
    <3>4. QED BY <3>1, <3>2, <3>3
  <2>8. /\ Lives(t)' = Lives(t)
        /\ Overs(t)' + Backs(t)' + Same(u, t) = Overs(t) + Backs(t)
        /\ Overs(t)' <= Overs(t) /\ Backs(t)' <= Backs(t)
    <3>1. Same(u, t) \in Nat
      BY DEF Same
    <3>2. QED BY <1>4, <2>2, <2>5, <2>6, <3>1
  <2>9. Occurrences(active', t) \in Nat
    <3>1. active' \in Seq(Task)
      BY <1>1, <2>1, RemoveFirstFacts
    <3>2. QED BY <3>1, OccurrencesType, Zenon
  <2>10. Tokens(t)' = Tokens(t)
    BY <2>4, <2>8 DEF Tokens
  <2>11. /\ Overs(t)' <= endings[t] /\ Occurrences(active', t) - Overs(t)' - Backs(t)'
                                       = Occurrences(active, t) - Overs(t) - Backs(t)
         /\ Backs(t) = 0 => Backs(t)' = 0
    <3>1. Same(u, t) \in Nat
      BY DEF Same
    <3>2. Overs(t) <= endings[t]
      BY DEF Entry
    <3>3. QED BY <1>4, <2>5, <2>7, <2>8, <2>9, <3>1, <3>2
  <2> HIDE DEF u
  <2>12. QED BY <1>4, <2>4, <2>5, <2>9, <2>10, <2>11 DEF Entry, Sent
<1>10. QED BY <1>5, <1>6, <1>7, <1>8, <1>9

LedgerInv == TypeInv /\ Placed /\ Ledger

LEMMA LedgerNext == LedgerInv /\ [Next]_vars => LedgerInv'
<1> SUFFICES ASSUME LedgerInv, [Next]_vars PROVE LedgerInv'
  OBVIOUS
<1>1. TypeInv' /\ Placed'
  BY Inductive, PlacedNext DEF LedgerInv
<1>2. ASSUME NEW t \in Task PROVE Entry(t)'
  <2>1. TypeInv /\ Placed /\ Entry(t)
    BY DEF LedgerInv, Ledger
  <2>2. ASSUME UNCHANGED <<inbox, sent, queue, pool, toStart, shutdown, endings, active,
                           pc, cur, requeued>>
        PROVE  Entry(t)'
    <3>1. Asked(t)' = Asked(t)
      BY <2>2 DEF Asked
    <3>2. Lives(t)' = Lives(t) /\ Overs(t)' = Overs(t) /\ Backs(t)' = Backs(t)
      BY <2>2, SameWorkers
    <3>3. QED BY <2>1, <2>2, <3>1, <3>2, EntrySame, Zenon
  <2>3. CASE Terminals \/ UNCHANGED vars
    BY <2>2, <2>3 DEF Terminals, OpenTerminal, CloseTerminal, vars, taskVars, localVars,
                      listVars, uiVars, serviceVars, worldVars, historyVars
  <2>4. CASE \/ \E u \in Task : EnqueueTransfer(u)
             \/ \E kind \in {"cancel", "stop"} : SendControl(kind)
             \/ OnEnqueue \/ OnCancel \/ RequestCancel \/ OnStop \/ OnDestroy
    BY <2>1, <2>4, LedgerIntents
  <2>5. ASSUME NEW th \in Thread, ProcessNextTransfer(th) PROVE Entry(t)'
    BY <2>1, <2>5, LedgerProcess
  <2>6. ASSUME NEW w \in Worker, Midway(w) \/ Take(w) \/ Report(w) \/ Requeue(w) \/ LeaveActive(w)
        PROVE  Entry(t)'
    BY <2>1, <2>6, LedgerTransfer
  <2>7. Main \in Thread /\ Worker \subseteq Thread
    BY DEF Thread
  <2>8. CASE User
    BY <2>4, <2>8 DEF User
  <2>9. CASE MainThread
    BY <2>4, <2>5, <2>7, <2>9 DEF MainThread
  <2>10. ASSUME NEW w \in Worker, RunTransferTask(w) \/ Progress(w) PROVE Entry(t)'
    <3>1. \/ Midway(w) \/ Take(w) \/ Report(w) \/ Requeue(w) \/ LeaveActive(w)
          \/ ProcessNextTransfer(w)
      BY <2>10 DEF RunTransferTask, Midway
    <3>2. QED BY <2>5, <2>6, <2>7, <3>1
  <2>11. QED BY <2>3, <2>8, <2>9, <2>10 DEF Next
<1>3. QED BY <1>1, <1>2 DEF LedgerInv, Ledger

LEMMA LedgerInvariant == Spec => []LedgerInv
<1>1. Init => LedgerInv
  BY InitType, LedgerInit DEF LedgerInv
<1>2. Init /\ [][Next]_vars => []LedgerInv
  BY <1>1, LedgerNext, PTL
<1>3. QED BY <1>2, PTL DEF Spec, SafetySpec

(* The workers that are busy with a task, by how far they are.              *)
LEMMA BusyWorkers ==
  ASSUME TypeInv, Placed, NEW t \in Task
  PROVE  Cardinality({w \in Worker : pc[w] \in Running /\ cur[w] = t})
           = Lives(t) + Overs(t) + Backs(t)
<1>1. IsFiniteSet(Worker)
  BY ConstantsAssumption DEF ConstantsAssumption
<1>2. Live(t) \in SUBSET Worker /\ Over(t) \in SUBSET Worker /\ Back(t) \in SUBSET Worker
  BY DEF Live, Over, Back
<1>3. IsFiniteSet(Live(t)) /\ IsFiniteSet(Over(t)) /\ IsFiniteSet(Back(t))
  BY <1>1, <1>2, FS_Subset, Zenon
<1>4. requeued \in [Worker -> BOOLEAN] /\ \A w \in Worker : requeued[w] => pc[w] \in {"release", "remove"}
  BY DEF TypeInv, TypeOK, ThreadsOK, Placed
<1>5. {w \in Worker : pc[w] \in Running /\ cur[w] = t} = (Live(t) \cup Over(t)) \cup Back(t)
  BY <1>4 DEF Live, Over, Back, Before, Running
<1>6. Live(t) \cap Over(t) = {} /\ (Live(t) \cup Over(t)) \cap Back(t) = {}
  BY <1>4 DEF Live, Over, Back, Before
<1>7. /\ IsFiniteSet(Live(t) \cup Over(t))
      /\ Cardinality(Live(t) \cup Over(t)) = Lives(t) + Overs(t)
  BY <1>3, <1>6, DisjointUnion, Zenon DEF Lives, Overs
<1>8. Cardinality((Live(t) \cup Over(t)) \cup Back(t))
        = Cardinality(Live(t) \cup Over(t)) + Cardinality(Back(t))
  BY <1>3, <1>6, <1>7, DisjointUnion, Zenon
<1>9. QED BY <1>5, <1>7, <1>8 DEF Backs

(* A task that a worker is busy with stands in activeTransfers.             *)
LEMMA RunsHoldSlots ==
  ASSUME LedgerInv, NEW w \in Worker, pc[w] \in Running
  PROVE  cur[w] \in Task /\ cur[w] \in ToSet(active)
<1> DEFINE t == cur[w]
<1>1. t \in Task /\ active \in Seq(Task) /\ requeued \in [Worker -> BOOLEAN]
  BY DEF LedgerInv, TypeInv, TypeOK, LocalsOK, ListsOK, ThreadsOK
<1>2. w \in Live(t) \/ w \in Over(t) \/ w \in Back(t)
  BY <1>1 DEF Live, Over, Back, Before, Running
<1>3. IsFiniteSet(Worker)
  BY ConstantsAssumption DEF ConstantsAssumption
<1>4. Live(t) \in SUBSET Worker /\ Over(t) \in SUBSET Worker /\ Back(t) \in SUBSET Worker
  BY DEF Live, Over, Back
<1>5. \A A \in SUBSET Worker : IsFiniteSet(A) /\ (A # {} => Cardinality(A) # 0)
  BY <1>3, FS_Subset, FS_EmptySet, Zenon
<1>6. Lives(t) # 0 \/ Overs(t) # 0 \/ Backs(t) # 0
  BY <1>2, <1>4, <1>5 DEF Lives, Overs, Backs
<1>7. TypeInv /\ Entry(t)
  BY <1>1 DEF LedgerInv, Ledger
<1>8. /\ Overs(t) \in Nat /\ Backs(t) \in Nat /\ Lives(t) \in Nat
      /\ Occurrences(active, t) \in Nat
  BY <1>1, <1>7, CountsType
<1> HIDE DEF t
<1>9. Occurrences(active, t) # 0
  <2>1. CASE Lives(t) # 0
    <3>1. t \in sent /\ Asked(t) = 0 /\ Occurrences(queue, t) = 0 /\ endings[t] = 0
      BY <1>1, <1>7, <2>1, LiveIsAlone
    <3>2. Occurrences(active, t) = Overs(t) + Backs(t) + 1
      BY <1>7, <3>1 DEF Entry
    <3>3. QED BY <1>8, <3>2
  <2>2. CASE Overs(t) # 0 \/ Backs(t) # 0
    <3>1. \E n \in {0, 1} : Occurrences(active, t) = Overs(t) + Backs(t) + n
      BY <1>7 DEF Entry
    <3>2. QED BY <1>8, <2>2, <3>1
  <2>3. QED BY <1>6, <2>1, <2>2
<1>10. t \in ToSet(active)
  BY <1>1, <1>9, OccurrencesType, Zenon
<1>11. QED BY <1>1, <1>10 DEF t

(* Six natural numbers that add up to zero or one: three of them add up to   *)
(* one exactly when the sum is one and the other three are zero.            *)
LEMMA WhereOne ==
  ASSUME NEW m \in Nat, NEW n \in Nat, NEW p \in Nat, NEW q \in Nat, NEW r \in Nat,
         NEW x \in Nat, NEW s \in {0, 1}, m + n + p + q + r + x = s
  PROVE  /\ s = 1 /\ m = 0 /\ n = 0 /\ x = 0 => p + q + r = 1
         /\ ~(s = 1 /\ m = 0 /\ n = 0 /\ x = 0) => p + q + r = 0
OBVIOUS

(* While the executor accepts work no slot of activeTransfers is lost,      *)
(* through every retry that overlaps with the run before it: there are as   *)
(* many runs waiting or under way of a task as it has slots.                *)
THEOREM SlotsBacked == Spec => []SlotsAreBacked
<1>1. LedgerInv => SlotsAreBacked
  <2> SUFFICES ASSUME LedgerInv, ~shutdown, NEW t \in Task
               PROVE  Occurrences(active, t) =
                        Occurrences(pool, t) + Handed(toStart, t)
                          + Cardinality({w \in Worker : pc[w] \in Running /\ cur[w] = t})
    BY DEF SlotsAreBacked, Handed, Pairs
  <2>1. TypeInv /\ Placed /\ Entry(t)
    BY DEF LedgerInv, Ledger
  <2>2. /\ Asked(t) \in Nat /\ Occurrences(queue, t) \in Nat /\ Occurrences(pool, t) \in Nat
        /\ Handed(toStart, t) \in Nat /\ Occurrences(active, t) \in Nat
        /\ Lives(t) \in Nat /\ Overs(t) \in Nat /\ Backs(t) \in Nat
        /\ endings[t] \in Nat
    BY <2>1, CountsType
  <2>3. Cardinality({w \in Worker : pc[w] \in Running /\ cur[w] = t})
          = Lives(t) + Overs(t) + Backs(t)
    BY <2>1, BusyWorkers
  <2>4. /\ Asked(t) + Occurrences(queue, t) + Occurrences(pool, t) + Handed(toStart, t)
             + Lives(t) + endings[t] = Sent(t)
        /\ Sent(t) \in {0, 1} /\ (t \in sent <=> Sent(t) = 1)
    BY <2>1 DEF Entry, Tokens, Sent
  <2>5. IF t \in sent /\ Asked(t) = 0 /\ Occurrences(queue, t) = 0 /\ endings[t] = 0
        THEN Occurrences(pool, t) + Handed(toStart, t) + Lives(t) = 1
        ELSE Occurrences(pool, t) + Handed(toStart, t) + Lives(t) = 0
    BY <2>2, <2>4, WhereOne
  <2>6. Occurrences(active, t) = Overs(t) + Backs(t)
          + (Occurrences(pool, t) + Handed(toStart, t) + Lives(t))
    BY <2>1, <2>2, <2>5 DEF Entry
  <2>7. QED BY <2>2, <2>3, <2>6
<1>2. QED BY <1>1, LedgerInvariant, PTL

(* Whatever runs of a task overlap around its retries, it reports one end.   *)
THEOREM EndsReportedOnce == Spec => []EndsOnce
<1>1. LedgerInv => EndsOnce
  <2> SUFFICES ASSUME LedgerInv, NEW t \in Task PROVE endings[t] <= 1
    BY DEF EndsOnce
  <2>1. TypeInv /\ Entry(t)
    BY DEF LedgerInv, Ledger
  <2>2. /\ Asked(t) \in Nat /\ Occurrences(queue, t) \in Nat /\ Occurrences(pool, t) \in Nat
        /\ Handed(toStart, t) \in Nat /\ Lives(t) \in Nat /\ endings[t] \in Nat
    BY <2>1, CountsType
  <2>3. /\ Asked(t) + Occurrences(queue, t) + Occurrences(pool, t) + Handed(toStart, t)
             + Lives(t) + endings[t] <= Sent(t)
        /\ Sent(t) \in {0, 1}
    BY <2>1 DEF Entry, Tokens, Sent
  <2>4. QED BY <2>2, <2>3
<1>2. QED BY <1>1, LedgerInvariant, PTL

LEMMA CountsNext == LedgerInv /\ CountsAddUp /\ [Next]_vars => CountsAddUp'
<1> SUFFICES ASSUME LedgerInv, CountsAddUp, [Next]_vars PROVE CountsAddUp'
  OBVIOUS
<1>1. /\ TypeInv /\ Placed /\ ListsOK /\ SlotsAndPrimary /\ ServiceOK
      /\ queue \in Seq(Task) /\ active \in Seq(Task)
      /\ pc \in [Thread -> Place] /\ requeued \in [Worker -> BOOLEAN] /\ Worker \subseteq Thread
      /\ completed \in Nat /\ accepted \in Nat
  BY DEF LedgerInv, TypeInv, TypeOK, ListsOK, ThreadsOK, Thread
<1> DEFINE gone == Cardinality(Leaving)
<1>2. gone \in Nat
  <2>1. IsFiniteSet(Worker)
    BY ConstantsAssumption DEF ConstantsAssumption
  <2>2. Leaving \in SUBSET Worker
    BY DEF Leaving
  <2>3. QED BY <2>1, <2>2, FS_Subset, FS_CardinalityType, Zenon
<1>3. completed + Len(active) + Len(queue) = accepted + gone
  BY DEF CountsAddUp
<1>4. Len(active) \in Nat /\ Len(queue) \in Nat
  BY <1>1
<1> HIDE DEF gone
<1>5. ASSUME UNCHANGED <<completed, active, queue, accepted, requeued>> PROVE CountsAddUp'
  BY <1>3, <1>5 DEF CountsAddUp, Leaving, gone
<1> USE DEF taskVars, localVars, listVars, uiVars, serviceVars, worldVars, historyVars
<1>6. CASE Terminals \/ User \/ OnCancel \/ RequestCancel \/ OnStop \/ OnDestroy \/ UNCHANGED vars
  <2>1. UNCHANGED <<completed, active, queue, accepted, requeued>>
    BY <1>6 DEF Terminals, OpenTerminal, CloseTerminal, User, EnqueueTransfer, SendControl,
                OnCancel, RequestCancel, OnStop, OnDestroy, vars
  <2>2. QED BY <1>5, <2>1
<1>7. ASSUME NEW th \in Thread, Peek(th) \/ Notify(th) \/ Dispatch(th) PROVE CountsAddUp'
  BY <1>5, <1>7 DEF Peek, Notify, Dispatch
<1>8. ASSUME NEW w \in Worker, Midway(w) \/ Report(w) PROVE CountsAddUp'
  <2>1. UNCHANGED <<completed, active, queue, accepted, requeued>>
    BY <1>8 DEF Midway, Begin, Connect, Claim, ConnectFresh, Prepare, Progress, EndMoving, Close,
                ReleaseSharedHandle, Report
  <2>2. QED BY <1>5, <2>1
<1>9. CASE OnEnqueue
  <2>1. /\ accepted' = accepted + 1 /\ UNCHANGED <<completed, active, requeued>>
        /\ queue' = Append(queue, Head(inbox).task) /\ inbox # <<>>
    BY <1>9 DEF OnEnqueue, Receive
  <2>2. Len(queue') = Len(queue) + 1
    BY <1>1, <2>1
  <2>3. gone' = gone
    BY <2>1 DEF gone, Leaving
  <2>4. Len(active') = Len(active)
    BY <2>1
  <2>5. accepted' = accepted + 1 /\ completed' = completed
    BY <2>1
  <2>6. completed' + Len(active') + Len(queue') = accepted' + gone'
    BY <1>1, <1>2, <1>3, <1>4, <2>2, <2>3, <2>4, <2>5
  <2>7. QED BY <2>6 DEF CountsAddUp, gone
<1>10. ASSUME NEW th \in Thread, Fill(th) PROVE CountsAddUp'
  <2>1. UNCHANGED <<completed, accepted, requeued>>
    BY <1>10 DEF Fill
  <2>2. CASE UNCHANGED <<queue, active>>
    BY <1>5, <2>1, <2>2
  <2>3. CASE \E next \in Seq(Task) :
               queue' \in Seq(Task) /\ queue = next \o queue' /\ active' = active \o next
    <3>1. PICK next \in Seq(Task) :
            queue' \in Seq(Task) /\ queue = next \o queue' /\ active' = active \o next
      BY <2>3
    <3>2. Len(active') = Len(active) + Len(next)
      BY <1>1, <3>1
    <3>3. Len(queue) = Len(next) + Len(queue') /\ Len(next) \in Nat /\ Len(queue') \in Nat
      BY <1>1, <3>1
    <3>4. gone' = gone
      BY <2>1 DEF gone, Leaving
    <3>5. QED BY <1>1, <1>2, <1>3, <1>4, <2>1, <3>2, <3>3, <3>4 DEF CountsAddUp, gone
  <2>4. QED BY <1>1, <1>10, <2>2, <2>3, FillSplits
<1>11. ASSUME NEW w \in Worker, Take(w) PROVE CountsAddUp'
  <2>1. /\ UNCHANGED <<completed, active, queue, accepted>> /\ pc[w] = "idle"
        /\ requeued' = [requeued EXCEPT ![w] = FALSE]
    BY <1>11 DEF Take
  <2>2. requeued[w] = FALSE
    BY <1>1, <2>1 DEF Placed
  <2>3. requeued' = requeued
    BY <1>1, <2>1, <2>2
  <2>4. QED BY <1>5, <2>1, <2>3
<1>12. ASSUME NEW w \in Worker, Requeue(w) PROVE CountsAddUp'
  <2>1. /\ UNCHANGED <<completed, active, accepted>> /\ pc[w] = "backoff"
        /\ requeued' = [requeued EXCEPT ![w] = TRUE] /\ queue' = <<cur[w]>> \o queue
    BY <1>12 DEF Requeue
  <2>2. requeued[w] = FALSE /\ cur[w] \in Task
    BY <1>1, <2>1 DEF Placed, TypeInv, LocalsOK, Running
  <2>3. w \notin Leaving /\ w \in Leaving' /\ Leaving \ {w} = Leaving' \ {w}
    BY <1>1, <2>1, <2>2 DEF Leaving
  <2>4. gone' = gone + 1
    BY <2>3, WorkerStep DEF Leaving, gone
  <2>5. Len(queue') = Len(queue) + 1
    BY <1>1, <2>1, <2>2
  <2>6. QED BY <1>1, <1>2, <1>3, <1>4, <2>1, <2>4, <2>5 DEF CountsAddUp, gone
<1>13. ASSUME NEW w \in Worker, LeaveActive(w) PROVE CountsAddUp'
  <2>1. /\ UNCHANGED <<queue, accepted>> /\ pc[w] = "remove"
        /\ requeued' = [requeued EXCEPT ![w] = FALSE]
        /\ active' = RemoveFirst(active, cur[w])
        /\ completed' = IF requeued[w] THEN completed ELSE completed + 1
    BY <1>13 DEF LeaveActive, RemoveTask, Completed
  <2>2. cur[w] \in ToSet(active)
    BY <2>1, RunsHoldSlots DEF Running
  <2>3. Len(active') = Len(active) - 1
    BY <1>1, <2>1, <2>2, RemoveFirstFacts
  <2>4. w \notin Leaving' /\ Leaving \ {w} = Leaving' \ {w} /\ (w \in Leaving <=> requeued[w])
    BY <1>1, <2>1 DEF Leaving
  <2>5. /\ requeued[w] => gone = gone' + 1
        /\ ~requeued[w] => gone' = gone
        /\ gone' \in Nat
    BY <2>4, WorkerStep DEF Leaving, gone
  <2>6. Len(queue') = Len(queue)
    BY <2>1
  <2>7. CASE requeued[w]
    BY <1>1, <1>2, <1>3, <1>4, <2>1, <2>3, <2>5, <2>6, <2>7 DEF CountsAddUp, gone
  <2>8. CASE ~requeued[w]
    BY <1>1, <1>2, <1>3, <1>4, <2>1, <2>3, <2>5, <2>6, <2>8 DEF CountsAddUp, gone
  <2>9. QED BY <2>7, <2>8
<1>14. QED BY <1>6, <1>7, <1>8, <1>9, <1>10, <1>11, <1>12, <1>13
  DEF Next, MainThread, RunTransferTask, ProcessNextTransfer, Thread, Midway

(* The three counters shown to the user add up to the tasks accepted, but    *)
(* for the runs that have put their task back and not left yet.              *)
THEOREM CountsCorrect == Spec => []CountsAddUp
<1>1. Init => CountsAddUp
  <2> SUFFICES ASSUME Init PROVE CountsAddUp
    OBVIOUS
  <2>1. Leaving = {}
    BY DEF Init, Leaving
  <2>2. QED BY <2>1, FS_EmptySet DEF Init, CountsAddUp
<1>2. LedgerInv /\ CountsAddUp /\ [Next]_vars => CountsAddUp'
  BY CountsNext
<1>3. QED BY <1>1, <1>2, LedgerInvariant, PTL DEF Spec, SafetySpec

(* The same when one of two of the numbers is not zero.                     *)
LEMMA OnlyOneWaits ==
  ASSUME NEW m \in Nat, NEW n \in Nat, NEW p \in Nat, NEW q \in Nat, NEW r \in Nat,
         NEW x \in Nat, NEW s \in {0, 1}, m + n + p + q + r + x <= s, p # 0 \/ q # 0
  PROVE  s = 1 /\ m = 0 /\ n = 0 /\ x = 0
OBVIOUS

(* A task on its way to a worker stands in activeTransfers.                 *)
LEMMA WaitingHoldSlots ==
  ASSUME LedgerInv, NEW t \in Task,
         t \in ToSet(pool) \/ \E th \in Thread : t \in ToSet(toStart[th])
  PROVE  t \in ToSet(active)
<1>1. /\ TypeInv /\ Entry(t) /\ active \in Seq(Task) /\ pool \in Seq(Task)
      /\ toStart \in [Thread -> Seq(Task)] /\ MAX_PARALLEL_TRANSFERS \in Nat
      /\ \A th \in Thread : Len(toStart[th]) <= MAX_PARALLEL_TRANSFERS
  BY ConstantsAssumption
     DEF LedgerInv, Ledger, Placed, TypeInv, TypeOK, ListsOK, ServiceOK, ThreadsOK, ConstantsAssumption
<1>2. /\ Asked(t) \in Nat /\ Occurrences(queue, t) \in Nat /\ Occurrences(pool, t) \in Nat
      /\ Handed(toStart, t) \in Nat /\ Occurrences(active, t) \in Nat
      /\ Lives(t) \in Nat /\ Overs(t) \in Nat /\ Backs(t) \in Nat /\ endings[t] \in Nat
  BY <1>1, CountsType
<1>3. Occurrences(pool, t) # 0 \/ Handed(toStart, t) # 0
  <2>1. CASE t \in ToSet(pool)
    BY <1>1, <2>1, OccurrencesType, Zenon
  <2>2. ASSUME NEW th \in Thread, t \in ToSet(toStart[th]) PROVE Handed(toStart, t) # 0
    <3>1. PICK i \in DOMAIN toStart[th] : toStart[th][i] = t
      BY <2>2 DEF ToSet
    <3>2. i \in 1 .. MAX_PARALLEL_TRANSFERS
      <4>1. toStart[th] \in Seq(Task) /\ Len(toStart[th]) <= MAX_PARALLEL_TRANSFERS
        BY <1>1
      <4>2. i \in 1 .. Len(toStart[th]) /\ Len(toStart[th]) \in Nat
        BY <3>1, <4>1
      <4>3. QED BY <1>1, <4>1, <4>2
    <3>3. <<th, i>> \in Pairs(toStart, t)
      BY <3>1, <3>2 DEF Pairs
    <3>4. IsFiniteSet(Pairs(toStart, t)) /\ Pairs(toStart, t) # {}
      BY <3>3, PairsFinite
    <3>5. QED BY <3>4, FS_EmptySet, Zenon DEF Handed
  <2>3. QED BY <2>1, <2>2
<1>4. /\ Asked(t) + Occurrences(queue, t) + Occurrences(pool, t) + Handed(toStart, t)
           + Lives(t) + endings[t] <= Sent(t)
      /\ Sent(t) \in {0, 1} /\ (Sent(t) = 1 => t \in sent)
  BY <1>1 DEF Entry, Tokens, Sent
<1>5. Sent(t) = 1 /\ Asked(t) = 0 /\ Occurrences(queue, t) = 0 /\ endings[t] = 0
  BY <1>2, <1>3, <1>4, OnlyOneWaits
<1>6. Occurrences(active, t) = Overs(t) + Backs(t) + 1
  BY <1>1, <1>4, <1>5 DEF Entry
<1>7. Occurrences(active, t) # 0
  BY <1>2, <1>6
<1>8. QED BY <1>1, <1>7, OccurrencesType, Zenon

(* ACTION_STOP is never sent.                                              *)
NoStop == \A i \in DOMAIN inbox : inbox[i].kind # "stop"

(* Tasks have been given to the executor, or are about to be without       *)
(* another word to the user, or run.                                       *)
InHand == \/ pool # <<>>
          \/ \E th \in Thread : pc[th] = "dispatch" /\ toStart[th] # <<>>
          \/ \E w \in Worker : pc[w] \in Running
ForeInv == NoStop /\ (InHand => foreground)

LEMMA NoStopNext ==
  ASSUME "stop" \notin Disturbances, TypeInv, NoStop, [Next]_vars
  PROVE  NoStop'
<1>1. /\ inbox \in Seq(Message)
      /\ \A i \in 1 .. Len(inbox) : inbox[i].kind # "stop"
  BY DEF TypeInv, TypeOK, ServiceOK, NoStop
<1>2. ASSUME NEW m \in Message, m.kind # "stop", inbox' = Append(inbox, m) PROVE NoStop'
  BY <1>1, <1>2 DEF NoStop
<1>3. ASSUME inbox # <<>>, inbox' = Tail(inbox) PROVE NoStop'
  BY <1>1, <1>3 DEF NoStop
<1>4. CASE inbox' = inbox
  BY <1>4 DEF NoStop
<1>5. \A t \in Task : [kind |-> "enqueue", task |-> t] \in Message
  BY DEF Message
<1>6. \A k \in {"cancel", "destroy"} : [kind |-> k, task |-> NoTask] \in Message
  BY DEF Message
<1> USE DEF taskVars, localVars, listVars, uiVars, serviceVars, worldVars, historyVars
<1>7. CASE User
  <2>1. ASSUME NEW t \in Task, EnqueueTransfer(t) PROVE NoStop'
    BY <1>2, <1>5, <2>1 DEF EnqueueTransfer, Send
  <2>2. ASSUME NEW kind \in {"cancel", "stop"} \cap Disturbances, SendControl(kind) PROVE NoStop'
    <3>1. kind = "cancel"
      OBVIOUS
    <3>2. QED BY <1>2, <1>6, <2>2, <3>1 DEF SendControl, Send
  <2>3. QED BY <1>7, <2>1, <2>2 DEF User
<1>8. CASE OnEnqueue \/ OnCancel \/ OnDestroy
  BY <1>3, <1>8 DEF OnEnqueue, OnCancel, OnDestroy, Receive
<1>9. ~OnStop
  BY <1>1 DEF OnStop, Receive
<1>10. ASSUME NEW th \in Thread, Fill(th) PROVE NoStop'
  <2>1. inbox' = inbox \/ inbox' = Append(inbox, [kind |-> "destroy", task |-> NoTask])
    BY <1>10 DEF Fill, StopSelf
  <2>2. QED BY <1>2, <1>4, <1>6, <2>1
<1>11. ASSUME NEW th \in Thread, Peek(th) \/ Notify(th) \/ Dispatch(th) PROVE NoStop'
  BY <1>4, <1>11 DEF Peek, Notify, Dispatch
<1>12. ASSUME NEW w \in Worker, Midway(w) \/ Take(w) \/ Report(w) \/ Requeue(w) \/ LeaveActive(w)
       PROVE  NoStop'
  <2>1. inbox' = inbox
    BY <1>12 DEF Midway, Begin, Connect, Claim, ConnectFresh, Prepare, Progress, EndMoving, Close,
                 ReleaseSharedHandle, Take, Report, Requeue, LeaveActive
  <2>2. QED BY <1>4, <2>1
<1>13. CASE Terminals \/ RequestCancel \/ UNCHANGED vars
  <2>1. inbox' = inbox
    BY <1>13 DEF Terminals, OpenTerminal, CloseTerminal, RequestCancel, vars
  <2>2. QED BY <1>4, <2>1
<1>14. QED BY <1>7, <1>8, <1>9, <1>10, <1>11, <1>12, <1>13
  DEF Next, MainThread, RunTransferTask, ProcessNextTransfer, Thread, Midway

LEMMA ForeNext ==
  ASSUME "stop" \notin Disturbances, LedgerInv, ForeInv, [Next]_vars
  PROVE  ForeInv'
<1>1. /\ TypeInv /\ Placed /\ NoStop /\ ListsOK /\ SlotsAndPrimary
      /\ pc \in [Thread -> Place] /\ toStart \in [Thread -> Seq(Task)]
      /\ pool \in Seq(Task) /\ active \in Seq(Task) /\ inbox \in Seq(Message)
      /\ Main \in Thread /\ Main \notin Worker /\ Worker \subseteq Thread
      /\ foreground \in BOOLEAN
  BY ConstantsAssumption
     DEF LedgerInv, ForeInv, TypeInv, TypeOK, ListsOK, ServiceOK, ThreadsOK, FlagsOK,
         ConstantsAssumption, Thread
<1>2. NoStop'
  BY <1>1, NoStopNext
<1>3. InHand => foreground
  BY DEF ForeInv
<1>4. SUFFICES InHand' => foreground'
  BY <1>2 DEF ForeInv
<1>5. active = <<>> => ~(pool # <<>>) /\ (\A th \in Thread : toStart[th] = <<>>)
                       /\ (\A w \in Worker : pc[w] \notin Running)
  <2> SUFFICES ASSUME active = <<>>
               PROVE  /\ pool = <<>> /\ (\A th \in Thread : toStart[th] = <<>>)
                      /\ \A w \in Worker : pc[w] \notin Running
    OBVIOUS
  <2>1. ToSet(active) = {}
    BY DEF ToSet
  <2>2. \A s \in Seq(Task) : s # <<>> => s[1] \in Task /\ s[1] \in ToSet(s)
    BY DEF ToSet
  <2>3. pool = <<>>
    BY <1>1, <2>1, <2>2, WaitingHoldSlots, Zenon
  <2>4. ASSUME NEW th \in Thread, toStart[th] # <<>> PROVE FALSE
    <3>1. toStart[th][1] \in Task /\ toStart[th][1] \in ToSet(toStart[th])
      BY <1>1, <2>2, <2>4
    <3>2. QED BY <2>1, <3>1, WaitingHoldSlots, Zenon
  <2>5. \A w \in Worker : pc[w] \notin Running
    BY <2>1, RunsHoldSlots
  <2>6. QED BY <2>3, <2>4, <2>5
<1>18. ASSUME NEW th \in Thread, NEW p \in Place \ (Running \cup {"dispatch"}),
              pc' = [pc EXCEPT ![th] = p], UNCHANGED pool,
              \A v \in Thread \ {th} : toStart'[v] = toStart[v], InHand'
       PROVE  InHand
  <2>1. \A v \in Thread : pc'[v] \in Running \cup {"dispatch"} => v # th /\ pc'[v] = pc[v]
    BY <1>1, <1>18
  <2>2. CASE pool' # <<>>
    BY <1>18, <2>2 DEF InHand
  <2>3. ASSUME NEW v \in Thread, pc'[v] = "dispatch", toStart'[v] # <<>> PROVE InHand
    BY <1>18, <2>1, <2>3 DEF InHand
  <2>4. ASSUME NEW w \in Worker, pc'[w] \in Running PROVE InHand
    BY <1>1, <2>1, <2>4 DEF InHand
  <2>5. QED BY <1>18, <2>2, <2>3, <2>4 DEF InHand
<1>19. \A p \in {"fill", "idle", "cancel", "notify", "peek"} :
         p \in Place \ (Running \cup {"dispatch"})
  BY DEF Place, Running
<1> HIDE DEF InHand
<1>6. ASSUME InHand' => InHand, foreground => foreground'
      PROVE  InHand' => foreground'
  BY <1>3, <1>6, Zenon
<1> USE DEF taskVars, localVars, listVars, uiVars, serviceVars, worldVars, historyVars
<1>7. CASE Terminals \/ User \/ UNCHANGED vars
  <2>1. UNCHANGED <<pc, pool, toStart, foreground>>
    BY <1>7 DEF Terminals, User, OpenTerminal, CloseTerminal, EnqueueTransfer, SendControl, vars
  <2>2. QED BY <1>6, <2>1 DEF InHand
<1>8. CASE OnEnqueue \/ OnCancel \/ RequestCancel
  <2>1. /\ UNCHANGED <<pool, toStart>>
        /\ foreground => foreground'
        /\ \E p \in {"fill", "idle", "cancel"} : pc' = [pc EXCEPT ![Main] = p]
    BY <1>8 DEF OnEnqueue, OnCancel, RequestCancel
  <2>2. InHand' => InHand
    BY <1>1, <1>18, <1>19, <2>1
  <2>3. QED BY <1>6, <2>1, <2>2
<1>9. CASE OnStop
  BY <1>1, <1>9 DEF OnStop, Receive, NoStop
<1>10. CASE OnDestroy
  <2>1. UNCHANGED <<pc, toStart, foreground>> /\ pool' = <<>>
    BY <1>10 DEF OnDestroy
  <2>2. InHand' => InHand
    BY <2>1 DEF InHand
  <2>3. QED BY <1>6, <2>1, <2>2
<1>11. ASSUME NEW th \in Thread, Fill(th) PROVE InHand' => foreground'
  <2>1. pc[th] = "fill" /\ pool' = pool
    BY <1>11 DEF Fill
  <2>2. CASE /\ active = <<>> /\ toStart' = toStart /\ pc' = [pc EXCEPT ![th] = "idle"]
    BY <1>1, <1>5, <2>1, <2>2 DEF InHand, Running
  <2>3. CASE /\ \E next : toStart' = [toStart EXCEPT ![th] = next]
             /\ \E p \in {"notify", "peek"} : pc' = [pc EXCEPT ![th] = p]
             /\ foreground' = foreground
    <3>1. InHand' => InHand
      BY <1>1, <1>18, <1>19, <2>1, <2>3
    <3>2. QED BY <1>6, <2>3, <3>1
  <2>4. QED BY <1>11, <2>2, <2>3 DEF Fill, NothingLeft
<1>12. ASSUME NEW th \in Thread, Peek(th) PROVE InHand' => foreground'
  <2>1. UNCHANGED <<pool, toStart, foreground, active>>
    BY <1>12 DEF Peek
  <2>2. CASE primary = NoTask
    <3>1. active = <<>>
      BY <1>1, <2>2, ConstantsAssumption DEF SlotsAndPrimary, ToSet, ConstantsAssumption
    <3>2. pc' = [pc EXCEPT ![th] = "dispatch"] /\ pc[th] = "peek"
      BY <1>12, <2>2 DEF Peek
    <3>3. ~InHand'
      BY <1>1, <1>5, <2>1, <3>1, <3>2 DEF InHand, Running
    <3>4. QED BY <3>3
  <2>3. CASE primary # NoTask
    <3>1. pc' = [pc EXCEPT ![th] = "notify"]
      BY <1>12, <2>3 DEF Peek
    <3>2. InHand' => InHand
      BY <1>18, <1>19, <2>1, <3>1
    <3>3. QED BY <1>6, <2>1, <3>2
  <2>4. QED BY <2>2, <2>3
<1>13. ASSUME NEW th \in Thread, Notify(th) PROVE InHand' => foreground'
  BY <1>13 DEF Notify
<1>14. ASSUME NEW th \in Thread, Dispatch(th) PROVE InHand' => foreground'
  <2>1. pc[th] = "dispatch" /\ foreground' = foreground
    BY <1>14 DEF Dispatch
  <2>2. CASE toStart[th] # <<>>
    BY <1>3, <2>1, <2>2 DEF InHand
  <2>3. CASE toStart[th] = <<>>
    <3>1. UNCHANGED <<pool, toStart>> /\ pc' = [pc EXCEPT ![th] = "idle"]
      BY <1>14, <2>3 DEF Dispatch
    <3>2. InHand' => InHand
      BY <1>18, <1>19, <3>1
    <3>3. QED BY <1>6, <2>1, <3>2
  <2>4. QED BY <2>2, <2>3
<1>15. ASSUME NEW w \in Worker, Take(w) PROVE InHand' => foreground'
  <2>1. pool # <<>> /\ foreground' = foreground
    BY <1>15 DEF Take
  <2>2. QED BY <1>3, <2>1 DEF InHand
<1>16. ASSUME NEW w \in Worker, Midway(w) \/ Report(w) \/ Requeue(w) \/ LeaveActive(w)
       PROVE  InHand' => foreground'
  <2>1. pc[w] \in Running
    BY <1>16 DEF Midway, Begin, Connect, Claim, ConnectFresh, Prepare, Progress, EndMoving, Close,
                 ReleaseSharedHandle, Report, Requeue, LeaveActive, Running
  <2>2. foreground => foreground'
    BY <1>16 DEF Midway, Begin, Connect, Claim, ConnectFresh, Prepare, Progress, EndMoving, Close,
                 ReleaseSharedHandle, Report, Requeue, LeaveActive
  <2>3. QED BY <1>3, <2>1, <2>2 DEF InHand
<1>17. QED BY <1>7, <1>8, <1>9, <1>10, <1>11, <1>12, <1>13, <1>14, <1>15, <1>16
  DEF Next, MainThread, RunTransferTask, ProcessNextTransfer, Thread, Midway

(* While a transfer runs the service is in the foreground: no thread that    *)
(* finds nothing left can clear the state under a transfer that another one *)
(* has started (provided ACTION_STOP, which nothing in the code sends, is   *)
(* not sent).                                                              *)
THEOREM ForegroundKept ==
  ASSUME "stop" \notin Disturbances
  PROVE  Spec => []ForegroundWhileRunning
<1>1. Init => ForeInv
  BY DEF Init, ForeInv, NoStop, InHand, Thread, Running
<1>2. LedgerInv /\ ForeInv /\ [Next]_vars => ForeInv'
  BY ForeNext
<1>3. ForeInv => ForegroundWhileRunning
  BY DEF ForeInv, InHand, ForegroundWhileRunning
<1>4. QED BY <1>1, <1>2, <1>3, LedgerInvariant, PTL DEF Spec, SafetySpec

Moving == {"opened", "moving", "close"}

(* At most one run of a task has not reported yet.                          *)
LEMMA OneLive ==
  ASSUME LedgerInv, NEW v \in Worker, NEW w \in Worker,
         pc[v] \in Before, pc[w] \in Before, cur[v] = cur[w]
  PROVE  v = w
<1> DEFINE t == cur[w]
<1>1. t \in Task /\ TypeInv /\ Entry(t)
  BY RunsHoldSlots DEF LedgerInv, Ledger, Before
<1>2. IsFiniteSet(Worker)
  BY ConstantsAssumption DEF ConstantsAssumption
<1>3. Live(t) \in SUBSET Worker
  BY DEF Live
<1>4. IsFiniteSet(Live(t)) /\ v \in Live(t) /\ w \in Live(t)
  BY <1>2, <1>3, FS_Subset DEF Live
<1> HIDE DEF t
<1>5. Lives(t) # 0
  BY <1>4, FS_EmptySet DEF Lives
<1>6. Cardinality(Live(t)) = 1
  BY <1>1, <1>5, LiveIsAlone DEF Lives
<1>7. QED
  <2> SUFFICES ASSUME v # w PROVE FALSE
    OBVIOUS
  <2>1. IsFiniteSet(Live(t) \ {v}) /\ Cardinality(Live(t) \ {v}) = Cardinality(Live(t)) - 1
    BY <1>4, FS_RemoveElement
  <2>2. w \in Live(t) \ {v}
    BY <1>4
  <2>3. Cardinality(Live(t) \ {v}) # 0
    BY <2>1, <2>2, FS_EmptySet
  <2>4. QED BY <1>6, <2>1, <2>3

(* A run that uses the session of a terminal bears the mark of its task, or *)
(* another run of the task has given that mark back.                        *)
Holds(w) == /\ pc[w] \in Moving /\ handle[w] = KeyOf[cur[w]]
            /\ shared[cur[w]] \/ w \in crossed
Held == \A w \in Worker : handle[w] \in Key => Holds(w)

LEMMA HeldNext ==
  ASSUME LedgerInv, Held, [Next]_vars
  PROVE  Held'
<1>1. /\ pc \in [Thread -> Place] /\ handle \in [Worker -> Key \cup {"none", "fresh"}]
      /\ cur \in [Thread -> Task \cup {NoTask}]
      /\ shared \in [Task -> BOOLEAN] /\ KeyOf \in [Task -> Key]
      /\ "fresh" \notin Key /\ "none" \notin Key
      /\ Main \notin Worker /\ Main \in Thread /\ Worker \subseteq Thread
      /\ \A w \in Worker : pc[w] \in Running => cur[w] \in Task
  BY ConstantsAssumption
     DEF LedgerInv, TypeInv, TypeOK, ThreadsOK, TasksOK, LocalsOK, Thread, ConstantsAssumption
<1>2. \A v \in Worker : handle[v] \in Key =>
        /\ pc[v] \in Moving /\ handle[v] = KeyOf[cur[v]]
        /\ shared[cur[v]] \/ v \in crossed
  BY DEF Held, Holds
<1>3. Moving \subseteq Running /\ Moving \subseteq Before
  BY DEF Moving, Running, Before
(* A step that leaves the marks and the handles, and does not touch a      *)
(* worker that uses a shared session.                                      *)
<1>4. ASSUME UNCHANGED <<handle, shared>>,
             \A v \in Worker : pc[v] \in Moving =>
               pc'[v] \in Moving /\ cur'[v] = cur[v] /\ (v \in crossed => v \in crossed')
      PROVE  Held'
  BY <1>2, <1>4 DEF Held, Holds
<1> USE DEF taskVars, localVars, listVars, uiVars, serviceVars, worldVars, historyVars
<1>5. CASE Terminals \/ User \/ OnStop \/ OnDestroy \/ UNCHANGED vars
  <2>1. UNCHANGED <<handle, shared, crossed, pc, cur>>
    BY <1>5 DEF Terminals, User, OnStop, OnDestroy, OpenTerminal, CloseTerminal, EnqueueTransfer,
                SendControl, vars
  <2>2. QED BY <1>4, <2>1
<1>6. CASE OnEnqueue \/ OnCancel \/ RequestCancel
  <2>1. /\ UNCHANGED <<handle, shared, crossed>>
        /\ \A v \in Worker : pc'[v] = pc[v] /\ cur'[v] = cur[v]
    BY <1>1, <1>6 DEF OnEnqueue, OnCancel, RequestCancel
  <2>2. QED BY <1>4, <2>1
<1>7. ASSUME NEW th \in Thread, ProcessNextTransfer(th) PROVE Held'
  <2>1. UNCHANGED <<handle, shared, crossed, cur>> /\ pc[th] \notin Moving
    BY <1>7 DEF ProcessNextTransfer, Fill, Peek, Notify, Dispatch, Moving
  <2>2. \/ pc' = pc
        \/ \E p \in {"idle", "notify", "peek", "dispatch", "fill"} : pc' = [pc EXCEPT ![th] = p]
    BY <1>7 DEF ProcessNextTransfer, Fill, Peek, Notify, Dispatch
  <2>3. \A v \in Worker : pc[v] \in Moving => pc'[v] = pc[v]
    BY <1>1, <2>1, <2>2
  <2>4. QED BY <1>4, <2>1, <2>3
<1>8. ASSUME NEW w \in Worker, \/ Take(w) \/ Begin(w) \/ Connect(w) \/ Report(w) \/ Requeue(w)
                               \/ LeaveActive(w)
      PROVE  Held'
  <2>1. UNCHANGED <<handle, shared>> /\ pc[w] \notin Moving
    BY <1>8 DEF Take, Begin, Connect, Report, Requeue, LeaveActive, Moving
  <2>2. \A v \in Worker \ {w} : pc'[v] = pc[v] /\ cur'[v] = cur[v]
    BY <1>1, <1>8 DEF Take, Begin, Connect, Report, Requeue, LeaveActive, Goto
  <2>3. crossed \ {w} \subseteq crossed'
    BY <1>8 DEF Take, Begin, Connect, Report, Requeue, LeaveActive
  <2>4. \A v \in Worker : pc[v] \in Moving => v # w
    BY <2>1
  <2>5. QED BY <1>4, <2>1, <2>2, <2>3, <2>4
<1>9. ASSUME NEW w \in Worker, EndMoving(w) \/ Progress(w) PROVE Held'
  <2>1. /\ UNCHANGED <<handle, shared, crossed, cur>>
        /\ \A v \in Worker : pc[v] \in Moving => pc'[v] \in Moving
    BY <1>1, <1>9 DEF EndMoving, Progress, Goto, Moving
  <2>2. QED BY <1>4, <2>1
<1>10. ASSUME NEW w \in Worker, Claim(w) PROVE Held'
  <2>1. /\ cur[w] \in Task /\ pc[w] \notin Moving /\ UNCHANGED <<crossed, cur>>
        /\ \A v \in Worker \ {w} : pc'[v] = pc[v]
    BY <1>1, <1>10 DEF Claim, Running, Moving, Goto
  <2>2. CASE UNCHANGED <<handle, shared>>
    BY <1>4, <2>1, <2>2
  <2>3. CASE /\ shared' = [shared EXCEPT ![cur[w]] = TRUE]
             /\ handle' = [handle EXCEPT ![w] = KeyOf[cur[w]]]
             /\ pc' = [pc EXCEPT ![w] = "opened"]
    <3>1. ASSUME NEW v \in Worker, handle'[v] \in Key PROVE Holds(v)'
      <4>1. CASE v = w
        BY <1>1, <2>1, <2>3, <4>1 DEF Moving, Holds
      <4>2. CASE v # w
        <5>1. handle[v] \in Key /\ pc'[v] = pc[v] /\ handle'[v] = handle[v]
          BY <1>1, <2>3, <3>1, <4>2
        <5>2. cur[v] \in Task
          BY <1>1, <1>2, <1>3, <5>1
        <5>3. shared[cur[v]] => shared'[cur[v]]
          BY <1>1, <2>3, <5>2
        <5>4. QED BY <1>2, <2>1, <5>1, <5>3 DEF Holds
      <4>3. QED BY <4>1, <4>2
    <3>2. QED BY <3>1 DEF Held
  <2>4. QED BY <1>10, <2>2, <2>3 DEF Claim, Goto
(* The run of a task that connects is the only one that has not reported.  *)
<1>11. ASSUME NEW w \in Worker, ConnectFresh(w) PROVE Held'
  <2>1. /\ pc[w] \in Before \ Moving /\ cur[w] \in Task /\ UNCHANGED <<crossed, cur>>
        /\ \A v \in Worker \ {w} : pc'[v] = pc[v]
    BY <1>1, <1>11 DEF ConnectFresh, Before, Running, Moving, Goto
  <2>2. CASE UNCHANGED <<handle, shared>>
    BY <1>4, <2>1, <2>2
  <2>3. CASE /\ shared' = [shared EXCEPT ![cur[w]] = FALSE]
             /\ handle' = [handle EXCEPT ![w] = "fresh"]
    <3>1. ASSUME NEW v \in Worker, handle'[v] \in Key PROVE Holds(v)'
      <4>1. v # w
        BY <1>1, <2>3, <3>1
      <4>2. handle'[v] = handle[v] /\ pc'[v] = pc[v] /\ pc[v] \in Moving
        BY <1>1, <1>2, <2>1, <2>3, <3>1, <4>1
      <4>3. cur[v] \in Task /\ cur[v] # cur[w]
        BY <1>1, <1>3, <2>1, <4>1, <4>2, OneLive
      <4>4. shared'[cur[v]] = shared[cur[v]]
        BY <1>1, <2>3, <4>3
      <4>5. QED BY <1>2, <2>1, <3>1, <4>2, <4>4 DEF Holds
    <3>2. QED BY <3>1 DEF Held
  <2>4. QED BY <1>11, <2>2, <2>3 DEF ConnectFresh
<1>12. ASSUME NEW w \in Worker, ReleaseSharedHandle(w) PROVE Held'
  <2>1. /\ pc[w] \notin Moving /\ cur[w] \in Task /\ UNCHANGED <<cur, handle>>
        /\ \A v \in Worker \ {w} : pc'[v] = pc[v]
        /\ shared' = [shared EXCEPT ![cur[w]] = FALSE]
        /\ crossed' = crossed \cup {v \in Worker : cur[v] = cur[w] /\ handle[v] \in Key}
    BY <1>1, <1>12 DEF ReleaseSharedHandle, Running, Moving, Goto
  <2>2. ASSUME NEW v \in Worker, handle'[v] \in Key PROVE Holds(v)'
    <3>1. handle'[v] = handle[v] /\ handle[v] \in Key /\ pc[v] \in Moving /\ cur[v] \in Task
      BY <1>1, <1>2, <1>3, <2>1, <2>2
    <3>2. pc'[v] = pc[v]
      BY <2>1, <3>1
    <3>3. CASE cur[v] = cur[w]
      <4>1. v \in crossed'
        BY <2>1, <3>1, <3>3
      <4>2. QED BY <1>2, <2>1, <3>1, <3>2, <4>1 DEF Holds
    <3>4. CASE cur[v] # cur[w]
      <4>1. shared'[cur[v]] = shared[cur[v]] /\ (v \in crossed => v \in crossed')
        BY <1>1, <2>1, <3>1, <3>4
      <4>2. QED BY <1>2, <2>1, <3>1, <3>2, <4>1 DEF Holds
    <3>5. QED BY <3>3, <3>4
  <2>3. QED BY <2>2 DEF Held
<1>13. ASSUME NEW w \in Worker, Prepare(w) \/ Close(w) PROVE Held'
  <2>1. UNCHANGED <<shared, crossed, cur>> /\ \A v \in Worker \ {w} : pc'[v] = pc[v]
    BY <1>1, <1>13 DEF Prepare, Close, Goto
  <2>2. CASE handle' = [handle EXCEPT ![w] = "none"]
    <3>1. \A v \in Worker : handle'[v] \in Key => v # w /\ handle'[v] = handle[v]
      BY <1>1, <2>2
    <3>2. QED BY <1>2, <2>1, <3>1 DEF Held, Holds
  <2>3. CASE handle' = handle /\ pc' = [pc EXCEPT ![w] = "moving"]
    <3>1. \A v \in Worker : pc[v] \in Moving => pc'[v] \in Moving
      BY <1>1, <2>3 DEF Moving
    <3>2. QED BY <1>4, <2>1, <2>3, <3>1
  <2>4. QED BY <1>13, <2>2, <2>3 DEF Prepare, Close, Goto
<1>14. QED BY <1>5, <1>6, <1>7, <1>8, <1>9, <1>10, <1>11, <1>12, <1>13
  DEF Next, MainThread, RunTransferTask, Thread

LEMMA HeldInvariant == Spec => [](LedgerInv /\ Held)
<1>1. Init => Held
  BY ConstantsAssumption DEF Init, Held, ConstantsAssumption
<1>2. LedgerInv /\ Held /\ [Next]_vars => Held'
  BY HeldNext
<1>3. QED BY <1>1, <1>2, LedgerInvariant, PTL DEF Spec, SafetySpec

(* The mark of a task is on its host, and two tasks do not share one.       *)
Marked == /\ \A t \in Task : shared[t] => KeyOf[t] \in inUse
          /\ \A t, u \in Task : shared[t] /\ shared[u] /\ KeyOf[t] = KeyOf[u] => t = u

LEMMA MarkedNext ==
  ASSUME TypeInv, Marked, [Next]_vars
  PROVE  Marked'
<1>1. /\ shared \in [Task -> BOOLEAN] /\ KeyOf \in [Task -> Key]
      /\ \A w \in Worker : pc[w] \in Running => cur[w] \in Task
  BY ConstantsAssumption DEF TypeInv, TypeOK, TasksOK, LocalsOK, ConstantsAssumption
<1>2. ASSUME UNCHANGED <<shared, inUse>> PROVE Marked'
  BY <1>2 DEF Marked
<1> USE DEF taskVars, localVars, listVars, uiVars, serviceVars, worldVars, historyVars
<1>3. CASE Terminals \/ User \/ OnEnqueue \/ OnCancel \/ RequestCancel \/ OnStop \/ OnDestroy
           \/ UNCHANGED vars
  BY <1>2, <1>3
  DEF Terminals, User, OpenTerminal, CloseTerminal, EnqueueTransfer, SendControl, OnEnqueue,
      OnCancel, RequestCancel, OnStop, OnDestroy, vars
<1>4. ASSUME NEW th \in Thread, ProcessNextTransfer(th) PROVE Marked'
  BY <1>2, <1>4 DEF ProcessNextTransfer, Fill, Peek, Notify, Dispatch
<1>5. ASSUME NEW w \in Worker, \/ Take(w) \/ Begin(w) \/ Connect(w) \/ Prepare(w) \/ Progress(w)
                               \/ EndMoving(w)
      PROVE  Marked'
  BY <1>2, <1>5 DEF Take, Begin, Connect, Prepare, Progress, EndMoving
<1>6. ASSUME NEW w \in Worker, Close(w) \/ Report(w) \/ Requeue(w) \/ LeaveActive(w)
      PROVE  Marked'
  BY <1>2, <1>6 DEF Close, Report, Requeue, LeaveActive
<1>7. ASSUME NEW w \in Worker, Claim(w) PROVE Marked'
  <2> DEFINE t == cur[w]
  <2>1. t \in Task
    BY <1>1, <1>7 DEF Claim, Running
  <2>2. CASE UNCHANGED <<shared, inUse>>
    BY <1>2, <2>2
  <2>3. CASE /\ KeyOf[t] \notin inUse /\ inUse' = inUse \cup {KeyOf[t]}
             /\ shared' = [shared EXCEPT ![t] = TRUE]
    <3>1. ASSUME NEW u \in Task, shared'[u] PROVE KeyOf[u] \in inUse'
      BY <1>1, <2>1, <2>3, <3>1 DEF Marked
    <3>2. ASSUME NEW u \in Task, NEW x \in Task, shared'[u], shared'[x], KeyOf[u] = KeyOf[x]
          PROVE  u = x
      BY <1>1, <2>1, <2>3, <3>2 DEF Marked
    <3>3. QED BY <3>1, <3>2 DEF Marked
  <2>4. QED BY <1>7, <2>2, <2>3 DEF Claim, Taken
<1>8. ASSUME NEW w \in Worker, ConnectFresh(w) \/ ReleaseSharedHandle(w) PROVE Marked'
  <2> DEFINE t == cur[w]
  <2>1. t \in Task
    BY <1>1, <1>8 DEF ConnectFresh, ReleaseSharedHandle, Running
  <2>2. CASE UNCHANGED <<shared, inUse>>
    BY <1>2, <2>2
  <2>3. CASE /\ shared' = [shared EXCEPT ![t] = FALSE]
             /\ inUse' = inUse \/ inUse' = IF shared[t] THEN inUse \ {KeyOf[t]} ELSE inUse
    <3>1. ASSUME NEW u \in Task, shared'[u] PROVE KeyOf[u] \in inUse'
      <4>1. shared[u] /\ u # t
        BY <1>1, <2>1, <2>3, <3>1
      <4>2. KeyOf[u] \in inUse /\ (shared[t] => KeyOf[u] # KeyOf[t])
        BY <2>1, <4>1 DEF Marked
      <4>3. QED BY <2>3, <4>2
    <3>2. ASSUME NEW u \in Task, NEW x \in Task, shared'[u], shared'[x], KeyOf[u] = KeyOf[x]
          PROVE  u = x
      BY <1>1, <2>1, <2>3, <3>2 DEF Marked
    <3>3. QED BY <3>1, <3>2 DEF Marked
  <2>4. QED BY <1>8, <2>2, <2>3 DEF ConnectFresh, ReleaseSharedHandle
<1>9. QED BY <1>3, <1>4, <1>5, <1>6, <1>7, <1>8
  DEF Next, MainThread, RunTransferTask, Thread

(* Two transfers use the session of one terminal at once only when another  *)
(* run of the task of one of them has given back the mark in                *)
(* sharedHandleInUse that kept the other away.  For any number of workers,  *)
(* tasks and hosts, and whatever is retried.                                *)
THEOREM SessionsExclusive == Spec => []SessionExclusive
<1>1. Init => Marked
  BY ConstantsAssumption DEF Init, Marked, ConstantsAssumption
<1>2. TypeInv /\ Marked /\ [Next]_vars => Marked'
  BY MarkedNext
<1>3. LedgerInv => TypeInv
  BY DEF LedgerInv
<1>4. LedgerInv /\ Held /\ Marked => SessionExclusive
  <2> SUFFICES ASSUME LedgerInv, Held, Marked, NEW v \in Worker \ crossed,
                      NEW w \in Worker \ crossed, handle[v] \in Key, handle[w] = handle[v]
               PROVE  v = w
    BY DEF SessionExclusive
  <2>1. /\ pc[v] \in Before /\ pc[w] \in Before
        /\ shared[cur[v]] /\ shared[cur[w]] /\ KeyOf[cur[v]] = KeyOf[cur[w]]
    <3>1. /\ pc[v] \in Moving /\ pc[w] \in Moving
          /\ handle[v] = KeyOf[cur[v]] /\ handle[w] = KeyOf[cur[w]]
          /\ shared[cur[v]] /\ shared[cur[w]]
      BY DEF Held, Holds
    <3>2. QED BY <3>1 DEF Moving, Before, Running
  <2>2. cur[v] \in Task /\ cur[w] \in Task
    BY <2>1 DEF LedgerInv, TypeInv, LocalsOK, Before, Running
  <2>3. cur[v] = cur[w]
    BY <2>1, <2>2 DEF Marked
  <2>4. QED BY <2>1, <2>3, OneLive
<1>5. QED BY <1>1, <1>2, <1>3, <1>4, HeldInvariant, PTL DEF Spec, SafetySpec

(* The finally block of a transfer disconnects the session of a terminal    *)
(* only when another run of the same task has given back the mark that said *)
(* the session was borrowed: every run that holds such a session either     *)
(* still has the mark of its task, and leaves the session alone, or has     *)
(* lost it in that way.  Nothing is assumed about retries.                  *)
THEOREM TerminalSessionsKept == Spec => TerminalHandleKept
<1>1. LedgerInv /\ Held /\ [Next]_vars =>
        [\E w \in crossed : handle[w] \in Key /\ handle'[w] = "none"]_torn
  <2> SUFFICES ASSUME LedgerInv, Held, [Next]_vars, torn' # torn
               PROVE  \E w \in crossed : handle[w] \in Key /\ handle'[w] = "none"
    OBVIOUS
  <2> USE DEF taskVars, localVars, listVars, uiVars, serviceVars, worldVars, historyVars
  <2>1. ~(Terminals \/ User \/ OnStop \/ OnDestroy \/ OnEnqueue \/ OnCancel \/ RequestCancel
          \/ UNCHANGED vars)
    BY DEF Terminals, User, OnStop, OnDestroy, OpenTerminal, CloseTerminal, EnqueueTransfer,
           SendControl, OnEnqueue, OnCancel, RequestCancel, vars
  <2>2. ASSUME NEW th \in Thread PROVE ~ProcessNextTransfer(th)
    BY DEF ProcessNextTransfer, Fill, Peek, Notify, Dispatch
  <2>3. ASSUME NEW w \in Worker
        PROVE  ~(Take(w) \/ Begin(w) \/ Connect(w) \/ Claim(w) \/ ConnectFresh(w) \/ Prepare(w))
    BY DEF Take, Begin, Connect, Claim, ConnectFresh, Prepare
  <2>4. ASSUME NEW w \in Worker
        PROVE  ~(EndMoving(w) \/ Progress(w) \/ Report(w) \/ Requeue(w)
                 \/ ReleaseSharedHandle(w) \/ LeaveActive(w))
    BY DEF EndMoving, Progress, Report, Requeue, ReleaseSharedHandle, LeaveActive
  <2>5. PICK w \in Worker : Close(w)
    BY <2>1, <2>2, <2>3, <2>4 DEF Next, MainThread, RunTransferTask, Thread
  <2>6. /\ handle[w] \in Key \cup {"none", "fresh"} /\ handle[w] # "none"
        /\ handle \in [Worker -> Key \cup {"none", "fresh"}]
    BY <2>5 DEF Close, LedgerInv, TypeInv, TypeOK, ThreadsOK, LocalsOK
  <2>7. ~shared[cur[w]] /\ handle[w] # "fresh" /\ handle'[w] = "none"
    BY <2>5, <2>6 DEF Close, OwnsHandle
  <2>8. handle[w] \in Key /\ w \in crossed
    BY <2>6, <2>7 DEF Held, Holds
  <2>9. QED BY <2>7, <2>8
<1>2. QED BY <1>1, HeldInvariant, PTL DEF Spec, SafetySpec, TerminalHandleKept

OnlyDownloads == \A t \in Task : TypeOf[t] = "download"

(* A connection of a transfer's own is used by it, and not marked as shared. *)
Owned == /\ \A w \in Worker : handle[w] # "none" => pc[w] \in Moving
         /\ \A w \in Worker : handle[w] = "fresh" => ~shared[cur[w]]
         /\ opened = Cardinality(Owners)

LEMMA OwnedNext ==
  ASSUME OnlyDownloads, LedgerInv, Owned, [Next]_vars
  PROVE  Owned'
<1>1. /\ pc \in [Thread -> Place] /\ handle \in [Worker -> Key \cup {"none", "fresh"}]
      /\ cur \in [Thread -> Task \cup {NoTask}]
      /\ shared \in [Task -> BOOLEAN] /\ KeyOf \in [Task -> Key]
      /\ "fresh" \notin Key /\ "none" \notin Key
      /\ Main \notin Worker /\ Main \in Thread /\ Worker \subseteq Thread
      /\ \A w \in Worker : pc[w] \in Running => cur[w] \in Task
      /\ opened \in Nat
  BY ConstantsAssumption
     DEF LedgerInv, TypeInv, TypeOK, ThreadsOK, TasksOK, WorldOK, LocalsOK, Thread,
         ConstantsAssumption
<1>2. /\ \A w \in Worker : handle[w] # "none" => pc[w] \in Moving
      /\ \A w \in Worker : handle[w] = "fresh" => ~shared[cur[w]]
      /\ opened = Cardinality(Owners)
  BY DEF Owned
<1>3. Moving \subseteq Running /\ Moving \subseteq Before
  BY DEF Moving, Running, Before
<1>4. ASSUME UNCHANGED <<handle, opened>>,
             \A v \in Worker : pc[v] \in Moving => pc'[v] \in Moving /\ cur'[v] = cur[v],
             \A v \in Worker : handle[v] = "fresh" => ~shared'[cur[v]]
      PROVE  Owned'
  <2>1. Owners' = Owners
    BY <1>4 DEF Owners
  <2>2. \A v \in Worker : handle'[v] # "none" => pc'[v] \in Moving
    BY <1>2, <1>4
  <2>3. \A v \in Worker : handle'[v] = "fresh" => ~shared'[cur'[v]]
    BY <1>2, <1>4
  <2>4. opened' = Cardinality(Owners')
    BY <1>2, <1>4, <2>1
  <2>5. QED BY <2>2, <2>3, <2>4 DEF Owned
<1> USE DEF taskVars, localVars, listVars, uiVars, serviceVars, worldVars, historyVars
<1>5. CASE Terminals \/ User \/ OnStop \/ OnDestroy \/ UNCHANGED vars
  <2>1. UNCHANGED <<handle, shared, opened, pc, cur>>
    BY <1>5 DEF Terminals, User, OnStop, OnDestroy, OpenTerminal, CloseTerminal, EnqueueTransfer,
                SendControl, vars
  <2>2. QED BY <1>2, <1>4, <2>1
<1>6. CASE OnEnqueue \/ OnCancel \/ RequestCancel
  <2>1. /\ UNCHANGED <<handle, shared, opened>>
        /\ \A v \in Worker : pc'[v] = pc[v] /\ cur'[v] = cur[v]
    BY <1>1, <1>6 DEF OnEnqueue, OnCancel, RequestCancel
  <2>2. QED BY <1>2, <1>4, <2>1
<1>7. ASSUME NEW th \in Thread, ProcessNextTransfer(th) PROVE Owned'
  <2>1. UNCHANGED <<handle, shared, opened, cur>> /\ pc[th] \notin Moving
    BY <1>7 DEF ProcessNextTransfer, Fill, Peek, Notify, Dispatch, Moving
  <2>2. \/ pc' = pc
        \/ \E p \in {"idle", "notify", "peek", "dispatch", "fill"} : pc' = [pc EXCEPT ![th] = p]
    BY <1>7 DEF ProcessNextTransfer, Fill, Peek, Notify, Dispatch
  <2>3. \A v \in Worker : pc[v] \in Moving => pc'[v] = pc[v]
    BY <1>1, <2>1, <2>2
  <2>4. QED BY <1>2, <1>4, <2>1, <2>3
<1>8. ASSUME NEW w \in Worker, \/ Take(w) \/ Begin(w) \/ Connect(w) \/ Report(w) \/ Requeue(w)
                               \/ LeaveActive(w)
      PROVE  Owned'
  <2>1. UNCHANGED <<handle, shared, opened>> /\ pc[w] \notin Moving
    BY <1>8 DEF Take, Begin, Connect, Report, Requeue, LeaveActive, Moving
  <2>2. \A v \in Worker \ {w} : pc'[v] = pc[v] /\ cur'[v] = cur[v]
    BY <1>1, <1>8 DEF Take, Begin, Connect, Report, Requeue, LeaveActive, Goto
  <2>3. QED BY <1>2, <1>4, <2>1, <2>2
<1>9. ASSUME NEW w \in Worker, EndMoving(w) \/ Progress(w) PROVE Owned'
  <2>1. /\ UNCHANGED <<handle, shared, opened, cur>>
        /\ \A v \in Worker : pc[v] \in Moving => pc'[v] \in Moving
    BY <1>1, <1>9 DEF EndMoving, Progress, Goto, Moving
  <2>2. QED BY <1>2, <1>4, <2>1
<1>10. ASSUME NEW w \in Worker, ReleaseSharedHandle(w) PROVE Owned'
  <2>1. /\ UNCHANGED <<handle, opened, cur>> /\ pc[w] \in Running \ Moving
        /\ shared' = [shared EXCEPT ![cur[w]] = FALSE]
        /\ \A v \in Worker \ {w} : pc'[v] = pc[v]
    BY <1>1, <1>10 DEF ReleaseSharedHandle, Running, Moving, Goto
  <2>2. \A v \in Worker : handle[v] = "fresh" => ~shared'[cur[v]]
    BY <1>1, <1>2, <1>3, <2>1
  <2>3. QED BY <1>4, <2>1, <2>2
<1>11. ASSUME NEW w \in Worker, Prepare(w) PROVE Owned'
  <2>1. cur[w] \in Task /\ TypeOf[cur[w]] # "upload"
    BY <1>1, <1>11 DEF Prepare, Running, OnlyDownloads
  <2>2. UNCHANGED <<handle, shared, opened, cur>> /\ pc' = [pc EXCEPT ![w] = "moving"]
    BY <1>11, <2>1 DEF Prepare, Goto
  <2>3. \A v \in Worker : pc[v] \in Moving => pc'[v] \in Moving
    BY <1>1, <2>2 DEF Moving
  <2>4. QED BY <1>2, <1>4, <2>2, <2>3
<1>12. ASSUME NEW w \in Worker, Claim(w) PROVE Owned'
  <2> DEFINE t == cur[w]
  <2>1. /\ t \in Task /\ pc[w] = "claim" /\ pc[w] \in Before \ Moving
        /\ UNCHANGED <<opened, cur>> /\ handle[w] = "none"
        /\ \A v \in Worker \ {w} : pc'[v] = pc[v]
    BY <1>1, <1>2, <1>12 DEF Claim, Running, Moving, Before, Goto
  <2>2. CASE UNCHANGED <<handle, shared>>
    BY <1>2, <1>4, <2>1, <2>2
  <2>3. CASE /\ shared' = [shared EXCEPT ![t] = TRUE]
             /\ handle' = [handle EXCEPT ![w] = KeyOf[t]]
             /\ pc' = [pc EXCEPT ![w] = "opened"]
    <3>1. Owners' = Owners
      BY <1>1, <2>1, <2>3 DEF Owners
    <3>2. \A v \in Worker : handle'[v] # "none" => pc'[v] \in Moving
      BY <1>1, <1>2, <2>1, <2>3 DEF Moving
    <3>3. ASSUME NEW v \in Worker, handle'[v] = "fresh" PROVE ~shared'[cur'[v]]
      <4>1. v # w
        BY <1>1, <2>1, <2>3, <3>3
      <4>2. handle[v] = "fresh" /\ pc[v] \in Before /\ cur[v] \in Task
        BY <1>1, <1>2, <1>3, <2>3, <3>3, <4>1
      <4>3. cur[v] # t
        BY <2>1, <4>1, <4>2, OneLive
      <4>4. QED BY <1>1, <1>2, <2>1, <2>3, <4>2, <4>3
    <3>4. opened' = Cardinality(Owners')
      BY <1>2, <2>1, <3>1
    <3>5. QED BY <3>2, <3>3, <3>4 DEF Owned
  <2>4. QED BY <1>12, <2>2, <2>3 DEF Claim, Goto
<1>13. ASSUME NEW w \in Worker, ConnectFresh(w) PROVE Owned'
  <2> DEFINE t == cur[w]
  <2>1. /\ t \in Task /\ pc[w] \in Running \ Moving /\ cur' = cur /\ handle[w] = "none"
        /\ \A v \in Worker \ {w} : pc'[v] = pc[v]
    BY <1>1, <1>2, <1>13 DEF ConnectFresh, Running, Moving, Goto
  <2>2. CASE UNCHANGED <<handle, shared, opened>>
    BY <1>2, <1>4, <2>1, <2>2
  <2>3. CASE /\ shared' = [shared EXCEPT ![t] = FALSE]
             /\ handle' = [handle EXCEPT ![w] = "fresh"]
             /\ opened' = opened + 1
             /\ pc' = [pc EXCEPT ![w] = "opened"]
    <3>1. w \notin Owners /\ w \in Owners' /\ Owners \ {w} = Owners' \ {w}
      BY <1>1, <2>1, <2>3 DEF Owners
    <3>2. \A v \in Worker : handle'[v] # "none" => pc'[v] \in Moving
      BY <1>1, <1>2, <2>1, <2>3 DEF Moving
    <3>3. \A v \in Worker : handle'[v] = "fresh" => ~shared'[cur'[v]]
      BY <1>1, <1>2, <1>3, <2>1, <2>3
    <3>4. opened' = Cardinality(Owners')
      <4>1. Cardinality(Owners') = Cardinality(Owners) + 1
        BY <3>1, WorkerStep DEF Owners
      <4>2. QED BY <1>2, <2>3, <4>1
    <3>5. QED BY <3>2, <3>3, <3>4 DEF Owned
  <2>4. QED BY <1>13, <2>2, <2>3 DEF ConnectFresh, Goto
<1>14. ASSUME NEW w \in Worker, Close(w) PROVE Owned'
  <2>1. /\ cur[w] \in Task /\ handle' = [handle EXCEPT ![w] = "none"]
        /\ UNCHANGED <<shared, cur>>
        /\ \A v \in Worker \ {w} : pc'[v] = pc[v]
    BY <1>1, <1>14 DEF Close, Running, Goto
  <2>2. w \notin Owners' /\ Owners \ {w} = Owners' \ {w} /\ (w \in Owners <=> handle[w] = "fresh")
    BY <1>1, <2>1 DEF Owners
  <2>3. \A v \in Worker : handle'[v] # "none" => pc'[v] \in Moving
    BY <1>1, <1>2, <2>1
  <2>4. \A v \in Worker : handle'[v] = "fresh" => ~shared'[cur'[v]]
    BY <1>1, <1>2, <2>1
  <2>5. opened' = Cardinality(Owners')
    <3>1. /\ handle[w] = "fresh" => Cardinality(Owners) = Cardinality(Owners') + 1
          /\ handle[w] # "fresh" => Cardinality(Owners') = Cardinality(Owners)
          /\ Cardinality(Owners') \in Nat
      BY <2>2, WorkerStep DEF Owners
    <3>2. CASE handle[w] = "fresh"
      <4>1. opened' = opened - 1
        BY <1>2, <1>14, <3>2 DEF Close, OwnsHandle
      <4>2. QED BY <1>1, <1>2, <3>1, <3>2, <4>1
    <3>3. CASE handle[w] # "fresh"
      <4>1. opened' = opened
        BY <1>14, <3>3 DEF Close
      <4>2. QED BY <1>2, <3>1, <3>3, <4>1
    <3>4. QED BY <3>2, <3>3
  <2>6. QED BY <2>3, <2>4, <2>5 DEF Owned
<1>15. QED BY <1>5, <1>6, <1>7, <1>8, <1>9, <1>10, <1>11, <1>12, <1>13, <1>14
  DEF Next, MainThread, RunTransferTask, Thread

(* As long as only downloads run, every connection that a transfer opens is  *)
(* closed when the transfer ends, whatever errors and retries it meets.     *)
(* (An upload may leave its connection open before its try block.)          *)
THEOREM ConnectionsClosed ==
  ASSUME OnlyDownloads
  PROVE  Spec => []NoConnectionLeft
<1>1. Init => Owned
  <2> SUFFICES ASSUME Init PROVE Owned
    OBVIOUS
  <2>1. Owners = {}
    BY DEF Init, Owners
  <2>2. QED BY <2>1, FS_EmptySet DEF Init, Owned
<1>2. LedgerInv /\ Owned /\ [Next]_vars => Owned'
  BY OwnedNext
<1>3. Owned => NoConnectionLeft
  BY DEF Owned, NoConnectionLeft
<1>4. QED BY <1>1, <1>2, <1>3, LedgerInvariant, PTL DEF Spec, SafetySpec

-----------------------------------------------------------------------------
(* The refinement.  Who is under way for TransferJobs, and what is left of  *)
(* a task's budget while its run waits to put it back.                      *)
Underway == ToSet(active) \ (ToSet(queue) \cup Ended)
Left(t) == IF Backoff(t) THEN retries[t] + 1 ELSE retries[t]
Budgets == [t \in Task |-> Left(t)]

(* A sequence has no more members than places.                             *)
LEMMA MembersBound ==
  ASSUME NEW S, NEW s \in Seq(S)
  PROVE  IsFiniteSet(ToSet(s)) /\ Cardinality(ToSet(s)) <= Len(s)
         /\ Cardinality(ToSet(s)) \in Nat
<1> DEFINE f == [i \in 1 .. Len(s) |-> s[i]]
<1>1. Len(s) \in Nat /\ ToSet(s) = {s[i] : i \in 1 .. Len(s)}
  BY DEF ToSet
<1>2. /\ IsFiniteSet(1 .. Len(s)) /\ Cardinality(1 .. Len(s)) = Len(s)
  <2>1. 1 \in Int /\ Len(s) \in Int
    BY <1>1
  <2>2. IsFiniteSet(1 .. Len(s)) /\ Cardinality(1 .. Len(s)) = IF 1 > Len(s) THEN 0 ELSE Len(s) - 1 + 1
    BY <2>1, FS_Interval, Zenon
  <2>3. QED BY <2>1, <2>2
<1>3. f \in Surjection(1 .. Len(s), ToSet(s))
  BY <1>1 DEF Surjection
<1>4. IsFiniteSet(ToSet(s)) /\ Cardinality(ToSet(s)) <= Cardinality(1 .. Len(s))
  BY <1>2, <1>3, FS_Surjection, Zenon
<1>5. Cardinality(ToSet(s)) \in Nat
  BY <1>4, FS_CardinalityType
<1>6. QED BY <1>2, <1>4, <1>5

(* The members of two sequences, one after the other.                      *)
LEMMA MembersConcat ==
  ASSUME NEW S, NEW s \in Seq(S), NEW u \in Seq(S)
  PROVE  ToSet(s \o u) = ToSet(s) \cup ToSet(u)
<1>1. \A t : t \in ToSet(s \o u) <=> t \in ToSet(s) \/ t \in ToSet(u)
  <2> TAKE t
  <2>1. /\ Occurrences(s \o u, t) = Occurrences(s, t) + Occurrences(u, t)
        /\ Occurrences(s, t) \in Nat /\ Occurrences(u, t) \in Nat
    <3>1. Occurrences(s \o u, t) = Occurrences(s, t) + Occurrences(u, t)
      BY OccurrencesConcat
    <3>2. Occurrences(s, t) \in Nat /\ Occurrences(u, t) \in Nat
      BY OccurrencesType, Zenon
    <3>3. QED BY <3>1, <3>2
  <2>2. /\ Occurrences(s \o u, t) = 0 <=> t \notin ToSet(s \o u)
        /\ Occurrences(s, t) = 0 <=> t \notin ToSet(s)
        /\ Occurrences(u, t) = 0 <=> t \notin ToSet(u)
    <3>1. s \o u \in Seq(S)
      OBVIOUS
    <3>2. QED BY <3>1, OccurrencesType, Zenon
  <2> HIDE DEF Occurrences
  <2>3. QED BY <2>1, <2>2
<1>2. QED BY <1>1

LEMMA MembersAppend ==
  ASSUME NEW S, NEW s \in Seq(S), NEW e \in S
  PROVE  ToSet(Append(s, e)) = ToSet(s) \cup {e}
<1>1. <<e>> \in Seq(S)
  OBVIOUS
<1>2. Append(s, e) = s \o <<e>>
  BY AppendIsConcat
<1>3. ToSet(<<e>>) = {e}
  BY DEF ToSet
<1>4. ToSet(s \o <<e>>) = ToSet(s) \cup ToSet(<<e>>)
  BY <1>1, MembersConcat, ZenonT(40)
<1>5. QED BY <1>2, <1>3, <1>4

LEMMA MembersPut ==
  ASSUME NEW S, NEW s \in Seq(S), NEW e \in S
  PROVE  ToSet(<<e>> \o s) = ToSet(s) \cup {e}
<1>1. <<e>> \in Seq(S)
  OBVIOUS
<1>2. ToSet(<<e>>) = {e}
  BY DEF ToSet
<1>3. ToSet(<<e>> \o s) = ToSet(<<e>>) \cup ToSet(s)
  BY <1>1, MembersConcat, ZenonT(40)
<1>4. QED BY <1>2, <1>3

(* A task on the list stands there once, nobody works on it and it has not  *)
(* ended.                                                                   *)
LEMMA WaitingIsAlone ==
  ASSUME LedgerInv, NEW t \in Task, t \in ToSet(queue)
  PROVE  Occurrences(queue, t) = 1 /\ endings[t] = 0 /\ Asked(t) = 0
<1>1. TypeInv /\ Entry(t)
  BY DEF LedgerInv, Ledger
<1>2. /\ Asked(t) \in Nat /\ Occurrences(queue, t) \in Nat /\ Occurrences(pool, t) \in Nat
      /\ Handed(toStart, t) \in Nat /\ Lives(t) \in Nat /\ endings[t] \in Nat
  BY <1>1, CountsType
<1>3. Occurrences(queue, t) # 0
  BY <1>1, OccurrencesType, Zenon DEF TypeInv, TypeOK, ListsOK
<1>4. /\ Asked(t) + Occurrences(queue, t) + Occurrences(pool, t) + Handed(toStart, t)
           + Lives(t) + endings[t] <= Sent(t)
      /\ Sent(t) \in {0, 1}
  BY <1>1 DEF Entry, Tokens, Sent
<1>5. QED BY <1>2, <1>3, <1>4

LEMMA AskedOne ==
  ASSUME NEW m \in Nat, NEW n \in Nat, NEW p \in Nat, NEW q \in Nat, NEW r \in Nat,
         NEW x \in Nat, NEW s \in {0, 1}, m + n + p + q + r + x <= s, m # 0
  PROVE  n = 0 /\ x = 0
OBVIOUS

(* The other half of the same: a task waiting for its intent.              *)
LEMMA AskedIsAlone ==
  ASSUME LedgerInv, NEW t \in Task, Asked(t) # 0
  PROVE  Occurrences(queue, t) = 0 /\ endings[t] = 0 /\ Occurrences(active, t) = 0
<1>1. TypeInv /\ Entry(t) /\ Placed
  BY DEF LedgerInv, Ledger
<1>2. /\ Asked(t) \in Nat /\ Occurrences(queue, t) \in Nat /\ Occurrences(pool, t) \in Nat
      /\ Handed(toStart, t) \in Nat /\ Lives(t) \in Nat /\ endings[t] \in Nat
      /\ Overs(t) \in Nat /\ Backs(t) \in Nat
  BY <1>1, CountsType
<1>3. /\ Asked(t) + Occurrences(queue, t) + Occurrences(pool, t) + Handed(toStart, t)
           + Lives(t) + endings[t] <= Sent(t)
      /\ Sent(t) \in {0, 1}
  BY <1>1 DEF Entry, Tokens, Sent
<1>4. Occurrences(queue, t) = 0 /\ endings[t] = 0
  <2>1. /\ Asked(t) \in Nat /\ Occurrences(queue, t) \in Nat /\ Occurrences(pool, t) \in Nat
        /\ Handed(toStart, t) \in Nat /\ Lives(t) \in Nat /\ endings[t] \in Nat
    BY <1>2
  <2>2. QED BY <1>3, <2>1, AskedOne, SMTT(60)
<1>5. Overs(t) = 0
  BY <1>1, <1>2, <1>4 DEF Entry
<1>6. Backs(t) = 0
  BY <1>1, <1>2 DEF Entry
<1>7. Occurrences(active, t) = 0
  BY <1>1, <1>2, <1>5, <1>6 DEF Entry
<1>8. QED BY <1>4, <1>7

(* A step that leaves the lists, the ends and the retries alone, and keeps  *)
(* every worker that waits for its retry where it is, is a stutter.         *)
LEMMA Stutter ==
  ASSUME UNCHANGED <<queue, active, endings, retries>>,
         \A w \in Worker : pc[w] = "backoff" <=> pc'[w] = "backoff",
         \A w \in Worker : pc[w] = "backoff" => cur'[w] = cur[w]
  PROVE  UNCHANGED <<queue, Underway, Ended, Budgets>>
<1>1. \A t \in Task : Backoff(t)' <=> Backoff(t)
  BY DEF Backoff
<1>2. Ended' = Ended
  BY DEF Ended
<1>3. Underway' = Underway
  BY <1>2 DEF Underway
<1>4. Budgets' = Budgets
  BY <1>1 DEF Budgets, Left
<1>5. QED BY <1>2, <1>3, <1>4

(* The intent of a task is received: TransferJobs submits it.              *)
LEMMA RefineEnqueue ==
  ASSUME LedgerInv, OnEnqueue
  PROVE  \E j \in Task :
           /\ j \notin ToSet(queue) \cup Underway \cup Ended
           /\ queue' = Append(queue, j)
           /\ UNCHANGED <<Underway, Ended, Budgets>>
<1> DEFINE j == Head(inbox).task
<1>1. /\ TypeInv /\ Placed /\ ThreadsOK /\ inbox \in Seq(Message) /\ queue \in Seq(Task)
      /\ active \in Seq(Task) /\ inbox # <<>> /\ Head(inbox).kind = "enqueue"
      /\ queue' = Append(queue, j)
      /\ UNCHANGED <<active, endings, retries, cur>>
      /\ pc' = [pc EXCEPT ![Main] = "fill"]
  BY DEF LedgerInv, TypeInv, TypeOK, ServiceOK, ListsOK, OnEnqueue, Receive, historyVars,
         taskVars, localVars
<1>2. j \in Task
  BY <1>1, SMTT(40) DEF Message
<1>3. Asked(j) # 0
  <2>1. Occurrences(Tail(inbox), [kind |-> "enqueue", task |-> j]) \in Nat
    BY <1>1, HeadTailProperties, OccurrencesType, Zenon
  <2>2. Asked(j) = Occurrences(Tail(inbox), [kind |-> "enqueue", task |-> j]) + Same(j, j)
    BY <1>1, <1>2, InboxCounts
  <2>3. QED BY <2>1, <2>2 DEF Same
<1>4. Occurrences(queue, j) = 0 /\ endings[j] = 0 /\ Occurrences(active, j) = 0
  BY <1>2, <1>3, AskedIsAlone
<1>5. j \notin ToSet(queue) /\ j \notin ToSet(active) /\ j \notin Ended
  <2>1. j \notin ToSet(queue) /\ j \notin ToSet(active)
    BY <1>1, <1>4, OccurrencesType, Zenon
  <2>2. QED BY <1>4, <2>1 DEF Ended
<1>6. ToSet(queue') = ToSet(queue) \cup {j}
  <2> HIDE DEF j
  <2>1. ASSUME NEW q \in Seq(Task), NEW u \in Task PROVE ToSet(Append(q, u)) = ToSet(q) \cup {u}
    BY MembersAppend
  <2>2. QED BY <1>1, <1>2, <2>1, Zenon
<1>7. Main \notin Worker
  BY ConstantsAssumption DEF ConstantsAssumption
<1> HIDE DEF j
<1>8. Ended' = Ended
  BY <1>1 DEF Ended
<1>9. Underway' = Underway
  BY <1>1, <1>5, <1>6, <1>8 DEF Underway
<1>10. \A t \in Task : Backoff(t)' <=> Backoff(t)
  BY <1>1, <1>7 DEF Backoff, ThreadsOK, Thread
<1>11. Budgets' = Budgets
  BY <1>1, <1>10 DEF Budgets, Left
<1>12. QED BY <1>1, <1>2, <1>5, <1>8, <1>9, <1>11 DEF Underway

(* The slots are filled: TransferJobs starts the first jobs of the line, or *)
(* nothing happens when nothing waits or no slot is free.                   *)
LEMMA RefineFill ==
  ASSUME LedgerInv, LedgerInv', NEW th \in Thread, Fill(th)
  PROVE  \/ UNCHANGED <<queue, Underway, Ended, Budgets>>
         \/ \E n \in 1 .. MAX_PARALLEL_TRANSFERS :
              /\ n <= Len(queue)
              /\ Underway' = Underway \cup ToSet(SubSeq(queue, 1, n))
              /\ Cardinality(Underway') <= MAX_PARALLEL_TRANSFERS
              /\ queue' = SubSeq(queue, n + 1, Len(queue))
              /\ UNCHANGED <<Ended, Budgets>>
<1>1. /\ TypeInv /\ Placed /\ ThreadsOK /\ ListsOK /\ SlotsAndPrimary
      /\ queue \in Seq(Task) /\ active \in Seq(Task)
      /\ active' \in Seq(Task) /\ Len(active') <= MAX_PARALLEL_TRANSFERS
      /\ MAX_PARALLEL_TRANSFERS \in Nat
  BY ConstantsAssumption
  DEF LedgerInv, TypeInv, TypeOK, ListsOK, SlotsAndPrimary, ConstantsAssumption
<1>2. UNCHANGED <<endings, retries, cur>> /\ pc[th] = "fill"
  BY DEF Fill, historyVars, taskVars
<1>3. Ended' = Ended
  BY <1>2 DEF Ended
<1>4. ASSUME NEW p \in {"idle", "notify", "peek"}, pc' = [pc EXCEPT ![th] = p]
      PROVE  Budgets' = Budgets
  <2>1. \A w \in Worker : pc[w] = "backoff" <=> pc'[w] = "backoff"
    BY <1>1, <1>2, <1>4 DEF ThreadsOK, Thread
  <2>2. \A t \in Task : Backoff(t)' <=> Backoff(t)
    BY <1>2, <2>1 DEF Backoff
  <2>3. QED BY <1>2, <2>2 DEF Budgets, Left
<1>5. CASE /\ UNCHANGED <<queue, active>> /\ pc' = [pc EXCEPT ![th] = "idle"]
  BY <1>3, <1>4, <1>5 DEF Underway
<1>6. ASSUME NEW next \in Seq(Task), queue' \in Seq(Task), queue = next \o queue',
             next = SubSeq(queue, 1, Len(next)), Len(next) \in 0 .. Len(queue),
             queue' = SubSeq(queue, Len(next) + 1, Len(queue)),
             active' = active \o next, Len(next) <= MAX_PARALLEL_TRANSFERS,
             NEW p \in {"notify", "peek"}, pc' = [pc EXCEPT ![th] = p]
      PROVE  \/ UNCHANGED <<queue, Underway, Ended, Budgets>>
             \/ \E n \in 1 .. MAX_PARALLEL_TRANSFERS :
                  /\ n <= Len(queue)
                  /\ Underway' = Underway \cup ToSet(SubSeq(queue, 1, n))
                  /\ Cardinality(Underway') <= MAX_PARALLEL_TRANSFERS
                  /\ queue' = SubSeq(queue, n + 1, Len(queue))
                  /\ UNCHANGED <<Ended, Budgets>>
  <2>1. Budgets' = Budgets
    BY <1>4, <1>6
  <2>2. CASE Len(next) = 0
    <3>1. next = <<>>
      BY <2>2, EmptySeq, Zenon
    <3>2. queue' = queue /\ active' = active
      BY <1>1, <1>6, <3>1, ConcatEmptySeq, Zenon
    <3>3. QED BY <1>3, <2>1, <3>2 DEF Underway
  <2>3. CASE Len(next) # 0
    <3>1. /\ ToSet(active') = ToSet(active) \cup ToSet(next)
          /\ ToSet(queue) = ToSet(next) \cup ToSet(queue')
      <4>1. ASSUME NEW a \in Seq(Task), NEW b \in Seq(Task)
            PROVE  ToSet(a \o b) = ToSet(a) \cup ToSet(b)
        BY MembersConcat
      <4>2. ToSet(active \o next) = ToSet(active) \cup ToSet(next)
        BY <1>1, <1>6, <4>1, Zenon
      <4>3. ToSet(next \o queue') = ToSet(next) \cup ToSet(queue')
        BY <1>6, <4>1, Zenon
      <4>4. QED BY <1>6, <4>2, <4>3, Zenon
    <3>2. ASSUME NEW t \in ToSet(next) PROVE t \notin ToSet(queue') /\ t \notin Ended
      <4>1. t \in ToSet(queue) /\ t \in Task
        <5>1. \A s \in Seq(Task) : ToSet(s) \subseteq Task
          BY DEF ToSet
        <5>2. QED BY <1>6, <3>1, <5>1
      <4>2. Occurrences(queue, t) = 1 /\ endings[t] = 0
        BY <4>1, WaitingIsAlone
      <4>3. Occurrences(next \o queue', t) = Occurrences(next, t) + Occurrences(queue', t)
        <5>1. ASSUME NEW a \in Seq(Task), NEW b \in Seq(Task)
              PROVE  Occurrences(a \o b, t) = Occurrences(a, t) + Occurrences(b, t)
          BY OccurrencesConcat
        <5>2. QED BY <1>6, <5>1, Zenon
      <4>4. /\ Occurrences(next, t) \in Nat /\ Occurrences(queue', t) \in Nat
            /\ Occurrences(next, t) = 0 <=> t \notin ToSet(next)
            /\ Occurrences(queue', t) = 0 <=> t \notin ToSet(queue')
        BY <1>6, OccurrencesType, Zenon
      <4>5. Occurrences(next \o queue', t) = 1
        BY <1>6, <4>2, Zenon
      <4>6. Occurrences(next, t) # 0
        BY <3>2, <4>4, Zenon
      <4>7. Occurrences(queue', t) = 0
        BY <4>3, <4>4, <4>5, <4>6
      <4>8. t \notin Ended
        BY <4>2 DEF Ended
      <4>9. QED BY <4>4, <4>7, <4>8, Zenon
    <3>3. Underway' = Underway \cup ToSet(next)
      BY <1>3, <3>1, <3>2 DEF Underway
    <3>4. Cardinality(Underway') <= MAX_PARALLEL_TRANSFERS
      <4>1. /\ IsFiniteSet(ToSet(active')) /\ Cardinality(ToSet(active')) <= Len(active')
            /\ Cardinality(ToSet(active')) \in Nat
        BY <1>1, MembersBound, Zenon
      <4>2. Underway' \subseteq ToSet(active')
        BY DEF Underway
      <4>3. /\ IsFiniteSet(Underway') /\ Cardinality(Underway') <= Cardinality(ToSet(active'))
            /\ Cardinality(Underway') \in Nat
        BY <4>1, <4>2, FS_Subset, FS_CardinalityType, Zenon
      <4>4. Len(active') \in Nat
        BY <1>1
      <4>5. QED BY <1>1, <4>1, <4>3, <4>4
    <3>5. Len(next) \in 1 .. MAX_PARALLEL_TRANSFERS /\ Len(next) <= Len(queue)
      <4>1. Len(next) \in Nat /\ Len(queue) \in Nat
        BY <1>1, <1>6
      <4>2. QED BY <1>1, <1>6, <2>3, <4>1
    <3>6. Underway' = Underway \cup ToSet(SubSeq(queue, 1, Len(next)))
      BY <1>6, <3>3, Zenon
    <3>7. QED BY <1>3, <1>6, <2>1, <3>4, <3>5, <3>6, Zenon
  <2>4. QED BY <2>2, <2>3
<1>7. QED BY <1>1, <1>5, <1>6, FillSplits

(* A run reports: TransferJobs ends the job, or nothing happens yet when    *)
(* the run is going to put its task back.                                   *)
LEMMA RefineReport ==
  ASSUME LedgerInv, NEW w \in Worker, Report(w)
  PROVE  \/ UNCHANGED <<queue, Underway, Ended, Budgets>>
         \/ \E j \in Task :
              /\ j \in Underway
              /\ Underway' = Underway \ {j}
              /\ Ended' = Ended \cup {j}
              /\ UNCHANGED <<queue, Budgets>>
<1>1. /\ TypeInv /\ Placed /\ ThreadsOK /\ TasksOK /\ pc[w] = "report"
      /\ endings \in [Task -> Nat] /\ retries \in [Task -> 0 .. DEFAULT_RETRIES]
      /\ DEFAULT_RETRIES \in Nat /\ queue \in Seq(Task) /\ active \in Seq(Task)
  BY ConstantsAssumption
  DEF LedgerInv, TypeInv, TypeOK, TasksOK, ListsOK, Report, ConstantsAssumption
<1>2. PICK t \in Task : t = cur[w] /\ t \in ToSet(active)
  BY <1>1, RunsHoldSlots DEF Running
<1>3. /\ retries' = [retries EXCEPT ![t] = IF RetryAgain(w) THEN @ - 1 ELSE @]
      /\ endings' = [endings EXCEPT ![t] = Events(@, RetryAgain(w))]
      /\ pc' = [pc EXCEPT ![w] = IF RetryAgain(w) THEN "backoff" ELSE "release"]
      /\ UNCHANGED <<queue, active, cur>>
  BY <1>2 DEF Report, Goto, localVars, listVars
<1>4. Lives(t) # 0
  <2>1. w \in Live(t)
    BY <1>1, <1>2 DEF Live, Before, Running
  <2>2. Live(t) \in SUBSET Worker
    BY DEF Live
  <2>3. IsFiniteSet(Live(t)) /\ Live(t) # {}
    BY <2>1, <2>2, ConstantsAssumption, FS_Subset DEF ConstantsAssumption
  <2>4. QED BY <2>3, FS_EmptySet, Zenon DEF Lives
<1>5. Occurrences(queue, t) = 0 /\ endings[t] = 0
  BY <1>1, <1>2, <1>4, LiveIsAlone DEF LedgerInv, Ledger
<1>6. t \notin ToSet(queue)
  BY <1>1, <1>5, OccurrencesType, Zenon
<1>7. t \in Underway
  BY <1>2, <1>5, <1>6 DEF Underway, Ended
<1>8. \A v \in Worker : pc[v] = "backoff" => cur[v] # t
  <2> SUFFICES ASSUME NEW v \in Worker, pc[v] = "backoff", cur[v] = t PROVE FALSE
    OBVIOUS
  <2>1. v = w
    BY <1>1, <1>2, OneLive DEF Before, Running
  <2>2. QED BY <1>1, <2>1
<1>9. ~Backoff(t)
  BY <1>8 DEF Backoff
<1>10. \A u \in Task \ {t} : Backoff(u)' <=> Backoff(u)
  BY <1>1, <1>2, <1>3 DEF Backoff, ThreadsOK, Thread
<1>11. /\ \A u \in Task \ {t} : retries'[u] = retries[u] /\ endings'[u] = endings[u]
       /\ retries'[t] = IF RetryAgain(w) THEN retries[t] - 1 ELSE retries[t]
       /\ endings'[t] = IF RetryAgain(w) THEN endings[t] ELSE endings[t] + 1
  BY <1>1, <1>2, <1>3 DEF Events
<1>12. CASE RetryAgain(w)
  <2>1. Backoff(t)'
    BY <1>1, <1>2, <1>3, <1>12 DEF Backoff, ThreadsOK, Thread
  <2>2. Left(t)' = Left(t)
    <3>1. retries[t] \in Int
      BY <1>1, <1>2
    <3>2. QED BY <1>9, <1>11, <1>12, <2>1, <3>1 DEF Left
  <2>3. \A u \in Task : Left(u)' = Left(u)
    BY <1>10, <1>11, <2>2 DEF Left
  <2>4. Budgets' = Budgets
    BY <2>3 DEF Budgets
  <2>5. Ended' = Ended
    BY <1>11, <1>12 DEF Ended
  <2>6. QED BY <1>3, <2>4, <2>5 DEF Underway
<1>13. CASE ~RetryAgain(w)
  <2>1. ~Backoff(t)'
    BY <1>1, <1>2, <1>3, <1>8, <1>13 DEF Backoff, ThreadsOK, Thread
  <2>2. \A u \in Task : Left(u)' = Left(u)
    BY <1>9, <1>10, <1>11, <1>13, <2>1 DEF Left
  <2>3. Budgets' = Budgets
    BY <2>2 DEF Budgets
  <2>4. Ended' = Ended \cup {t}
    BY <1>1, <1>2, <1>5, <1>11, <1>13 DEF Ended
  <2>5. Underway' = Underway \ {t}
    BY <1>3, <2>4 DEF Underway
  <2>6. QED BY <1>3, <1>2, <1>7, <2>3, <2>4, <2>5
<1>14. QED BY <1>12, <1>13

(* A run puts its task back at the head of the line.                       *)
LEMMA RefineRequeue ==
  ASSUME LedgerInv, NEW w \in Worker, Requeue(w)
  PROVE  \E j \in Task :
           /\ j \in Underway
           /\ Budgets[j] > 0
           /\ Budgets' = [Budgets EXCEPT ![j] = @ - 1]
           /\ Underway' = Underway \ {j}
           /\ queue' = <<j>> \o queue
           /\ UNCHANGED Ended
<1>1. /\ TypeInv /\ Placed /\ ThreadsOK /\ TasksOK /\ pc[w] = "backoff"
      /\ retries \in [Task -> 0 .. DEFAULT_RETRIES]
      /\ DEFAULT_RETRIES \in Nat /\ queue \in Seq(Task) /\ active \in Seq(Task)
  BY ConstantsAssumption
  DEF LedgerInv, TypeInv, TypeOK, TasksOK, ListsOK, Requeue, ConstantsAssumption
<1>2. PICK t \in Task : t = cur[w] /\ t \in ToSet(active)
  BY <1>1, RunsHoldSlots DEF Running
<1>3. /\ queue' = <<t>> \o queue
      /\ pc' = [pc EXCEPT ![w] = "release"]
      /\ UNCHANGED <<active, cur, endings, retries>>
  BY <1>2 DEF Requeue, Goto, taskVars, historyVars
<1>4. Lives(t) # 0
  <2>1. w \in Live(t)
    BY <1>1, <1>2 DEF Live, Before, Running
  <2>2. Live(t) \in SUBSET Worker
    BY DEF Live
  <2>3. IsFiniteSet(Live(t)) /\ Live(t) # {}
    BY <2>1, <2>2, ConstantsAssumption, FS_Subset DEF ConstantsAssumption
  <2>4. QED BY <2>3, FS_EmptySet, Zenon DEF Lives
<1>5. Occurrences(queue, t) = 0 /\ endings[t] = 0
  BY <1>1, <1>4, LiveIsAlone DEF LedgerInv, Ledger
<1>6. t \notin ToSet(queue)
  BY <1>1, <1>5, OccurrencesType, Zenon
<1>7. t \in Underway
  BY <1>2, <1>5, <1>6 DEF Underway, Ended
<1>8. Ended' = Ended
  BY <1>3 DEF Ended
<1>9. Underway' = Underway \ {t}
  <2>1. ToSet(<<t>> \o queue) = ToSet(queue) \cup {t}
    <3>1. ASSUME NEW q \in Seq(Task) PROVE ToSet(<<t>> \o q) = ToSet(q) \cup {t}
      BY MembersPut
    <3>2. QED BY <1>1, <3>1, Zenon
  <2>2. ToSet(queue') = ToSet(queue) \cup {t}
    BY <1>3, <2>1, Zenon
  <2>3. QED BY <1>3, <1>8, <2>2 DEF Underway
<1>10. Backoff(t)
  BY <1>1, <1>2 DEF Backoff
<1>11. \A v \in Worker : pc[v] = "backoff" /\ cur[v] = t => v = w
  BY <1>1, <1>2, OneLive DEF Before, Running
<1>12. ~Backoff(t)'
  BY <1>1, <1>3, <1>11 DEF Backoff, ThreadsOK, Thread
<1>13. \A u \in Task \ {t} : Backoff(u)' <=> Backoff(u)
  BY <1>1, <1>2, <1>3 DEF Backoff, ThreadsOK, Thread
<1>14. /\ Left(t) = retries[t] + 1 /\ Left(t)' = retries[t]
       /\ \A u \in Task \ {t} : Left(u)' = Left(u)
  BY <1>3, <1>10, <1>12, <1>13 DEF Left
<1>15. retries[t] \in Nat
  BY <1>1
<1>16. Budgets[t] > 0
  BY <1>14, <1>15 DEF Budgets
<1>17. Budgets' = [Budgets EXCEPT ![t] = @ - 1]
  <2>1. Left(t)' = Left(t) - 1
    BY <1>14, <1>15
  <2>2. QED BY <1>14, <2>1 DEF Budgets
<1>18. QED BY <1>3, <1>7, <1>8, <1>9, <1>16, <1>17

(* A run leaves activeTransfers: its task has ended, waits on the list, or  *)
(* stands there once more for the run that follows.                        *)
LEMMA RefineLeave ==
  ASSUME LedgerInv, NEW w \in Worker, LeaveActive(w)
  PROVE  UNCHANGED <<queue, Underway, Ended, Budgets>>
<1>1. /\ TypeInv /\ Placed /\ ThreadsOK /\ pc[w] = "remove"
      /\ queue \in Seq(Task) /\ active \in Seq(Task)
  BY DEF LedgerInv, TypeInv, TypeOK, ListsOK, LeaveActive
<1>2. PICK t \in Task : t = cur[w] /\ t \in ToSet(active)
  BY <1>1, RunsHoldSlots DEF Running
<1>3. /\ active' = RemoveFirst(active, t)
      /\ UNCHANGED <<queue, endings, retries>>
      /\ cur' = [cur EXCEPT ![w] = NoTask]
      /\ \E p \in {"announce", "fill", "idle"} : pc' = [pc EXCEPT ![w] = p]
  BY <1>2 DEF LeaveActive, RemoveTask, AfterLeaving, Goto, taskVars, historyVars
<1>4. Ended' = Ended
  BY <1>3 DEF Ended
<1>5. \A u \in Task : Backoff(u)' <=> Backoff(u)
  BY <1>1, <1>3 DEF Backoff, ThreadsOK, Thread
<1>6. Budgets' = Budgets
  BY <1>3, <1>5 DEF Budgets, Left
<1>7. /\ ToSet(active') \subseteq ToSet(active)
      /\ ToSet(active) \ {t} \subseteq ToSet(active')
  <2>1. /\ ToSet(RemoveFirst(active, t)) \subseteq ToSet(active)
        /\ ToSet(active) \ {t} \subseteq ToSet(RemoveFirst(active, t))
    BY <1>1, RemoveFirstFacts, Zenon
  <2>2. QED BY <1>3, <2>1, Zenon
<1>8. ASSUME t \notin ToSet(queue), t \notin Ended PROVE t \in ToSet(active')
  <2>1. Entry(t)
    BY DEF LedgerInv, Ledger
  <2>2. /\ Asked(t) \in Nat /\ Occurrences(active, t) \in Nat
        /\ Overs(t) \in Nat /\ Backs(t) \in Nat /\ endings[t] \in Nat
    BY <1>1, CountsType
  <2>3. endings[t] = 0 /\ Overs(t) = 0
    BY <1>8, <2>1, <2>2 DEF Ended, Entry
  <2>4. w \in Back(t)
    <3>1. w \notin Over(t)
      <4>1. Over(t) \in SUBSET Worker
        BY DEF Over
      <4>2. IsFiniteSet(Over(t))
        BY <4>1, ConstantsAssumption, FS_Subset DEF ConstantsAssumption
      <4>3. Over(t) = {}
        BY <2>3, <4>2, FS_EmptySet, Zenon DEF Overs
      <4>4. QED BY <4>3
    <3>2. QED BY <1>1, <1>2, <3>1 DEF Over, Back, ThreadsOK
  <2>5. Backs(t) # 0
    <3>1. Back(t) \in SUBSET Worker
      BY DEF Back
    <3>2. IsFiniteSet(Back(t)) /\ Back(t) # {}
      BY <2>4, <3>1, ConstantsAssumption, FS_Subset DEF ConstantsAssumption
    <3>3. QED BY <3>2, FS_EmptySet, Zenon DEF Backs
  <2>6. t \in sent /\ Asked(t) = 0
    BY <2>1, <2>2, <2>5 DEF Entry
  <2>7. Occurrences(queue, t) = 0
    BY <1>1, <1>8, OccurrencesType, Zenon
  <2>8. Occurrences(active, t) = Backs(t) + 1
    BY <2>1, <2>2, <2>3, <2>6, <2>7 DEF Entry
  <2>9. Occurrences(RemoveFirst(active, t), t) + Same(t, t) = Occurrences(active, t)
    BY <1>1, <1>2, OccurrencesRemoved, Zenon
  <2>10. RemoveFirst(active, t) \in Seq(Task)
    BY <1>1, RemoveFirstFacts, Zenon
  <2>11. /\ Occurrences(RemoveFirst(active, t), t) \in Nat
         /\ Occurrences(RemoveFirst(active, t), t) = 0 <=> t \notin ToSet(RemoveFirst(active, t))
    BY <2>10, OccurrencesType, Zenon
  <2>12. Occurrences(RemoveFirst(active, t), t) # 0
    BY <2>2, <2>5, <2>8, <2>9, <2>11 DEF Same
  <2>13. QED BY <1>3, <2>11, <2>12, Zenon
<1>9. Underway' = Underway
  BY <1>3, <1>4, <1>7, <1>8 DEF Underway
<1>10. QED BY <1>3, <1>4, <1>6, <1>9

(* Every step of the service is a step of TransferJobs, or none.            *)
LEMMA RefineNext ==
  ASSUME LedgerInv, LedgerInv', [Next]_vars
  PROVE  \/ UNCHANGED <<queue, Underway, Ended, Budgets>>
         \/ \E j \in Task :
              /\ j \notin ToSet(queue) \cup Underway \cup Ended
              /\ queue' = Append(queue, j)
              /\ UNCHANGED <<Underway, Ended, Budgets>>
         \/ \E n \in 1 .. MAX_PARALLEL_TRANSFERS :
              /\ n <= Len(queue)
              /\ Underway' = Underway \cup ToSet(SubSeq(queue, 1, n))
              /\ Cardinality(Underway') <= MAX_PARALLEL_TRANSFERS
              /\ queue' = SubSeq(queue, n + 1, Len(queue))
              /\ UNCHANGED <<Ended, Budgets>>
         \/ \E j \in Task :
              /\ j \in Underway
              /\ Underway' = Underway \ {j}
              /\ Ended' = Ended \cup {j}
              /\ UNCHANGED <<queue, Budgets>>
         \/ \E j \in Task :
              /\ j \in Underway
              /\ Budgets[j] > 0
              /\ Budgets' = [Budgets EXCEPT ![j] = @ - 1]
              /\ Underway' = Underway \ {j}
              /\ queue' = <<j>> \o queue
              /\ UNCHANGED Ended
<1>1. /\ ThreadsOK /\ Main \notin Worker /\ Main \in Thread /\ Worker \subseteq Thread
  BY ConstantsAssumption DEF LedgerInv, TypeInv, TypeOK, Thread, ConstantsAssumption
<1> USE DEF taskVars, localVars, listVars, uiVars, serviceVars, worldVars, historyVars
<1>2. CASE User \/ Terminals \/ OnStop \/ OnDestroy \/ UNCHANGED vars
  <2>1. UNCHANGED <<queue, active, endings, retries, pc, cur>>
    BY <1>2 DEF Terminals, User, OnStop, OnDestroy, OpenTerminal, CloseTerminal,
                EnqueueTransfer, SendControl, vars
  <2>2. QED BY <2>1, Stutter, Zenon
<1>3. CASE OnEnqueue
  BY <1>3, RefineEnqueue, Zenon
<1>4. CASE OnCancel \/ RequestCancel
  <2>1. /\ UNCHANGED <<queue, active, endings, retries>>
        /\ \A w \in Worker : pc'[w] = pc[w] /\ cur'[w] = cur[w]
    BY <1>1, <1>4 DEF OnCancel, RequestCancel, ThreadsOK
  <2>2. QED BY <2>1, Stutter, Zenon
<1>5. ASSUME NEW th \in Thread, Peek(th) \/ Notify(th) \/ Dispatch(th)
      PROVE  UNCHANGED <<queue, Underway, Ended, Budgets>>
  <2>1. UNCHANGED <<queue, active, endings, retries, cur>>
    BY <1>5 DEF Peek, Notify, Dispatch
  <2>2. \A w \in Worker : pc[w] = "backoff" <=> pc'[w] = "backoff"
    BY <1>1, <1>5 DEF Peek, Notify, Dispatch, ThreadsOK
  <2>3. QED BY <2>1, <2>2, Stutter, Zenon
<1>6. ASSUME NEW w \in Worker,
             \/ Take(w) \/ Begin(w) \/ Connect(w) \/ Claim(w) \/ ConnectFresh(w) \/ Prepare(w)
             \/ Progress(w) \/ EndMoving(w) \/ Close(w) \/ ReleaseSharedHandle(w)
      PROVE  UNCHANGED <<queue, Underway, Ended, Budgets>>
  <2>1. UNCHANGED <<queue, active, endings, retries>>
    BY <1>6 DEF Take, Begin, Connect, Claim, ConnectFresh, Prepare, Progress, EndMoving, Close,
                ReleaseSharedHandle
  <2>2. /\ pc[w] # "backoff" /\ pc'[w] # "backoff"
        /\ \A v \in Worker \ {w} : pc'[v] = pc[v] /\ cur'[v] = cur[v]
    <3>1. CASE Take(w) \/ Begin(w) \/ Connect(w) \/ Claim(w) \/ ConnectFresh(w)
      BY <1>1, <3>1 DEF Take, Begin, Connect, Claim, ConnectFresh, ThreadsOK, Goto
    <3>2. CASE Prepare(w) \/ Progress(w) \/ EndMoving(w) \/ Close(w) \/ ReleaseSharedHandle(w)
      BY <1>1, <3>2 DEF Prepare, Progress, EndMoving, Close, ReleaseSharedHandle, ThreadsOK, Goto
    <3>3. QED BY <1>6, <3>1, <3>2
  <2>3. /\ \A v \in Worker : pc[v] = "backoff" <=> pc'[v] = "backoff"
        /\ \A v \in Worker : pc[v] = "backoff" => cur'[v] = cur[v]
    BY <2>2
  <2>4. QED BY <2>1, <2>3, Stutter, Zenon
<1>7. CASE \E th \in Thread : Fill(th)
  BY <1>7, RefineFill, Zenon
<1>8. CASE \E w \in Worker : Report(w)
  BY <1>8, RefineReport, Zenon
<1>9. CASE \E w \in Worker : Requeue(w)
  BY <1>9, RefineRequeue, Zenon
<1>10. CASE \E w \in Worker : LeaveActive(w)
  BY <1>10, RefineLeave, Zenon
<1>11. \/ User \/ Terminals \/ OnStop \/ OnDestroy \/ UNCHANGED vars
       \/ OnEnqueue \/ OnCancel \/ RequestCancel
       \/ \E th \in Thread : Fill(th) \/ Peek(th) \/ Notify(th) \/ Dispatch(th)
       \/ \E w \in Worker :
            \/ Take(w) \/ Begin(w) \/ Connect(w) \/ Claim(w) \/ ConnectFresh(w) \/ Prepare(w)
            \/ Progress(w) \/ EndMoving(w) \/ Close(w) \/ ReleaseSharedHandle(w)
            \/ Report(w) \/ Requeue(w) \/ LeaveActive(w)
  BY <1>1 DEF Next, MainThread, RunTransferTask, ProcessNextTransfer
<1>12. QED BY <1>2, <1>3, <1>4, <1>5, <1>6, <1>7, <1>8, <1>9, <1>10, <1>11, Zenon

(* The service, with its threads, locks and retries, does what TransferJobs  *)
(* says and nothing else: jobs start in order and within the limit, a job   *)
(* is put back only while it is under way and within its budget, and it     *)
(* ends once.                                                               *)
THEOREM JobsImplemented == Spec => ImplementsJobs
<1>1. Init => Jobs!Init
  BY DEF Init, Jobs!Init, Ended, Backoff, ToSet, Thread
<1>2. LedgerInv /\ LedgerInv' /\ [Next]_vars => [Jobs!Next]_(Jobs!vars)
  <2> SUFFICES ASSUME LedgerInv, LedgerInv', [Next]_vars PROVE [Jobs!Next]_(Jobs!vars)
    OBVIOUS
  <2>1. /\ \A s : Jobs!ToSet(s) = ToSet(s)
        /\ \A S : Jobs!Cardinality(S) = Cardinality(S)
    BY DEF Jobs!ToSet, ToSet, Jobs!Cardinality, Cardinality
  <2>2. CASE UNCHANGED <<queue, Underway, Ended, Budgets>>
    BY <2>2 DEF Jobs!vars, Underway, Budgets, Left
  <2>3. ASSUME NEW j \in Task,
               j \notin ToSet(queue) \cup Underway \cup Ended,
               queue' = Append(queue, j),
               UNCHANGED <<Underway, Ended, Budgets>>
        PROVE  Jobs!Submit(j)
    <3>1. /\ Underway = ToSet(active) \ (ToSet(queue) \cup Ended)
          /\ Budgets = [t \in Task |-> IF Backoff(t) THEN retries[t] + 1 ELSE retries[t]]
          /\ Underway' = (ToSet(active) \ (ToSet(queue) \cup Ended))'
          /\ Budgets' = [t \in Task |-> IF Backoff(t) THEN retries[t] + 1 ELSE retries[t]]'
      BY DEF Underway, Budgets, Left
    <3>2. QED BY <2>1, <2>3, <3>1, Zenon DEF Jobs!Submit
  <2>4. ASSUME NEW n \in 1 .. MAX_PARALLEL_TRANSFERS,
               n <= Len(queue),
               Underway' = Underway \cup ToSet(SubSeq(queue, 1, n)),
               Cardinality(Underway') <= MAX_PARALLEL_TRANSFERS,
               queue' = SubSeq(queue, n + 1, Len(queue)),
               UNCHANGED <<Ended, Budgets>>
        PROVE  Jobs!Start(n)
    <3>1. /\ Underway = ToSet(active) \ (ToSet(queue) \cup Ended)
          /\ Budgets = [t \in Task |-> IF Backoff(t) THEN retries[t] + 1 ELSE retries[t]]
          /\ Underway' = (ToSet(active) \ (ToSet(queue) \cup Ended))'
          /\ Budgets' = [t \in Task |-> IF Backoff(t) THEN retries[t] + 1 ELSE retries[t]]'
      BY DEF Underway, Budgets, Left
    <3>2. QED BY <2>1, <2>4, <3>1, Zenon DEF Jobs!Start
  <2>5. ASSUME NEW j \in Task,
               j \in Underway,
               Underway' = Underway \ {j},
               Ended' = Ended \cup {j},
               UNCHANGED <<queue, Budgets>>
        PROVE  Jobs!End(j)
    BY <2>5 DEF Jobs!End, Underway, Budgets, Left
  <2>6. ASSUME NEW j \in Task,
               j \in Underway,
               Budgets[j] > 0,
               Budgets' = [Budgets EXCEPT ![j] = @ - 1],
               Underway' = Underway \ {j},
               queue' = <<j>> \o queue,
               UNCHANGED Ended
        PROVE  Jobs!Retry(j)
    BY <2>6 DEF Jobs!Retry, Underway, Budgets, Left
  <2>7. QED BY <2>2, <2>3, <2>4, <2>5, <2>6, RefineNext, Zenon DEF Jobs!Next
<1>3. QED BY <1>1, <1>2, LedgerInvariant, PTL DEF ImplementsJobs, Jobs!Spec, Spec, SafetySpec
=============================================================================
