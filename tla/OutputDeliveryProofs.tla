------------------------ MODULE OutputDeliveryProofs ------------------------
(* For every frame time, number of chunks and number of screens: the state *)
(* of the delivery keeps its type, text never waits in pendingData with a  *)
(* screen that listens and no callback on its way, and no chunk is lost or *)
(* doubled.                                                                *)
(*                                                                         *)
(* PendingIsScheduled is not inductive: when a text joins pendingData,     *)
(* Gather trusts the flag pendingUpdateScheduled instead of looking at the *)
(* queue.  FlagTrue says that the flag may be trusted.  For the chunks,    *)
(* Placed says of each text where it stands and that it is apart from the  *)
(* others, and that a batch callback carries no text of its own.           *)
EXTENDS OutputDelivery, SequenceTheorems, TLAPS

HasBatch(queue) == \E i \in 1 .. Len(queue) : queue[i].kind = "batch"

FlagTrue == pendingUpdateScheduled => HasBatch(looper)

IInv == TypeOK /\ FlagTrue /\ PendingIsScheduled
-----------------------------------------------------------------------------
(* A queue that is put together again around a new element.               *)
LEMMA JoinFacts ==
  ASSUME NEW S, NEW head \in Seq(S), NEW rest \in Seq(S)
  PROVE  /\ head \o rest \in Seq(S) /\ Len(head \o rest) = Len(head) + Len(rest)
         /\ \A i \in 1 .. Len(head) : (head \o rest)[i] = head[i]
         /\ \A i \in Len(head) + 1 .. Len(head) + Len(rest) :
               (head \o rest)[i] = rest[i - Len(head)]
<1>1. /\ head \o rest \in Seq(S)
      /\ Len(head \o rest) = Len(head) + Len(rest)
      /\ \A i \in 1 .. Len(head) + Len(rest) :
            (head \o rest)[i] = IF i <= Len(head) THEN head[i] ELSE rest[i - Len(head)]
  BY ConcatProperties, Zenon
<1>2. Len(head) \in Nat /\ Len(rest) \in Nat
  OBVIOUS
<1>3. ASSUME NEW i \in 1 .. Len(head) PROVE (head \o rest)[i] = head[i]
  BY <1>1, <1>2
<1>4. ASSUME NEW i \in Len(head) + 1 .. Len(head) + Len(rest)
      PROVE  (head \o rest)[i] = rest[i - Len(head)]
  BY <1>1, <1>2
<1>5. QED BY <1>1, <1>3, <1>4

Holds(q, c) == \E j \in 1 .. Len(q) : q[j] = c
Insertion(q, c, k) == SubSeq(q, 1, k) \o <<c>> \o SubSeq(q, k + 1, Len(q))

(* c is in the queue, behind the first k of q.                             *)
Inserted(q, c, k, longer) ==
  /\ Len(longer) = Len(q) + 1 /\ longer[k + 1] = c
  /\ \A i \in 1 .. k : longer[i] = q[i]
  /\ \A i \in k + 1 .. Len(q) : longer[i + 1] = q[i]

(* A callback of the main thread's queue stays in it, in some place, when  *)
(* another one is put in.                                                  *)
LEMMA InsertFacts ==
  ASSUME NEW S, NEW q \in Seq(S), NEW c \in S, NEW k \in 0 .. Len(q),
         NEW longer, longer = Insertion(q, c, k)
  PROVE  /\ longer \in Seq(S)
         /\ Holds(longer, c)
         /\ \A i \in 1 .. Len(q) : Holds(longer, q[i])
         /\ Inserted(q, c, k, longer)
<1> DEFINE front == SubSeq(q, 1, k)
           rest  == SubSeq(q, k + 1, Len(q))
           head  == front \o <<c>>
           r     == head \o rest
<1>0. Len(q) \in Nat /\ k \in Nat /\ k <= Len(q)
  OBVIOUS
<1>1. /\ front \in Seq(S) /\ Len(front) = k
      /\ \A i \in 1 .. k : front[i] = q[i]
  OBVIOUS
<1>2. /\ rest \in Seq(S) /\ Len(rest) = Len(q) - k
      /\ \A i \in 1 .. Len(q) - k : rest[i] = q[k + i]
  <2>1. \A i \in k + 1 .. Len(q) : q[i] \in S
    OBVIOUS
  <2>2. /\ rest \in Seq(S)
        /\ Len(rest) = IF k + 1 <= Len(q) THEN Len(q) - (k + 1) + 1 ELSE 0
        /\ \A i \in 1 .. Len(q) - (k + 1) + 1 : rest[i] = q[k + 1 + i - 1]
    BY <1>0, <2>1, SubSeqProperties
  <2> HIDE DEF rest
  <2>3. Len(q) - (k + 1) + 1 = Len(q) - k /\ \A i \in Int : k + 1 + i - 1 = k + i
    BY <1>0
  <2>4. Len(rest) = Len(q) - k
    BY <1>0, <2>2
  <2>5. ASSUME NEW i \in 1 .. Len(q) - k PROVE rest[i] = q[k + i]
    <3>1. rest[i] = q[k + 1 + i - 1]
      BY <2>2, <2>3
    <3>2. QED BY <2>3, <3>1
  <2>6. QED BY <2>2, <2>4, <2>5
<1> HIDE DEF rest
<1>4. /\ head \in Seq(S) /\ Len(head) = k + 1
      /\ head[k + 1] = c
      /\ \A i \in 1 .. k : head[i] = q[i]
  BY <1>1
<1> HIDE DEF front, head
<1>5. /\ r \in Seq(S) /\ Len(r) = Len(head) + Len(rest)
      /\ \A i \in 1 .. Len(head) : r[i] = head[i]
      /\ \A i \in Len(head) + 1 .. Len(head) + Len(rest) : r[i] = rest[i - Len(head)]
  BY <1>2, <1>4, JoinFacts
<1> HIDE DEF r
<1>6. Len(r) = Len(q) + 1
  BY <1>0, <1>2, <1>4, <1>5
<1>7. r[k + 1] = c /\ \A i \in 1 .. k : r[i] = q[i]
  <2>1. k + 1 \in 1 .. Len(head) /\ \A i \in 1 .. k : i \in 1 .. Len(head)
    BY <1>0, <1>4
  <2>2. QED BY <1>4, <1>5, <2>1
<1>8. ASSUME NEW i \in k + 1 .. Len(q)
      PROVE  r[i + 1] = q[i]
  <2>1. /\ i + 1 \in Len(head) + 1 .. Len(head) + Len(rest)
        /\ i + 1 - Len(head) = i - k /\ i - k \in 1 .. Len(q) - k /\ k + (i - k) = i
    BY <1>0, <1>2, <1>4
  <2>2. r[i + 1] = rest[(i + 1) - Len(head)]
    BY <1>5, <2>1, Zenon
  <2>3. rest[i - k] = q[k + (i - k)]
    BY <1>2, <2>1
  <2>4. QED BY <2>1, <2>2, <2>3
<1>9. Holds(r, c)
  <2>1. k + 1 \in 1 .. Len(r)
    BY <1>0, <1>6
  <2>2. QED BY <1>7, <2>1 DEF Holds
<1>10. ASSUME NEW i \in 1 .. Len(q)
       PROVE  Holds(r, q[i])
  <2>1. CASE i <= k
    <3>1. i \in 1 .. k /\ i \in 1 .. Len(r)
      BY <1>0, <1>6, <2>1
    <3>2. QED BY <1>7, <3>1 DEF Holds
  <2>2. CASE i > k
    <3>1. i \in k + 1 .. Len(q) /\ i + 1 \in 1 .. Len(r)
      BY <1>0, <1>6, <2>2
    <3>2. QED BY <1>8, <3>1 DEF Holds
  <2>3. QED BY <1>0, <2>1, <2>2
<1>11. longer = r
  BY DEF Insertion, r, head, front, rest
<1>12. Inserted(q, c, k, r)
  BY <1>6, <1>7, <1>8 DEF Inserted
<1>13. QED BY <1>5, <1>9, <1>10, <1>11, <1>12

LEMMA PostFacts ==
  ASSUME looper \in Seq(Callback), NEW wait \in 0 .. MIN_FRAME_TIME,
         NEW kind \in {"data", "batch", "flush"}, NEW text \in Text,
         Post(wait, kind, text)
  PROVE  /\ looper' \in Seq(Callback)
         /\ HasBatch(looper) => HasBatch(looper')
         /\ kind = "batch" => HasBatch(looper')
<1> DEFINE c == [wait |-> wait, kind |-> kind, text |-> text]
<1>1. c \in Callback /\ c.kind = kind
  BY DEF Callback
<1>2. PICK k \in 0 .. Len(looper) :
        looper' = Insertion(looper, c, k)
  BY DEF Insertion, Post
<1> HIDE DEF c
<1>3. looper \in Seq(Callback) /\ c \in Callback /\ k \in 0 .. Len(looper)
  BY <1>1
<1>4. ASSUME NEW q \in Seq(Callback), NEW n \in 0 .. Len(q), NEW longer, longer = Insertion(q, c, n)
      PROVE  /\ longer \in Seq(Callback)
             /\ Holds(longer, c)
             /\ \A i \in 1 .. Len(q) : Holds(longer, q[i])
             /\ Inserted(q, c, n, longer)
  BY <1>3, <1>4, InsertFacts
<1>5. /\ looper' \in Seq(Callback)
      /\ Holds(looper', c)
      /\ \A i \in 1 .. Len(looper) : Holds(looper', looper[i])
  BY <1>2, <1>3, <1>4, Zenon
<1>6. HasBatch(looper) => HasBatch(looper')
  BY <1>5, Zenon DEF HasBatch, Holds
<1>7. kind = "batch" => HasBatch(looper')
  BY <1>1, <1>5, Zenon DEF HasBatch, Holds
<1>8. QED BY <1>5, <1>6, <1>7

(* What a callback leaves when it has run.                                 *)
LEMMA RunFacts ==
  ASSUME looper \in Seq(Callback), looper # <<>>, looper' = Tail(looper)
  PROVE  /\ looper' \in Seq(Callback)
         /\ looper[1] \in Callback /\ looper[1].text \in Text
         /\ looper[1].kind # "batch" /\ HasBatch(looper) => HasBatch(looper')
<1>1. /\ looper' \in Seq(Callback) /\ Len(looper') = Len(looper) - 1
      /\ \A i \in 1 .. Len(looper') : looper'[i] = looper[i + 1]
      /\ looper[1] \in Callback
  OBVIOUS
<1>2. looper[1].text \in Text
  BY <1>1 DEF Callback
<1>3. ASSUME looper[1].kind # "batch", NEW i \in 1 .. Len(looper),
             looper[i].kind = "batch"
      PROVE  HasBatch(looper')
  <2>1. i - 1 \in 1 .. Len(looper') /\ looper'[i - 1] = looper[(i - 1) + 1]
    BY <1>1, <1>3
  <2>2. looper'[i - 1].kind = "batch"
    BY <1>3, <2>1
  <2>3. QED BY <2>1, <2>2 DEF HasBatch
<1>4. QED BY <1>1, <1>2, <1>3 DEF HasBatch

(* Texts may be joined and extended.                                       *)
LEMMA TextFacts ==
  ASSUME NEW s \in Text, NEW t \in Text
  PROVE  s \o t \in Text /\ <<>> \in Text
BY DEF Text
-----------------------------------------------------------------------------
(* Whatever leaves pendingData, the flag and the queue alone keeps both    *)
(* parts; so does a step after which nobody listens and the flag stays.    *)
LEMMA Undisturbed ==
  ASSUME FlagTrue, PendingIsScheduled,
         UNCHANGED <<pendingData, pendingUpdateScheduled, looper, listener>>
  PROVE  FlagTrue' /\ PendingIsScheduled'
BY DEF FlagTrue, PendingIsScheduled, HasBatch

LEMMA TickKeeps ==
  ASSUME IInv, Tick
  PROVE  IInv'
<1> USE ConstantsAssumption
<1>1. TypeOK'
  <2>1. \A n \in 0 .. MIN_FRAME_TIME : Later(n) \in 0 .. MIN_FRAME_TIME
    BY DEF Later
  <2>2. \A c \in Callback : Sooner(c) \in Callback
    BY DEF Callback, Sooner
  <2>3. looper' \in Seq(Callback)
    <3>1. looper \in Seq(Callback) /\ Len(looper) \in Nat
      BY DEF IInv, TypeOK
    <3>2. \A i \in 1 .. Len(looper) : Sooner(looper[i]) \in Callback
      BY <2>2, <3>1
    <3>3. looper' = [i \in 1 .. Len(looper) |-> Sooner(looper[i])]
      BY DEF Tick
    <3>4. QED BY <3>1, <3>2, <3>3
  <2>4. /\ sinceDispatch' \in 0 .. MIN_FRAME_TIME
        /\ sinceNow' \in 0 .. MIN_FRAME_TIME
        /\ sinceFrame' \in 0 .. MIN_FRAME_TIME
    BY <2>1 DEF IInv, TypeOK, Tick
  <2>5. QED BY <2>3, <2>4 DEF IInv, TypeOK, Tick, pendingVars, mainVars
<1>2. HasBatch(looper) => HasBatch(looper')
  <2>1. looper' = [i \in 1 .. Len(looper) |-> Sooner(looper[i])]
        /\ looper \in Seq(Callback)
    BY DEF Tick, IInv, TypeOK
  <2>2. Len(looper') = Len(looper)
    BY <2>1
  <2>3. \A i \in 1 .. Len(looper) : looper'[i].kind = looper[i].kind
    <3>1. \A d \in Callback : Sooner(d).kind = d.kind
      BY DEF Sooner, Callback
    <3>2. \A i \in 1 .. Len(looper) : looper[i] \in Callback
      BY <2>1
    <3>3. \A i \in 1 .. Len(looper) : looper'[i] = Sooner(looper[i])
      BY <2>1
    <3>4. QED BY <3>1, <3>2, <3>3
  <2>4. QED BY <2>2, <2>3 DEF HasBatch
<1>3. UNCHANGED <<pendingData, pendingUpdateScheduled, listener>>
  BY DEF Tick, pendingVars, mainVars
<1>4. FlagTrue' /\ PendingIsScheduled'
  BY <1>2, <1>3 DEF IInv, FlagTrue, PendingIsScheduled, HasBatch
<1>5. QED BY <1>1, <1>4 DEF IInv

(* The steps of the read thread before notifyData has decided.             *)
LEMMA ReadKeeps ==
  ASSUME IInv, Read \/ ReadNothing \/ EndLoop \/ NotifyData
  PROVE  IInv'
<1> USE ConstantsAssumption
<1>1. FlagTrue' /\ PendingIsScheduled'
  <2>1. UNCHANGED <<pendingData, pendingUpdateScheduled, looper, listener>>
    BY DEF Read, ReadNothing, EndLoop, NotifyData, pendingVars, mainVars
  <2>2. QED BY <2>1, Undisturbed DEF IInv
<1>2. CASE Read
  <2>1. received' \in 1 .. Chunks
    BY <1>2 DEF Read, IInv, TypeOK
  <2>2. Append(readBuffer, received') \in Text
    BY <2>1 DEF IInv, TypeOK, Text
  <2>3. <<>> \in Text
    BY DEF Text
  <2>4. CASE Dispatch(Append(readBuffer, received'))
    <3>1. /\ data' \in Text /\ readBuffer' \in Text /\ sinceDispatch' = 0
          /\ pc' = "notify"
      BY <2>2, <2>3, <2>4 DEF Dispatch
    <3>2. QED BY <1>1, <1>2, <2>1, <3>1 DEF Read, IInv, TypeOK, pendingVars, mainVars
  <2>5. CASE Keep(Append(readBuffer, received'))
    <3>1. /\ data' = data /\ readBuffer' \in Text
          /\ sinceDispatch' = sinceDispatch /\ pc' = pc
      BY <2>2, <2>5 DEF Keep
    <3>2. QED BY <1>1, <1>2, <2>1, <3>1 DEF Read, IInv, TypeOK, pendingVars, mainVars
  <2>6. QED BY <1>2, <2>4, <2>5 DEF Read
<1>3. CASE ReadNothing
  BY <1>1, <1>3, TextFacts DEF ReadNothing, Dispatch, IInv, TypeOK, pendingVars, mainVars
<1>4. CASE EndLoop
  BY <1>1, <1>4, TextFacts
     DEF EndLoop, LastText, IInv, TypeOK, pendingVars, mainVars, timeVars
<1>5. CASE NotifyData
  <2>1. delay' \in 0 .. MIN_FRAME_TIME
    BY <1>5 DEF NotifyData, DelayAfter, IInv, TypeOK
  <2>2. QED BY <1>1, <1>5, <2>1 DEF NotifyData, IInv, TypeOK, pendingVars, mainVars
<1>6. QED BY <1>2, <1>3, <1>4, <1>5

LEMMA PostDataKeeps ==
  ASSUME IInv, PostData
  PROVE  IInv'
<1> USE ConstantsAssumption
<1>1. looper' \in Seq(Callback) /\ (HasBatch(looper) => HasBatch(looper'))
  BY PostFacts DEF PostData, IInv, TypeOK
<1>2. TypeOK'
  BY <1>1, TextFacts DEF PostData, IInv, TypeOK, pendingVars, mainVars
<1>3. UNCHANGED <<pendingData, pendingUpdateScheduled, listener>>
  BY DEF PostData, pendingVars, mainVars
<1>4. QED BY <1>1, <1>2, <1>3 DEF IInv, FlagTrue, PendingIsScheduled, HasBatch

(* The flag is set, and either was true or gets a batch of its own.        *)
LEMMA GatherKeeps ==
  ASSUME IInv, Gather
  PROVE  IInv'
<1> USE ConstantsAssumption
<1>1. looper' \in Seq(Callback) /\ HasBatch(looper')
  <2>1. CASE pendingUpdateScheduled
    BY <2>1 DEF Gather, IInv, TypeOK, FlagTrue, HasBatch
  <2>2. CASE ~pendingUpdateScheduled
    <3>1. Post(delay, "batch", <<>>) /\ delay \in 0 .. MIN_FRAME_TIME
          /\ looper \in Seq(Callback) /\ <<>> \in Text
      BY <2>2, TextFacts DEF Gather, IInv, TypeOK
    <3>2. QED BY <3>1, PostFacts
  <2>3. QED BY <2>1, <2>2 DEF IInv, TypeOK
<1>2. pendingData' \in Text
  BY TextFacts DEF Gather, IInv, TypeOK
<1>3. TypeOK'
  BY <1>1, <1>2, TextFacts DEF Gather, IInv, TypeOK, timeVars, mainVars
<1>4. QED BY <1>1, <1>3 DEF IInv, FlagTrue, PendingIsScheduled, HasBatch

(* A text handed over, or put back when nobody listens.                    *)
LEMMA RunDataKeeps ==
  ASSUME IInv, RunData
  PROVE  IInv'
<1> USE ConstantsAssumption
<1>1. looper # <<>> /\ looper[1].kind # "batch" /\ looper' = Tail(looper)
      /\ looper \in Seq(Callback)
  BY DEF RunData, Due, IInv, TypeOK
<1>2. /\ looper' \in Seq(Callback) /\ looper[1].text \in Text
      /\ HasBatch(looper) => HasBatch(looper')
  BY <1>1, RunFacts
<1>3. pendingData' \in Text /\ delivered' \in Text
  <2>1. pendingData \in Text /\ delivered \in Text
    BY DEF IInv, TypeOK
  <2>2. pendingData \o looper[1].text \in Text /\ delivered \o looper[1].text \in Text
    BY <1>2, <2>1, TextFacts
  <2>3. QED BY <2>1, <2>2 DEF RunData, Hand, KeptText
<1>4. TypeOK'
  BY <1>2, <1>3 DEF RunData, IInv, TypeOK, readVars, timeVars
<1>5. listener' => pendingData' = pendingData
  BY DEF RunData, Hand
<1>6. pendingUpdateScheduled' = pendingUpdateScheduled /\ listener' = listener
  BY DEF RunData
<1>7. QED BY <1>2, <1>4, <1>5, <1>6 DEF IInv, FlagTrue, PendingIsScheduled, HasBatch

LEMMA RunBatchKeeps ==
  ASSUME IInv, RunBatch
  PROVE  IInv'
<1> USE ConstantsAssumption
<1>1. looper' \in Seq(Callback)
  BY RunFacts DEF RunBatch, Due, IInv, TypeOK
<1>2. pendingData' \in Text /\ delivered' \in Text
  BY TextFacts DEF RunBatch, IInv, TypeOK
<1>3. pendingUpdateScheduled' = FALSE
  BY DEF RunBatch, NoLongerScheduled
<1>4. TypeOK'
  BY <1>1, <1>2, <1>3 DEF RunBatch, IInv, TypeOK, readVars, timeVars
<1>5. listener' => pendingData' = <<>>
  BY DEF RunBatch
<1>6. QED BY <1>3, <1>4, <1>5 DEF IInv, FlagTrue, PendingIsScheduled

LEMMA AddListenerKeeps ==
  ASSUME IInv, AddListener
  PROVE  IInv'
<1> USE ConstantsAssumption
<1>1. looper' \in Seq(Callback) /\ (HasBatch(looper) => HasBatch(looper'))
  <2>1. CASE pendingData = <<>>
    BY <2>1 DEF AddListener, IInv, TypeOK, HasBatch
  <2>2. CASE pendingData # <<>>
    <3>1. Post(0, "flush", pendingData) /\ pendingData \in Text /\ looper \in Seq(Callback)
          /\ 0 \in 0 .. MIN_FRAME_TIME
      BY <2>2 DEF AddListener, IInv, TypeOK
    <3>2. QED BY <3>1, PostFacts
  <2>3. QED BY <2>1, <2>2
<1>2. pendingData' = <<>>
  BY DEF AddListener, pendingVars
<1>3. pendingUpdateScheduled' \in BOOLEAN
      /\ (pendingUpdateScheduled' => pendingUpdateScheduled)
  BY DEF AddListener, pendingVars, IInv, TypeOK
<1>4. TypeOK'
  <2>1. pendingData' \in Text
    BY <1>2 DEF Text
  <2>2. listener' = TRUE /\ switches' \in 0 .. MaxSwitches
    BY DEF AddListener, IInv, TypeOK
  <2>3. UNCHANGED <<readVars, delivered>>
    BY DEF AddListener
  <2>4. QED BY <1>1, <1>3, <2>1, <2>2, <2>3 DEF IInv, TypeOK, readVars, timeVars
<1>5. FlagTrue' /\ PendingIsScheduled'
  BY <1>1, <1>2, <1>3 DEF IInv, FlagTrue, PendingIsScheduled
<1>6. QED BY <1>4, <1>5 DEF IInv

LEMMA RemoveListenerKeeps ==
  ASSUME IInv, RemoveListener
  PROVE  IInv'
<1>1. TypeOK'
  BY DEF RemoveListener, IInv, TypeOK, readVars, timeVars, pendingVars
<1>2. FlagTrue' /\ PendingIsScheduled'
  BY DEF RemoveListener, IInv, FlagTrue, PendingIsScheduled, pendingVars, HasBatch
<1>3. QED BY <1>1, <1>2 DEF IInv
-----------------------------------------------------------------------------
(* The invariant holds in every state, whatever the constants.             *)
THEOREM Inductive == SafetySpec => []IInv
<1>1. Init => IInv
  <2> SUFFICES ASSUME Init PROVE IInv
    OBVIOUS
  <2> USE ConstantsAssumption
  <2>1. <<>> \in Text /\ <<>> \in Seq(Callback)
    BY DEF Text
  <2>2. MIN_FRAME_TIME \in 0 .. MIN_FRAME_TIME /\ 0 \in 0 .. MIN_FRAME_TIME
        /\ 0 \in 0 .. Chunks /\ 0 \in 0 .. MaxSwitches
    OBVIOUS
  <2>3. TypeOK
    BY <2>1, <2>2 DEF Init, TypeOK
  <2>4. QED BY <2>3 DEF Init, IInv, FlagTrue, PendingIsScheduled
<1>2. IInv /\ [Next]_vars => IInv'
  <2> SUFFICES ASSUME IInv, [Next]_vars PROVE IInv'
    OBVIOUS
  <2>1. CASE Tick            BY <2>1, TickKeeps
  <2>2. CASE Read \/ ReadNothing \/ EndLoop \/ NotifyData
    BY <2>2, ReadKeeps
  <2>3. CASE PostData        BY <2>3, PostDataKeeps
  <2>4. CASE Gather          BY <2>4, GatherKeeps
  <2>5. CASE RunData         BY <2>5, RunDataKeeps
  <2>6. CASE RunBatch        BY <2>6, RunBatchKeeps
  <2>7. CASE AddListener     BY <2>7, AddListenerKeeps
  <2>8. CASE RemoveListener  BY <2>8, RemoveListenerKeeps
  <2>9. CASE UNCHANGED vars
    <3>1. TypeOK'
      BY <2>9 DEF vars, IInv, TypeOK, readVars, timeVars, pendingVars, mainVars
    <3>2. UNCHANGED <<pendingData, pendingUpdateScheduled, looper, listener>>
      BY <2>9 DEF vars, pendingVars, mainVars
    <3>3. QED BY <3>1, <3>2, Undisturbed DEF IInv
  <2>10. QED
    BY <2>1, <2>2, <2>3, <2>4, <2>5, <2>6, <2>7, <2>8, <2>9
       DEF Next, ReadThread, MainThread
<1>3. QED BY <1>1, <1>2, PTL DEF SafetySpec

(* Text in pendingData with a screen that listens has a batch callback on  *)
(* its way: whatever notifyData, the callbacks and addListener do between  *)
(* each other's steps, no output waits for a later read.                   *)
THEOREM PendingIsScheduledHolds == Spec => []PendingIsScheduled
<1>1. IInv => PendingIsScheduled
  BY DEF IInv
<1>2. QED BY <1>1, Inductive, PTL DEF Spec

(* The delivery keeps its type: no delay is negative or too long, and what *)
(* the queue holds are callbacks.                                          *)
THEOREM TypeCorrect == Spec => []TypeOK
<1>1. IInv => TypeOK
  BY DEF IInv
<1>2. QED BY <1>1, Inductive, PTL DEF Spec
-----------------------------------------------------------------------------
(* Where the chunks are.  A text is plain when no chunk is in it twice, and *)
(* the queue when that goes for all its texts together.                    *)
Plain(text) == \A i, j \in DOMAIN text : text[i] = text[j] => i = j
Queued(q) == UNION {ToSet(q[i].text) : i \in 1 .. Len(q)}
PlainQueue(q) ==
  /\ \A i \in 1 .. Len(q) : Plain(q[i].text)
  /\ \A i, j \in 1 .. Len(q) : i # j => ToSet(q[i].text) \cap ToSet(q[j].text) = {}
EmptyBatches(q) == \A i \in 1 .. Len(q) : q[i].kind = "batch" => q[i].text = <<>>

Apart(A, B, C, D, E) ==
  /\ A \cap B = {} /\ A \cap C = {} /\ A \cap D = {} /\ A \cap E = {}
  /\ B \cap C = {} /\ B \cap D = {} /\ B \cap E = {}
  /\ C \cap D = {} /\ C \cap E = {} /\ D \cap E = {}

Placed ==
  /\ Plain(delivered) /\ Plain(pendingData) /\ Plain(data) /\ Plain(readBuffer)
  /\ PlainQueue(looper)
  /\ Apart(ToSet(delivered), ToSet(pendingData), ToSet(data), ToSet(readBuffer), Queued(looper))
  /\ ToSet(delivered) \cup ToSet(pendingData) \cup ToSet(data) \cup ToSet(readBuffer)
       \cup Queued(looper) = 1 .. received
  /\ pc \in {"read", "ended"} => data = <<>>
  /\ EmptyBatches(looper)

(* Texts that share no chunk, one after the other.                         *)
LEMMA PlainJoin ==
  ASSUME NEW s \in Text, NEW t \in Text, Plain(s), Plain(t), ToSet(s) \cap ToSet(t) = {}
  PROVE  Plain(s \o t) /\ ToSet(s \o t) = ToSet(s) \cup ToSet(t)
<1>1. /\ s \in Seq(1 .. Chunks) /\ t \in Seq(1 .. Chunks)
  BY DEF Text
<1> DEFINE r == s \o t
<1>2. /\ r \in Seq(1 .. Chunks) /\ Len(r) = Len(s) + Len(t)
      /\ \A i \in 1 .. Len(s) : r[i] = s[i]
      /\ \A i \in Len(s) + 1 .. Len(s) + Len(t) : r[i] = t[i - Len(s)]
  BY <1>1, JoinFacts
<1>3. /\ DOMAIN s = 1 .. Len(s) /\ DOMAIN t = 1 .. Len(t) /\ DOMAIN r = 1 .. Len(r)
      /\ Len(s) \in Nat /\ Len(t) \in Nat
  BY <1>1, <1>2
<1> HIDE DEF r
<1>4. ASSUME NEW i \in DOMAIN r
      PROVE  \/ i \in DOMAIN s /\ r[i] = s[i]
             \/ i \notin DOMAIN s /\ i - Len(s) \in DOMAIN t /\ r[i] = t[i - Len(s)]
  BY <1>2, <1>3
<1>5. /\ \A i \in DOMAIN s : i \in DOMAIN r /\ r[i] = s[i]
      /\ \A i \in DOMAIN t : i + Len(s) \in DOMAIN r /\ r[i + Len(s)] = t[i]
  <2>1. ASSUME NEW i \in DOMAIN t PROVE i + Len(s) \in DOMAIN r /\ r[i + Len(s)] = t[i]
    <3>1. i + Len(s) \in Len(s) + 1 .. Len(s) + Len(t) /\ (i + Len(s)) - Len(s) = i
      BY <1>3
    <3>2. r[i + Len(s)] = t[(i + Len(s)) - Len(s)]
      BY <1>2, <3>1
    <3>3. QED BY <1>2, <1>3, <3>1, <3>2
  <2>2. QED BY <1>2, <1>3, <2>1
<1>6. Plain(r)
  <2> SUFFICES ASSUME NEW i \in DOMAIN r, NEW j \in DOMAIN r, r[i] = r[j] PROVE i = j
    BY DEF Plain
  <2>1. \A m \in DOMAIN s, n \in DOMAIN t : s[m] # t[n]
    BY DEF ToSet
  <2>2. CASE i \in DOMAIN s /\ r[i] = s[i]
    <3>1. j \in DOMAIN s /\ r[j] = s[j]
      BY <1>4, <2>1, <2>2
    <3>2. QED BY <2>2, <3>1 DEF Plain
  <2>3. CASE i - Len(s) \in DOMAIN t /\ r[i] = t[i - Len(s)]
    <3>1. j - Len(s) \in DOMAIN t /\ r[j] = t[j - Len(s)]
      BY <1>4, <2>1, <2>3
    <3>2. i - Len(s) = j - Len(s)
      BY <2>3, <3>1 DEF Plain
    <3>3. i \in Int /\ j \in Int
      BY <1>3
    <3>4. QED BY <1>3, <3>2, <3>3
  <2>4. QED BY <1>4, <2>2, <2>3
<1>7. ToSet(r) = ToSet(s) \cup ToSet(t)
  BY <1>4, <1>5 DEF ToSet
<1>8. QED BY <1>6, <1>7 DEF r

(* A chunk that is not in a text joins it.                                 *)
LEMMA PlainPut ==
  ASSUME NEW s \in Text, NEW e \in 1 .. Chunks, Plain(s), e \notin ToSet(s)
  PROVE  Plain(Append(s, e)) /\ ToSet(Append(s, e)) = ToSet(s) \cup {e}
<1>1. s \in Seq(1 .. Chunks) /\ Len(s) \in Nat /\ DOMAIN s = 1 .. Len(s)
  BY DEF Text
<1> DEFINE r == Append(s, e)
<1>2. /\ DOMAIN r = 1 .. Len(s) + 1 /\ r[Len(s) + 1] = e
      /\ \A i \in 1 .. Len(s) : r[i] = s[i]
  BY <1>1
<1> HIDE DEF r
<1>3. ASSUME NEW i \in DOMAIN r
      PROVE  \/ i \in DOMAIN s /\ r[i] = s[i]
             \/ i = Len(s) + 1 /\ r[i] = e
  <2>1. i \in 1 .. Len(s) \/ i = Len(s) + 1
    <3>1. \A n \in Nat : \A m \in 1 .. n + 1 : m \in 1 .. n \/ m = n + 1
      OBVIOUS
    <3>2. QED BY <1>1, <1>2, <3>1, Zenon
  <2>2. QED BY <1>1, <1>2, <2>1, Zenon
<1>4. \A i \in DOMAIN s : s[i] # e /\ i \in DOMAIN r /\ r[i] = s[i]
  BY <1>1, <1>2 DEF ToSet
<1>5. Plain(r)
  BY <1>3, <1>4 DEF Plain
<1>6. ToSet(r) = ToSet(s) \cup {e}
  <2>1. Len(s) + 1 \in DOMAIN r
    BY <1>1, <1>2
  <2>2. QED BY <1>2, <1>3, <1>4, <2>1 DEF ToSet
<1>7. QED BY <1>5, <1>6 DEF r

LEMMA PlainEmpty == Plain(<<>>) /\ ToSet(<<>>) = {}
BY DEF Plain, ToSet

(* A callback whose text is new joins the queue.                           *)
LEMMA QueueInsert ==
  ASSUME NEW q \in Seq(Callback), NEW c \in Callback, NEW k \in 0 .. Len(q), NEW r,
         Inserted(q, c, k, r),
         PlainQueue(q), Plain(c.text), ToSet(c.text) \cap Queued(q) = {},
         EmptyBatches(q), c.kind = "batch" => c.text = <<>>
  PROVE  PlainQueue(r) /\ EmptyBatches(r) /\ Queued(r) = Queued(q) \cup ToSet(c.text)
<1>1. /\ Len(r) = Len(q) + 1 /\ r[k + 1] = c
      /\ \A i \in 1 .. k : r[i] = q[i]
      /\ \A i \in k + 1 .. Len(q) : r[i + 1] = q[i]
  BY DEF Inserted
<1>2. Len(q) \in Nat /\ k \in 0 .. Len(q)
  OBVIOUS
<1>3. ASSUME NEW i \in 1 .. Len(r), i # k + 1
      PROVE  \E j \in 1 .. Len(q) : ((i = j /\ j <= k) \/ (i = j + 1 /\ j > k)) /\ r[i] = q[j]
  <2>1. CASE i <= k
    <3>1. i \in 1 .. Len(q) /\ i \in 1 .. k
      BY <1>2, <2>1
    <3>2. QED BY <1>1, <2>1, <3>1
  <2>2. CASE i > k + 1
    <3>1. /\ i - 1 \in k + 1 .. Len(q) /\ i - 1 \in 1 .. Len(q) /\ i - 1 > k
          /\ i = (i - 1) + 1
      BY <1>1, <1>2, <2>2
    <3>2. r[(i - 1) + 1] = q[i - 1]
      BY <1>1, <3>1
    <3>3. QED BY <3>1, <3>2
  <2>3. i <= k \/ i > k + 1
    BY <1>2, <1>3
  <2>4. QED BY <2>1, <2>2, <2>3
<1>4. ASSUME NEW j \in 1 .. Len(q)
      PROVE  \E i \in 1 .. Len(r) : r[i] = q[j]
  <2>1. CASE j <= k
    <3>1. j \in 1 .. k /\ j \in 1 .. Len(r)
      BY <1>1, <1>2, <2>1
    <3>2. QED BY <1>1, <3>1
  <2>2. CASE j > k
    <3>1. j \in k + 1 .. Len(q) /\ j + 1 \in 1 .. Len(r)
      BY <1>1, <1>2, <2>2
    <3>2. QED BY <1>1, <3>1
  <2>3. QED BY <1>2, <2>1, <2>2
<1>5. k + 1 \in 1 .. Len(r)
  BY <1>1, <1>2
<1>6. Queued(r) = Queued(q) \cup ToSet(c.text)
  <2>1. \A x : x \in Queued(r) <=> \E i \in 1 .. Len(r) : x \in ToSet(r[i].text)
    BY DEF Queued
  <2>2. \A x : x \in Queued(q) <=> \E j \in 1 .. Len(q) : x \in ToSet(q[j].text)
    BY DEF Queued
  <2>3. ASSUME NEW x \in Queued(r) PROVE x \in Queued(q) \cup ToSet(c.text)
    <3>1. PICK i \in 1 .. Len(r) : x \in ToSet(r[i].text)
      BY <2>1, <2>3, Zenon
    <3>2. CASE i = k + 1
      BY <1>1, <3>1, <3>2
    <3>3. CASE i # k + 1
      <4>1. PICK j \in 1 .. Len(q) : r[i] = q[j]
        BY <1>3, <3>3
      <4>2. QED BY <2>2, <3>1, <4>1, Zenon
    <3>4. QED BY <3>2, <3>3
  <2>4. ASSUME NEW x \in Queued(q) \cup ToSet(c.text) PROVE x \in Queued(r)
    BY <1>1, <1>4, <1>5, <2>1, <2>2, <2>4
  <2>5. QED BY <2>3, <2>4
<1>7. PlainQueue(r)
  <2>1. ASSUME NEW i \in 1 .. Len(r) PROVE Plain(r[i].text)
    BY <1>1, <1>3 DEF PlainQueue
  <2>2. ASSUME NEW i \in 1 .. Len(r), NEW j \in 1 .. Len(r), i # j
        PROVE  ToSet(r[i].text) \cap ToSet(r[j].text) = {}
    <3>1. \A n \in 1 .. Len(q) : ToSet(q[n].text) \subseteq Queued(q)
      BY DEF Queued
    <3>2. CASE i = k + 1
      <4>1. PICK n \in 1 .. Len(q) : r[j] = q[n]
        BY <1>3, <2>2, <3>2
      <4>2. QED BY <1>1, <3>1, <3>2, <4>1
    <3>3. CASE j = k + 1
      <4>1. PICK n \in 1 .. Len(q) : r[i] = q[n]
        BY <1>3, <2>2, <3>3
      <4>2. QED BY <1>1, <3>1, <3>3, <4>1
    <3>4. CASE i # k + 1 /\ j # k + 1
      <4>1. PICK m \in 1 .. Len(q) : ((i = m /\ m <= k) \/ (i = m + 1 /\ m > k)) /\ r[i] = q[m]
        BY <1>3, <3>4
      <4>2. PICK n \in 1 .. Len(q) : ((j = n /\ n <= k) \/ (j = n + 1 /\ n > k)) /\ r[j] = q[n]
        BY <1>3, <3>4
      <4>3. m # n
        BY <1>2, <2>2, <4>1, <4>2
      <4>4. QED BY <4>1, <4>2, <4>3 DEF PlainQueue
    <3>5. QED BY <3>2, <3>3, <3>4
  <2>3. QED BY <2>1, <2>2 DEF PlainQueue
<1>8. EmptyBatches(r)
  BY <1>1, <1>3 DEF EmptyBatches
<1>9. QED BY <1>6, <1>7, <1>8

(* The first callback leaves the queue.                                    *)
LEMMA QueueTail ==
  ASSUME NEW q \in Seq(Callback), q # <<>>, PlainQueue(q), EmptyBatches(q)
  PROVE  /\ PlainQueue(Tail(q)) /\ EmptyBatches(Tail(q))
         /\ Queued(q) = Queued(Tail(q)) \cup ToSet(q[1].text)
         /\ Queued(Tail(q)) \cap ToSet(q[1].text) = {}
         /\ Plain(q[1].text) /\ (q[1].kind = "batch" => q[1].text = <<>>)
<1> DEFINE r == Tail(q)
<1>1. /\ Len(r) = Len(q) - 1 /\ Len(q) \in Nat /\ Len(q) > 0
      /\ \A i \in 1 .. Len(r) : r[i] = q[i + 1]
  BY HeadTailProperties
<1> HIDE DEF r
<1>2. 1 \in 1 .. Len(q) /\ \A i \in 1 .. Len(r) : i + 1 \in 1 .. Len(q) /\ i + 1 # 1
  BY <1>1
<1>3. ASSUME NEW j \in 1 .. Len(q), j # 1 PROVE j - 1 \in 1 .. Len(r) /\ r[j - 1] = q[j]
  <2>1. j - 1 \in 1 .. Len(r) /\ (j - 1) + 1 = j
    BY <1>1, <1>3
  <2>2. r[j - 1] = q[(j - 1) + 1]
    BY <1>1, <2>1
  <2>3. QED BY <2>1, <2>2
<1>4. /\ \A x : x \in Queued(r) <=> \E i \in 1 .. Len(r) : x \in ToSet(r[i].text)
      /\ \A x : x \in Queued(q) <=> \E j \in 1 .. Len(q) : x \in ToSet(q[j].text)
  BY DEF Queued
<1>5. Queued(q) = Queued(r) \cup ToSet(q[1].text)
  <2>1. ASSUME NEW x \in Queued(q) PROVE x \in Queued(r) \cup ToSet(q[1].text)
    BY <1>3, <1>4, <2>1
  <2>2. ASSUME NEW x \in Queued(r) \cup ToSet(q[1].text) PROVE x \in Queued(q)
    BY <1>1, <1>2, <1>4, <2>2
  <2>3. QED BY <2>1, <2>2
<1>6. Queued(r) \cap ToSet(q[1].text) = {}
  <2>1. ASSUME NEW i \in 1 .. Len(r) PROVE ToSet(r[i].text) \cap ToSet(q[1].text) = {}
    BY <1>1, <1>2 DEF PlainQueue
  <2>2. QED BY <1>4, <2>1
<1>7. PlainQueue(r)
  <2>1. ASSUME NEW i \in 1 .. Len(r) PROVE Plain(r[i].text)
    BY <1>1, <1>2 DEF PlainQueue
  <2>2. ASSUME NEW i \in 1 .. Len(r), NEW j \in 1 .. Len(r), i # j
        PROVE  ToSet(r[i].text) \cap ToSet(r[j].text) = {}
    <3>1. i + 1 # j + 1
      BY <2>2
    <3>2. QED BY <1>1, <1>2, <3>1 DEF PlainQueue
  <2>3. QED BY <2>1, <2>2 DEF PlainQueue
<1>8. EmptyBatches(r) /\ Plain(q[1].text) /\ (q[1].kind = "batch" => q[1].text = <<>>)
  BY <1>1, <1>2 DEF EmptyBatches, PlainQueue
<1>9. QED BY <1>5, <1>6, <1>7, <1>8 DEF r

LEMMA PostPlaces ==
  ASSUME looper \in Seq(Callback), NEW wait \in 0 .. MIN_FRAME_TIME,
         NEW kind \in {"data", "batch", "flush"}, NEW text \in Text,
         Post(wait, kind, text),
         PlainQueue(looper), EmptyBatches(looper), Plain(text),
         ToSet(text) \cap Queued(looper) = {}, kind = "batch" => text = <<>>
  PROVE  /\ PlainQueue(looper') /\ EmptyBatches(looper')
         /\ Queued(looper') = Queued(looper) \cup ToSet(text)
<1> DEFINE c == [wait |-> wait, kind |-> kind, text |-> text]
<1>1. c \in Callback /\ c.kind = kind /\ c.text = text
  BY DEF Callback
<1>2. PICK k \in 0 .. Len(looper) :
        looper' = Insertion(looper, c, k)
  BY DEF Insertion, Post
<1> HIDE DEF c
<1>3. looper \in Seq(Callback) /\ c \in Callback /\ k \in 0 .. Len(looper)
  BY <1>1
<1>4. ASSUME NEW q \in Seq(Callback), NEW n \in 0 .. Len(q), NEW longer, longer = Insertion(q, c, n)
      PROVE  Inserted(q, c, n, longer)
  <2>1. /\ longer \in Seq(Callback)
        /\ Holds(longer, c)
        /\ \A i \in 1 .. Len(q) : Holds(longer, q[i])
        /\ Inserted(q, c, n, longer)
    BY <1>3, <1>4, InsertFacts
  <2>2. QED BY <2>1
<1>5. Inserted(looper, c, k, looper')
  BY <1>2, <1>3, <1>4, Zenon
<1>6. /\ PlainQueue(looper') /\ EmptyBatches(looper')
      /\ Queued(looper') = Queued(looper) \cup ToSet(c.text)
  BY <1>1, <1>3, <1>5, QueueInsert
<1>7. QED BY <1>1, <1>6
-----------------------------------------------------------------------------
LEMMA TickPlaces ==
  ASSUME IInv, Placed, Tick
  PROVE  Placed'
<1>1. /\ looper' = [i \in 1 .. Len(looper) |-> Sooner(looper[i])]
      /\ looper \in Seq(Callback)
      /\ UNCHANGED <<received, pc, readBuffer, data, pendingData, delivered>>
  BY DEF Tick, IInv, TypeOK, pendingVars, mainVars
<1>2. Len(looper') = Len(looper) /\ \A i \in 1 .. Len(looper) : looper'[i] = Sooner(looper[i])
  BY <1>1
<1>3. ASSUME NEW i \in 1 .. Len(looper)
      PROVE  looper'[i].text = looper[i].text /\ looper'[i].kind = looper[i].kind
  <2>1. \A c \in Callback : Sooner(c).text = c.text /\ Sooner(c).kind = c.kind
    BY DEF Sooner, Callback
  <2>2. looper[i] \in Callback
    BY <1>1
  <2>3. QED BY <1>2, <2>1, <2>2
<1>4. PlainQueue(looper') /\ EmptyBatches(looper')
  BY <1>2, <1>3 DEF Placed, PlainQueue, EmptyBatches
<1>5. Queued(looper') = Queued(looper)
  BY <1>2, <1>3 DEF Queued
<1>6. QED BY <1>1, <1>4, <1>5 DEF Placed

(* A new chunk is in no text yet.                                          *)
LEMMA ReadPlaces ==
  ASSUME IInv, Placed, Read
  PROVE  Placed'
<1> DEFINE e == received + 1
           text == Append(readBuffer, e)
<1>1. /\ received \in Nat /\ e \in 1 .. Chunks /\ received' = e /\ readBuffer \in Text
      /\ pc = "read" /\ data = <<>>
      /\ Dispatch(text) \/ Keep(text)
      /\ UNCHANGED <<pendingData, looper, delivered>>
  BY ConstantsAssumption DEF Read, IInv, TypeOK, Placed, pendingVars, mainVars
<1>2. e \notin 1 .. received /\ 1 .. e = 1 .. received \cup {e}
  BY <1>1
<1>3. e \notin ToSet(delivered) /\ e \notin ToSet(pendingData) /\ e \notin ToSet(readBuffer)
      /\ e \notin Queued(looper)
  BY <1>2 DEF Placed
<1>4. Plain(text) /\ ToSet(text) = ToSet(readBuffer) \cup {e}
  BY <1>1, <1>3, PlainPut DEF Placed
<1>5. Plain(<<>>) /\ ToSet(<<>>) = {}
  BY PlainEmpty
<1> HIDE DEF text, e
<1>6. CASE Dispatch(text)
  <2>1. data' = text /\ readBuffer' = <<>> /\ pc' = "notify"
    BY <1>6 DEF Dispatch
  <2>2. /\ Apart(ToSet(delivered), ToSet(pendingData), ToSet(text), {}, Queued(looper))
        /\ ToSet(delivered) \cup ToSet(pendingData) \cup ToSet(text) \cup {}
             \cup Queued(looper) = 1 .. e
    BY <1>1, <1>2, <1>3, <1>4, <1>5 DEF Placed, Apart
  <2>3. QED BY <1>1, <1>4, <1>5, <2>1, <2>2 DEF Placed
<1>7. CASE Keep(text)
  <2>1. readBuffer' = text /\ data' = data /\ pc' = pc
    BY <1>7 DEF Keep
  <2>2. /\ Apart(ToSet(delivered), ToSet(pendingData), ToSet(data), ToSet(text), Queued(looper))
        /\ ToSet(delivered) \cup ToSet(pendingData) \cup ToSet(data) \cup ToSet(text)
             \cup Queued(looper) = 1 .. e
    BY <1>1, <1>2, <1>3, <1>4, <1>5 DEF Placed, Apart
  <2>3. QED BY <1>1, <1>4, <1>5, <2>1, <2>2 DEF Placed
<1>8. QED BY <1>1, <1>6, <1>7

(* The text of the read buffer is taken over, or left, whole.              *)
LEMMA TakePlaces ==
  ASSUME IInv, Placed, ReadNothing \/ EndLoop \/ NotifyData
  PROVE  Placed'
<1>1. Plain(<<>>) /\ ToSet(<<>>) = {}
  BY PlainEmpty
<1>2. UNCHANGED <<received, pendingData, looper, delivered>>
  BY DEF ReadNothing, EndLoop, NotifyData, pendingVars, mainVars
<1>3. CASE ReadNothing \/ EndLoop
  <2>1. /\ data = <<>> /\ data' = readBuffer /\ readBuffer' = <<>>
        /\ pc' \in {"read", "ended"} => readBuffer = <<>>
    BY <1>3 DEF ReadNothing, EndLoop, Dispatch, LastText, Placed
  <2>2. /\ Apart(ToSet(delivered), ToSet(pendingData), ToSet(readBuffer), {}, Queued(looper))
        /\ ToSet(delivered) \cup ToSet(pendingData) \cup ToSet(readBuffer) \cup {}
             \cup Queued(looper) = 1 .. received
    BY <1>1, <2>1 DEF Placed, Apart
  <2>3. QED BY <1>1, <1>2, <2>1, <2>2 DEF Placed
<1>4. CASE NotifyData
  <2>1. UNCHANGED <<data, readBuffer>> /\ pc' \in {"post", "gather"}
    BY <1>4 DEF NotifyData
  <2>2. QED BY <1>2, <2>1 DEF Placed
<1>5. QED BY <1>3, <1>4

LEMMA PostDataPlaces ==
  ASSUME IInv, Placed, PostData
  PROVE  Placed'
<1>1. Plain(<<>>) /\ ToSet(<<>>) = {}
  BY PlainEmpty
<1>2. /\ looper \in Seq(Callback) /\ data \in Text /\ Post(0, "data", data)
      /\ 0 \in 0 .. MIN_FRAME_TIME
      /\ data' = <<>> /\ UNCHANGED <<received, readBuffer, pendingData, delivered>>
  BY ConstantsAssumption DEF PostData, IInv, TypeOK, pendingVars, mainVars
<1>3. ToSet(data) \cap Queued(looper) = {}
  BY DEF Placed, Apart
<1>4. /\ PlainQueue(looper') /\ EmptyBatches(looper')
      /\ Queued(looper') = Queued(looper) \cup ToSet(data)
  BY <1>2, <1>3, PostPlaces DEF Placed
<1>5. /\ Apart(ToSet(delivered), ToSet(pendingData), {}, ToSet(readBuffer), Queued(looper'))
      /\ ToSet(delivered) \cup ToSet(pendingData) \cup {} \cup ToSet(readBuffer)
           \cup Queued(looper') = 1 .. received
  BY <1>4 DEF Placed, Apart
<1>6. QED BY <1>1, <1>2, <1>4, <1>5 DEF Placed

LEMMA GatherPlaces ==
  ASSUME IInv, Placed, Gather
  PROVE  Placed'
<1>1. Plain(<<>>) /\ ToSet(<<>>) = {} /\ <<>> \in Text
  BY PlainEmpty, TextFacts DEF IInv, TypeOK
<1>2. /\ looper \in Seq(Callback) /\ data \in Text /\ pendingData \in Text
      /\ delay \in 0 .. MIN_FRAME_TIME
      /\ pendingData' = pendingData \o data
      /\ looper' = looper \/ Post(delay, "batch", <<>>)
      /\ data' = <<>> /\ UNCHANGED <<received, readBuffer, delivered>>
  BY DEF Gather, IInv, TypeOK, mainVars
<1>3. Plain(pendingData \o data) /\ ToSet(pendingData \o data) = ToSet(pendingData) \cup ToSet(data)
  BY <1>2, PlainJoin DEF Placed, Apart
<1>4. /\ PlainQueue(looper') /\ EmptyBatches(looper')
      /\ Queued(looper') = Queued(looper)
  <2>1. CASE looper' = looper
    BY <2>1 DEF Placed
  <2>2. CASE Post(delay, "batch", <<>>)
    <3>1. /\ PlainQueue(looper') /\ EmptyBatches(looper')
          /\ Queued(looper') = Queued(looper) \cup ToSet(<<>>)
      BY <1>1, <1>2, <2>2, PostPlaces DEF Placed
    <3>2. QED BY <1>1, <3>1
  <2>3. QED BY <1>2, <2>1, <2>2
<1>5. /\ Apart(ToSet(delivered), ToSet(pendingData'), {}, ToSet(readBuffer), Queued(looper'))
      /\ ToSet(delivered) \cup ToSet(pendingData') \cup {} \cup ToSet(readBuffer)
           \cup Queued(looper') = 1 .. received
  BY <1>2, <1>3, <1>4 DEF Placed, Apart
<1>6. QED BY <1>1, <1>2, <1>3, <1>4, <1>5 DEF Placed

(* The text of the first callback goes to the screen or to pendingData.    *)
LEMMA RunDataPlaces ==
  ASSUME IInv, Placed, RunData
  PROVE  Placed'
<1> DEFINE text == looper[1].text
<1>1. /\ looper \in Seq(Callback) /\ looper # <<>> /\ looper' = Tail(looper)
      /\ delivered \in Text /\ pendingData \in Text
      /\ Hand(text)
      /\ UNCHANGED <<received, pc, data, readBuffer>>
  BY DEF RunData, Due, IInv, TypeOK, readVars
<1>2. text \in Text
  BY <1>1, RunFacts
<1>3. /\ PlainQueue(looper') /\ EmptyBatches(looper')
      /\ Queued(looper) = Queued(looper') \cup ToSet(text)
      /\ Queued(looper') \cap ToSet(text) = {} /\ Plain(text)
  BY <1>1, QueueTail DEF Placed
<1> HIDE DEF text
<1>4. CASE listener
  <2>1. delivered' = delivered \o text /\ pendingData' = pendingData
    BY <1>1, <1>4 DEF Hand
  <2>2. Plain(delivered \o text) /\ ToSet(delivered \o text) = ToSet(delivered) \cup ToSet(text)
    BY <1>1, <1>2, <1>3, PlainJoin DEF Placed, Apart
  <2>3. /\ Apart(ToSet(delivered'), ToSet(pendingData), ToSet(data), ToSet(readBuffer), Queued(looper'))
        /\ ToSet(delivered') \cup ToSet(pendingData) \cup ToSet(data) \cup ToSet(readBuffer)
             \cup Queued(looper') = 1 .. received
    BY <1>3, <2>1, <2>2 DEF Placed, Apart
  <2>4. QED BY <1>1, <1>3, <2>1, <2>2, <2>3 DEF Placed
<1>5. CASE ~listener
  <2>1. pendingData' = pendingData \o text /\ delivered' = delivered
    BY <1>1, <1>5 DEF Hand, KeptText
  <2>2. Plain(pendingData \o text) /\ ToSet(pendingData \o text) = ToSet(pendingData) \cup ToSet(text)
    BY <1>1, <1>2, <1>3, PlainJoin DEF Placed, Apart
  <2>3. /\ Apart(ToSet(delivered), ToSet(pendingData'), ToSet(data), ToSet(readBuffer), Queued(looper'))
        /\ ToSet(delivered) \cup ToSet(pendingData') \cup ToSet(data) \cup ToSet(readBuffer)
             \cup Queued(looper') = 1 .. received
    BY <1>3, <2>1, <2>2 DEF Placed, Apart
  <2>4. QED BY <1>1, <1>3, <2>1, <2>2, <2>3 DEF Placed
<1>6. QED BY <1>4, <1>5

LEMMA RunBatchPlaces ==
  ASSUME IInv, Placed, RunBatch
  PROVE  Placed'
<1>1. /\ looper \in Seq(Callback) /\ looper # <<>> /\ looper' = Tail(looper)
      /\ looper[1].kind = "batch"
      /\ delivered \in Text /\ pendingData \in Text
      /\ UNCHANGED <<received, pc, data, readBuffer>>
  BY DEF RunBatch, Due, IInv, TypeOK, readVars
<1>2. Plain(<<>>) /\ ToSet(<<>>) = {}
  BY PlainEmpty
<1>3. /\ PlainQueue(looper') /\ EmptyBatches(looper')
      /\ Queued(looper) = Queued(looper')
  <2>1. /\ PlainQueue(Tail(looper)) /\ EmptyBatches(Tail(looper))
        /\ Queued(looper) = Queued(Tail(looper)) \cup ToSet(looper[1].text)
        /\ looper[1].text = <<>>
    BY <1>1, QueueTail DEF Placed
  <2>2. QED BY <1>1, <1>2, <2>1
<1>4. CASE listener
  <2>1. delivered' = delivered \o pendingData /\ pendingData' = <<>>
    BY <1>4 DEF RunBatch
  <2>2. /\ Plain(delivered \o pendingData)
        /\ ToSet(delivered \o pendingData) = ToSet(delivered) \cup ToSet(pendingData)
    BY <1>1, PlainJoin DEF Placed, Apart
  <2>3. /\ Apart(ToSet(delivered'), {}, ToSet(data), ToSet(readBuffer), Queued(looper'))
        /\ ToSet(delivered') \cup {} \cup ToSet(data) \cup ToSet(readBuffer)
             \cup Queued(looper') = 1 .. received
    BY <1>3, <2>1, <2>2 DEF Placed, Apart
  <2>4. QED BY <1>1, <1>2, <1>3, <2>1, <2>2, <2>3 DEF Placed
<1>5. CASE ~listener
  <2>1. UNCHANGED <<delivered, pendingData>>
    BY <1>5 DEF RunBatch
  <2>2. QED BY <1>1, <1>3, <2>1 DEF Placed
<1>6. QED BY <1>4, <1>5

LEMMA ListenerPlaces ==
  ASSUME IInv, Placed, AddListener \/ RemoveListener
  PROVE  Placed'
<1>1. /\ looper \in Seq(Callback) /\ pendingData \in Text /\ 0 \in 0 .. MIN_FRAME_TIME
      /\ UNCHANGED <<received, pc, data, readBuffer, delivered>>
  BY ConstantsAssumption DEF AddListener, RemoveListener, IInv, TypeOK, readVars
<1>2. CASE UNCHANGED <<pendingData, looper>>
  BY <1>1, <1>2 DEF Placed
<1>3. CASE Post(0, "flush", pendingData) /\ pendingData' = <<>>
  <2>1. Plain(<<>>) /\ ToSet(<<>>) = {}
    BY PlainEmpty
  <2>2. ToSet(pendingData) \cap Queued(looper) = {}
    BY DEF Placed, Apart
  <2>3. /\ PlainQueue(looper') /\ EmptyBatches(looper')
        /\ Queued(looper') = Queued(looper) \cup ToSet(pendingData)
    BY <1>1, <1>3, <2>2, PostPlaces DEF Placed
  <2>4. /\ Apart(ToSet(delivered), {}, ToSet(data), ToSet(readBuffer), Queued(looper'))
        /\ ToSet(delivered) \cup {} \cup ToSet(data) \cup ToSet(readBuffer)
             \cup Queued(looper') = 1 .. received
    BY <2>3 DEF Placed, Apart
  <2>5. QED BY <1>1, <1>3, <2>1, <2>3, <2>4 DEF Placed
<1>4. QED BY <1>2, <1>3 DEF AddListener, RemoveListener, pendingVars

(* From the places of the chunks to the property.                          *)
LEMMA PlacedSuffices == IInv /\ Placed => NothingLostOrDoubled
<1> SUFFICES ASSUME IInv, Placed PROVE NothingLostOrDoubled
  OBVIOUS
<1> DEFINE first == <<delivered, pendingData, data, readBuffer>>
           rest == [i \in 1 .. Len(looper) |-> looper[i].text]
<1>1. /\ delivered \in Text /\ pendingData \in Text /\ data \in Text /\ readBuffer \in Text
      /\ looper \in Seq(Callback) /\ Len(looper) \in Nat
      /\ \A i \in 1 .. Len(looper) : looper[i].text \in Text
  <2>1. \A c \in Callback : c.text \in Text
    BY DEF Callback
  <2>2. QED BY <2>1 DEF IInv, TypeOK
<1>2. first \in Seq(Text) /\ Len(first) = 4
  BY <1>1
<1>3. rest \in Seq(Text) /\ Len(rest) = Len(looper) /\ \A i \in 1 .. Len(looper) : rest[i] = looper[i].text
  BY <1>1
<1>4. /\ Texts \in Seq(Text) /\ Len(Texts) = 4 + Len(looper)
      /\ \A i \in 1 .. 4 : Texts[i] = first[i]
      /\ \A i \in 5 .. 4 + Len(looper) : Texts[i] = looper[i - 4].text
  <2> HIDE DEF first, rest
  <2>1. /\ first \o rest \in Seq(Text) /\ Len(first \o rest) = Len(first) + Len(rest)
        /\ \A i \in 1 .. Len(first) : (first \o rest)[i] = first[i]
        /\ \A i \in Len(first) + 1 .. Len(first) + Len(rest) :
              (first \o rest)[i] = rest[i - Len(first)]
    <3>1. ASSUME NEW s \in Seq(Text), NEW t \in Seq(Text)
          PROVE  /\ s \o t \in Seq(Text) /\ Len(s \o t) = Len(s) + Len(t)
                 /\ \A i \in 1 .. Len(s) : (s \o t)[i] = s[i]
                 /\ \A i \in Len(s) + 1 .. Len(s) + Len(t) : (s \o t)[i] = t[i - Len(s)]
      BY JoinFacts, Zenon
    <3>2. QED BY <1>2, <1>3, <3>1, Zenon
  <2>2. Texts = first \o rest
    BY DEF Texts, first, rest
  <2>3. 4 + 1 = 5 /\ \A i \in 5 .. 4 + Len(looper) : i - 4 \in 1 .. Len(looper)
    BY <1>1
  <2>4. QED BY <1>2, <1>3, <2>1, <2>2, <2>3
<1>5. /\ Texts[1] = delivered /\ Texts[2] = pendingData /\ Texts[3] = data
      /\ Texts[4] = readBuffer
  BY <1>4
<1>6. DOMAIN Texts = 1 .. 4 + Len(looper)
  BY <1>4
<1>7. ASSUME NEW i \in DOMAIN Texts
      PROVE  \/ i = 1 \/ i = 2 \/ i = 3 \/ i = 4
             \/ i - 4 \in 1 .. Len(looper) /\ Texts[i] = looper[i - 4].text
  <2>1. i \in 1 .. 4 \/ i \in 5 .. 4 + Len(looper)
    BY <1>1, <1>6
  <2>2. i \in 5 .. 4 + Len(looper) => i - 4 \in 1 .. Len(looper)
    BY <1>1
  <2>3. i \in 1 .. 4 => i = 1 \/ i = 2 \/ i = 3 \/ i = 4
    OBVIOUS
  <2>4. QED BY <1>4, <2>1, <2>2, <2>3
<1>8. ASSUME NEW i \in 1 .. Len(looper)
      PROVE  i + 4 \in DOMAIN Texts /\ Texts[i + 4] = looper[i].text
  <2>1. i + 4 \in 5 .. 4 + Len(looper) /\ (i + 4) - 4 = i
    BY <1>1
  <2>2. Texts[i + 4] = looper[(i + 4) - 4].text
    BY <1>4, <2>1
  <2>3. QED BY <1>1, <1>6, <2>1, <2>2
<1>9. 1 \in DOMAIN Texts /\ 2 \in DOMAIN Texts /\ 3 \in DOMAIN Texts /\ 4 \in DOMAIN Texts
  BY <1>1, <1>6
<1>10. /\ \A x : x \in Queued(looper) <=> \E i \in 1 .. Len(looper) : x \in ToSet(looper[i].text)
       /\ \A x : x \in UNION {ToSet(Texts[i]) : i \in DOMAIN Texts}
                   <=> \E i \in DOMAIN Texts : x \in ToSet(Texts[i])
  BY DEF Queued
<1> HIDE DEF first, rest
<1>11. UNION {ToSet(Texts[i]) : i \in DOMAIN Texts} = 1 .. received
  <2> DEFINE all == UNION {ToSet(Texts[i]) : i \in DOMAIN Texts}
             five == ToSet(delivered) \cup ToSet(pendingData) \cup ToSet(data)
                       \cup ToSet(readBuffer) \cup Queued(looper)
  <2>1. ASSUME NEW x \in all PROVE x \in five
    <3>1. PICK i \in DOMAIN Texts : x \in ToSet(Texts[i])
      BY <1>10, <2>1
    <3>2. CASE i - 4 \in 1 .. Len(looper) /\ Texts[i] = looper[i - 4].text
      <4>1. x \in ToSet(looper[i - 4].text)
        BY <3>1, <3>2
      <4>2. QED BY <1>10, <3>2, <4>1
    <3>3. QED BY <1>5, <1>7, <3>1, <3>2
  <2>2. ASSUME NEW x \in five PROVE x \in all
    <3>1. CASE x \in Queued(looper)
      <4>1. PICK i \in 1 .. Len(looper) : x \in ToSet(looper[i].text)
        BY <1>10, <3>1
      <4>2. QED BY <1>8, <1>10, <4>1
    <3>2. QED BY <1>5, <1>9, <1>10, <2>2, <3>1
  <2>3. five = 1 .. received
    BY DEF Placed
  <2> HIDE DEF all, five
  <2>4. all = 1 .. received
    BY <2>1, <2>2, <2>3
  <2>5. QED BY <2>4 DEF all
<1>12. ASSUME NEW i \in DOMAIN Texts PROVE Plain(Texts[i])
  BY <1>5, <1>7 DEF Placed, PlainQueue
<1>13. ASSUME NEW i \in DOMAIN Texts, NEW j \in DOMAIN Texts, i # j
       PROVE  ToSet(Texts[i]) \cap ToSet(Texts[j]) = {}
  <2>1. ASSUME NEW n \in 1 .. Len(looper) PROVE ToSet(looper[n].text) \subseteq Queued(looper)
    BY <1>10
  <2>2. CASE i - 4 \in 1 .. Len(looper) /\ Texts[i] = looper[i - 4].text
    <3>1. CASE j - 4 \in 1 .. Len(looper) /\ Texts[j] = looper[j - 4].text
      <4>1. i \in Int /\ j \in Int
        BY <1>6
      <4>2. i - 4 # j - 4
        BY <1>13, <4>1
      <4>3. QED BY <2>2, <3>1, <4>2 DEF Placed, PlainQueue
    <3>2. CASE j = 1 \/ j = 2 \/ j = 3 \/ j = 4
      <4>1. ToSet(Texts[i]) \subseteq Queued(looper)
        BY <2>1, <2>2
      <4>2. QED BY <1>5, <3>2, <4>1 DEF Placed, Apart
    <3>3. QED BY <1>7, <3>1, <3>2
  <2>3. CASE i = 1 \/ i = 2 \/ i = 3 \/ i = 4
    <3>1. CASE j - 4 \in 1 .. Len(looper) /\ Texts[j] = looper[j - 4].text
      <4>1. ToSet(Texts[j]) \subseteq Queued(looper)
        BY <2>1, <3>1
      <4>2. QED BY <1>5, <2>3, <4>1 DEF Placed, Apart
    <3>2. CASE j = 1 \/ j = 2 \/ j = 3 \/ j = 4
      BY <1>5, <1>13, <2>3, <3>2 DEF Placed, Apart
    <3>3. QED BY <1>7, <3>1, <3>2
  <2>4. QED BY <1>7, <2>2, <2>3
<1>14. ASSUME NEW i \in DOMAIN Texts, NEW j \in DOMAIN Texts,
              NEW m \in DOMAIN Texts[i], NEW n \in DOMAIN Texts[j], Texts[i][m] = Texts[j][n]
       PROVE  i = j /\ m = n
  <2>1. Texts[i][m] \in ToSet(Texts[i]) /\ Texts[j][n] \in ToSet(Texts[j])
    BY DEF ToSet
  <2>2. i = j
    BY <1>13, <1>14, <2>1
  <2>3. QED BY <1>12, <1>14, <2>2 DEF Plain
<1>15. QED BY <1>11, <1>14 DEF NothingLostOrDoubled
-----------------------------------------------------------------------------
(* Every chunk the read thread has read is, once, in the text of the screen, *)
(* in pendingData, in the hands of notifyData, in the read buffer or in a    *)
(* callback: however late the main thread is, whenever screens come and go,  *)
(* nothing is lost and nothing is shown twice.                               *)
THEOREM NothingLostOrDoubledHolds == SafetySpec => []NothingLostOrDoubled
<1>1. Init => Placed
  <2> SUFFICES ASSUME Init PROVE Placed
    OBVIOUS
  <2>1. Plain(<<>>) /\ ToSet(<<>>) = {}
    BY PlainEmpty
  <2>2. PlainQueue(<<>>) /\ EmptyBatches(<<>>) /\ Queued(<<>>) = {}
    BY DEF PlainQueue, EmptyBatches, Queued
  <2>3. Apart({}, {}, {}, {}, {}) /\ 1 .. 0 = {}
    BY DEF Apart
  <2>4. QED BY <2>1, <2>2, <2>3 DEF Init, Placed
<1>2. IInv /\ Placed /\ [Next]_vars => Placed'
  <2> SUFFICES ASSUME IInv, Placed, [Next]_vars PROVE Placed'
    OBVIOUS
  <2>1. CASE UNCHANGED vars
    BY <2>1 DEF Placed, vars, readVars, pendingVars, mainVars
  <2>2. CASE Tick
    BY <2>2, TickPlaces
  <2>3. CASE Read
    BY <2>3, ReadPlaces
  <2>4. CASE ReadNothing \/ EndLoop \/ NotifyData
    BY <2>4, TakePlaces
  <2>5. CASE PostData
    BY <2>5, PostDataPlaces
  <2>6. CASE Gather
    BY <2>6, GatherPlaces
  <2>7. CASE RunData
    BY <2>7, RunDataPlaces
  <2>8. CASE RunBatch
    BY <2>8, RunBatchPlaces
  <2>9. CASE AddListener \/ RemoveListener
    BY <2>9, ListenerPlaces
  <2>10. QED BY <2>1, <2>2, <2>3, <2>4, <2>5, <2>6, <2>7, <2>8, <2>9
             DEF Next, ReadThread, MainThread
<1>3. IInv /\ Placed => NothingLostOrDoubled
  BY PlacedSuffices
<1>4. QED BY <1>1, <1>2, <1>3, Inductive, PTL DEF SafetySpec
=============================================================================
