---------------------------- MODULE OutputDelivery ----------------------------
(***************************************************************************)
(* How TerminalSession carries what the read loop reads to the screen: at  *)
(* most one dispatch per MIN_FRAME_TIME posts its text to the main thread  *)
(* at once; the others gather in pendingData, which a delayed callback,    *)
(* or addListener, sends on.  The main thread may be late, and the read    *)
(* thread may be suspended anywhere.                                       *)
(*                                                                         *)
(* A chunk of output is its number in the stream.  Time is kept as what    *)
(* has passed since, and what is left until, an instant the code compares  *)
(* with; nothing depends on more than MIN_FRAME_TIME of it.                *)
(***************************************************************************)
EXTENDS Naturals, Sequences, SequencesExt

CONSTANTS
  MIN_FRAME_TIME,
  Chunks,          \* bound: chunks the server sends
  MaxSwitches      \* bound: listeners added after the first

ASSUME ConstantsAssumption ==
  /\ MIN_FRAME_TIME \in Nat \ {0}
  /\ Chunks \in Nat /\ MaxSwitches \in Nat

VARIABLES
  received,              \* chunks read from the transport
  pc,                    \* where the read thread is
  readBuffer,
  sinceDispatch,         \* the time passed since lastReadDispatchTime
  data,                  \* the text notifyData was called with
  sinceNow,              \* the time passed since it read the clock
  delay,                 \* its local variable delay
  sinceFrame,            \* the time passed since lastFrameTime
  pendingData,
  pendingUpdateScheduled,
  looper,                \* callbacks of the main thread, by due time
  listener,              \* a screen listens
  switches,              \* listeners added so far
  delivered              \* what the screens have been given, in order

timeVars == <<sinceDispatch, sinceNow, sinceFrame>>
readVars == <<received, pc, readBuffer, data, delay, timeVars>>
pendingVars == <<pendingData, pendingUpdateScheduled>>
mainVars == <<listener, switches, delivered>>
vars == <<readVars, pendingVars, looper, mainVars>>

Text == Seq(1 .. Chunks)
Callback == [wait : 0 .. MIN_FRAME_TIME, kind : {"data", "batch", "flush"}, text : Text]

TypeOK ==
  /\ {sinceDispatch, sinceNow, sinceFrame, delay} \subseteq 0 .. MIN_FRAME_TIME
  /\ received \in 0 .. Chunks
  /\ pc \in {"read", "notify", "post", "gather", "ended"}
  /\ readBuffer \in Text /\ data \in Text /\ pendingData \in Text /\ delivered \in Text
  /\ pendingUpdateScheduled \in BOOLEAN /\ listener \in BOOLEAN
  /\ looper \in Seq(Callback)
  /\ switches \in 0 .. MaxSwitches

(* The code starts lastReadDispatchTime and lastFrameTime at 0, long ago:   *)
(* the first dispatch is never held back.                                  *)
Init ==
  /\ received = 0 /\ pc = "read"
  /\ readBuffer = <<>> /\ data = <<>> /\ pendingData = <<>> /\ delivered = <<>>
  /\ sinceDispatch = MIN_FRAME_TIME /\ sinceFrame = MIN_FRAME_TIME
  /\ sinceNow = 0 /\ delay = 0
  /\ pendingUpdateScheduled = FALSE /\ looper = <<>>
  /\ listener \in BOOLEAN /\ switches = 0

Later(age) == IF age < MIN_FRAME_TIME THEN age + 1 ELSE age
Sooner(callback) == [callback EXCEPT !.wait = IF @ = 0 THEN 0 ELSE @ - 1]

Tick ==
  /\ sinceDispatch' = Later(sinceDispatch)
  /\ sinceNow' = Later(sinceNow)
  /\ sinceFrame' = Later(sinceFrame)
  /\ looper' = [i \in 1 .. Len(looper) |-> Sooner(looper[i])]
  /\ UNCHANGED <<received, pc, readBuffer, data, delay, pendingVars, mainVars>>

(* Handler.post and postDelayed: the callbacks run in the order of their    *)
(* due times, and those due at the same time in the order of the posts; a  *)
(* callback that is overdue comes before a new one.                        *)
Post(wait, kind, text) ==
  \E k \in 0 .. Len(looper) :
    /\ \A i \in 1 .. k : looper[i].wait <= wait
    /\ \A i \in k + 1 .. Len(looper) : looper[i].wait > wait
    /\ looper' = SubSeq(looper, 1, k)
                  \o <<[wait |-> wait, kind |-> kind, text |-> text]>>
                  \o SubSeq(looper, k + 1, Len(looper))

-----------------------------------------------------------------------------
(* startReading: text gathers in readBuffer until a frame has passed or     *)
(* there is a lot of it (READ_BATCH_SIZE), which any read may bring.       *)

Dispatch(text) ==
  /\ data' = text
  /\ readBuffer' = <<>>
  /\ sinceDispatch' = 0
  /\ pc' = "notify"

Keep(text) == /\ readBuffer' = text
              /\ UNCHANGED <<data, sinceDispatch, pc>>

Read ==
  /\ pc = "read" /\ received < Chunks
  /\ received' = received + 1
  /\ LET text == Append(readBuffer, received')
     IN \/ Dispatch(text)
        \/ sinceDispatch < MIN_FRAME_TIME /\ Keep(text)
  /\ UNCHANGED <<delay, sinceNow, sinceFrame, pendingVars, looper, mainVars>>

(* A read that brings nothing.                                             *)
ReadNothing ==
  /\ pc = "read" /\ readBuffer # <<>>
  /\ sinceDispatch = MIN_FRAME_TIME
  /\ Dispatch(readBuffer)
  /\ UNCHANGED <<received, delay, sinceNow, sinceFrame, pendingVars, looper, mainVars>>

LastTextDropped == data' = <<>> /\ pc' = "ended"
LastText == /\ data' = readBuffer
            /\ pc' = IF readBuffer = <<>> THEN "ended" ELSE "notify"

(* The loop ends and sends what is left.                                   *)
EndLoop ==
  /\ pc = "read" /\ received = Chunks
  /\ LastText
  /\ readBuffer' = <<>>
  /\ UNCHANGED <<received, delay, timeVars, pendingVars, looper, mainVars>>

DelayAfter(since) == MIN_FRAME_TIME - since

(* notifyData reads the clock ...                                          *)
NotifyData ==
  /\ pc = "notify"
  /\ sinceNow' = 0
  /\ delay' = DelayAfter(sinceFrame)
  /\ pc' = IF delay' = 0 THEN "post" ELSE "gather"
  /\ UNCHANGED <<received, readBuffer, data, sinceDispatch, sinceFrame, pendingVars,
                 looper, mainVars>>

(* ... and posts the text ...                                              *)
PostData ==
  /\ pc = "post"
  /\ sinceFrame' = sinceNow
  /\ Post(0, "data", data)
  /\ data' = <<>> /\ pc' = "read"
  /\ UNCHANGED <<received, readBuffer, delay, sinceDispatch, sinceNow, pendingVars, mainVars>>

(* ... or adds it to pendingData and makes sure that a callback comes.     *)
Gather ==
  /\ pc = "gather"
  /\ pendingData' = pendingData \o data
  /\ IF pendingUpdateScheduled THEN UNCHANGED looper ELSE Post(delay, "batch", <<>>)
  /\ pendingUpdateScheduled' = TRUE
  /\ data' = <<>> /\ pc' = "read"
  /\ UNCHANGED <<received, readBuffer, delay, timeVars, mainVars>>

-----------------------------------------------------------------------------
(* The callbacks, on the main thread.  A text that finds no listener goes   *)
(* (back) to pendingData.                                                  *)

Due(kind) == looper # <<>> /\ looper[1].wait = 0 /\ looper[1].kind = kind

KeptTextForgotten(text) == pendingData
KeptText(text) == pendingData \o text

Hand(text) ==
  IF listener THEN delivered' = delivered \o text /\ UNCHANGED pendingData
              ELSE pendingData' = KeptText(text) /\ UNCHANGED delivered

RunData ==
  /\ Due("data") \/ Due("flush")
  /\ looper' = Tail(looper)
  /\ Hand(looper[1].text)
  /\ UNCHANGED <<readVars, pendingUpdateScheduled, listener, switches>>

(* The batch is taken and sent under the lock of pendingData.              *)
StillScheduled == TRUE
NoLongerScheduled == FALSE

RunBatch ==
  /\ Due("batch")
  /\ looper' = Tail(looper)
  /\ IF listener THEN delivered' = delivered \o pendingData /\ pendingData' = <<>>
                 ELSE UNCHANGED <<delivered, pendingData>>
  /\ pendingUpdateScheduled' = NoLongerScheduled
  /\ UNCHANGED <<readVars, listener, switches>>

(* addListener and flushPendingDataIfNeeded.                               *)
AddListener ==
  /\ ~listener /\ switches < MaxSwitches
  /\ listener' = TRUE /\ switches' = switches + 1
  /\ IF pendingData = <<>> THEN UNCHANGED <<pendingVars, looper>>
     ELSE /\ Post(0, "flush", pendingData)
          /\ pendingData' = <<>>
          /\ pendingUpdateScheduled' = FALSE
  /\ UNCHANGED <<readVars, delivered>>

(* A screen leaves, as long as another one may come.                       *)
RemoveListener ==
  /\ listener /\ switches < MaxSwitches
  /\ listener' = FALSE
  /\ UNCHANGED <<readVars, pendingVars, looper, switches, delivered>>

-----------------------------------------------------------------------------
ReadThread == Read \/ ReadNothing \/ EndLoop \/ NotifyData \/ PostData \/ Gather
MainThread == RunData \/ RunBatch

Next == Tick \/ ReadThread \/ MainThread \/ AddListener \/ RemoveListener

(* Time passes, both threads get to run, and after a screen has left        *)
(* another one comes.                                                      *)
Fairness == WF_vars(Tick) /\ WF_vars(ReadThread) /\ WF_vars(MainThread) /\ WF_vars(AddListener)

SafetySpec == Init /\ [][Next]_vars
Spec == SafetySpec /\ Fairness

-----------------------------------------------------------------------------
(* Every chunk read is in exactly one place, and once: the screen,          *)
(* pendingData, the hands of notifyData, the read buffer, or a callback.    *)
Texts == <<delivered, pendingData, data, readBuffer>>
           \o [i \in 1 .. Len(looper) |-> looper[i].text]

NothingLostOrDoubled ==
  /\ UNION {ToSet(Texts[i]) : i \in DOMAIN Texts} = 1 .. received
  /\ \A i, j \in DOMAIN Texts : \A m \in DOMAIN Texts[i], n \in DOMAIN Texts[j] :
       Texts[i][m] = Texts[j][n] => i = j /\ m = n

(* Text never waits in pendingData while a screen listens and no callback  *)
(* is on its way to send it: a later read need not come.                   *)
PendingIsScheduled ==
  pendingData # <<>> /\ listener => \E i \in 1 .. Len(looper) : looper[i].kind = "batch"

(* The screen gets all the output there is.                                *)
OutputArrives == <>(Len(delivered) = Chunks)

(* The screen gets the output in the order in which the server sent it.    *)
OrderKept == \A i \in 1 .. Len(delivered) : delivered[i] = i
=============================================================================
