---------------------------- MODULE TransferQueue ----------------------------
(***************************************************************************)
(* The background transfer service (SftpTransferService): a list of        *)
(* waiting tasks, the list of active ones, a fixed pool of worker threads, *)
(* and the main thread that receives the intents.  processNextTransfer is  *)
(* called by the main thread and by every worker; the lists are guarded by *)
(* transferLock, the fields of a task and the shared-handle marks are not. *)
(*                                                                         *)
(* One step is one critical section, one call on a concurrent map, or one  *)
(* stretch of code that touches nothing another thread can see.            *)
(***************************************************************************)
EXTENDS Naturals, Sequences, FiniteSets, SequencesExt

CONSTANTS
  Task,                     \* the TransferTask objects the user may enqueue
  Worker,                   \* the threads of the executor
  Main,                     \* the main thread of the process
  NoTask,                   \* null
  Key,                      \* host:port:user, the keys of sharedHandleInUse
  KeyOf,                    \* the host a task talks to
  TypeOf,                   \* what a task does
  MAX_PARALLEL_TRANSFERS,
  DEFAULT_RETRIES,
  Faults,                   \* which errors a transfer may meet
  Disturbances,             \* what may happen besides ENQUEUE intents
  MaxInbox                  \* bound: intents waiting on the main thread

Thread == Worker \cup {Main}
Result == {"none", "done", "canceled", "fatal", "retryable"}

ASSUME ConstantsAssumption ==
  /\ MAX_PARALLEL_TRANSFERS \in Nat \ {0}
  /\ DEFAULT_RETRIES \in Nat
  /\ MaxInbox \in Nat \ {0}
  /\ IsFiniteSet(Worker)
  /\ Cardinality(Worker) = MAX_PARALLEL_TRANSFERS
  /\ Main \notin Worker
  /\ NoTask \notin Task
  /\ "fresh" \notin Key /\ "none" \notin Key
  /\ KeyOf \in [Task -> Key]
  /\ TypeOf \in [Task -> {"download", "upload"}]
  /\ Faults \subseteq {"fatal", "retryable"}
  /\ Disturbances \subseteq {"cancel", "stop", "terminal"}

VARIABLES
  inbox,        \* intents and the destroy request queued on the main thread
  sent,         \* tasks the user has already sent
  queue,        \* transferQueueList
  active,       \* activeTransfers
  primary,      \* activeTransfer
  completed,    \* completedTransfers
  pool,         \* the work queue of the executor
  shutdown,     \* the executor has been shut down
  stopping,     \* stopSelf() has reached the system
  foreground,   \* isForeground
  panel,        \* the visible flag of the last UI update sent to SftpActivity
  crashed,      \* an uncaught exception has ended the process
  pc,           \* where each thread is
  cur,          \* the task each thread has in its local variable
  toStart,      \* the local list toStart of processNextTransfer
  handle,       \* the local variable handle of a worker
  result,       \* how the transfer of a worker went
  requeued,     \* the local variable requeued of a worker
  cancel,       \* task.cancelRequested
  retries,      \* task.retriesRemaining
  shared,       \* task.isSharedHandle (sharedHandleKey is then KeyOf[task])
  inUse,        \* the keys of sharedHandleInUse
  terminal,     \* hosts with a connected terminal session
  \* History variables: the code has none of these.
  accepted,     \* tasks ever put on transferQueueList by an intent
  endings,      \* done, canceled and failed events sent for a task
  opened,       \* connections opened by connectFresh and not yet closed
  torn,         \* how often a transfer has disconnected a terminal's session
  crossed       \* workers whose mark another run of their task has given back

uiVars == <<foreground, panel>>
taskVars == <<cancel, retries, shared>>
localVars == <<cur, toStart, handle, result, requeued>>
listVars == <<queue, active, primary, completed>>
serviceVars == <<inbox, sent, pool, shutdown, stopping, uiVars, crashed>>
worldVars == <<inUse, terminal, opened, torn, crossed>>
historyVars == <<accepted, endings>>
vars == <<pc, taskVars, localVars, listVars, serviceVars, worldVars, historyVars>>

-----------------------------------------------------------------------------
(* Where a worker is while its task still fills a slot of activeTransfers. *)
Running == {"begin", "connect", "claim", "fresh", "opened", "moving", "close",
            "report", "backoff", "release", "remove"}

Message == [kind : {"enqueue"}, task : Task]
             \cup [kind : {"cancel", "stop", "destroy"}, task : {NoTask}]

Place == Running \cup {"idle", "cancel", "announce", "fill", "peek", "notify", "dispatch"}

ListsOK ==
  /\ queue \in Seq(Task) /\ active \in Seq(Task)
  /\ primary \in Task \cup {NoTask}
  /\ completed \in Nat /\ accepted \in Nat

ServiceOK ==
  /\ inbox \in Seq(Message) /\ pool \in Seq(Task)
  /\ sent \subseteq Task

FlagsOK ==
  /\ shutdown \in BOOLEAN /\ stopping \in BOOLEAN /\ crashed \in BOOLEAN
  /\ foreground \in BOOLEAN /\ panel \in BOOLEAN

ThreadsOK ==
  /\ pc \in [Thread -> Place]
  /\ cur \in [Thread -> Task \cup {NoTask}]
  /\ toStart \in [Thread -> Seq(Task)]
  /\ handle \in [Worker -> Key \cup {"none", "fresh"}]
  /\ result \in [Worker -> Result]
  /\ requeued \in [Worker -> BOOLEAN]

TasksOK ==
  /\ cancel \in [Task -> BOOLEAN]
  /\ retries \in [Task -> 0 .. DEFAULT_RETRIES]
  /\ shared \in [Task -> BOOLEAN]
  /\ endings \in [Task -> Nat]

WorldOK ==
  /\ inUse \subseteq Key /\ terminal \subseteq Key
  /\ opened \in Nat /\ torn \in Nat /\ crossed \subseteq Worker

TypeOK == ListsOK /\ ServiceOK /\ FlagsOK /\ ThreadsOK /\ TasksOK /\ WorldOK

(* A thread that works on a task has one in its local variable, one that    *)
(* moves data has a handle, and there are at least as many open connections *)
(* as transfers that use their own.                                         *)
Owners == {w \in Worker : handle[w] = "fresh"}
LocalsOK ==
  /\ \A w \in Worker : pc[w] \in Running => cur[w] \in Task
  /\ \A w \in Worker : pc[w] \in {"opened", "moving", "close"} => handle[w] # "none"
  /\ pc[Main] = "cancel" => cur[Main] \in Task
  /\ pc[Main] \notin Running
  /\ Cardinality(Owners) <= opened

Init ==
  /\ inbox = <<>> /\ sent = {}
  /\ queue = <<>> /\ active = <<>> /\ pool = <<>>
  /\ primary = NoTask
  /\ completed = 0 /\ accepted = 0
  /\ shutdown = FALSE /\ stopping = FALSE
  /\ foreground = FALSE /\ panel = FALSE /\ crashed = FALSE
  /\ pc = [th \in Thread |-> "idle"]
  /\ cur = [th \in Thread |-> NoTask]
  /\ toStart = [th \in Thread |-> <<>>]
  /\ handle = [w \in Worker |-> "none"]
  /\ result = [w \in Worker |-> "none"]
  /\ requeued = [w \in Worker |-> FALSE]
  /\ cancel = [t \in Task |-> FALSE]
  /\ retries = [t \in Task |-> DEFAULT_RETRIES]
  /\ shared = [t \in Task |-> FALSE]
  /\ inUse = {} /\ torn = 0 /\ crossed = {}
  /\ terminal \in SUBSET Key
  /\ endings = [t \in Task |-> 0]
  /\ opened = 0

-----------------------------------------------------------------------------
(* The user, through startService.  Once stopSelf() has reached the system *)
(* a new intent goes to a new instance of the service, which is not part   *)
(* of this module.                                                         *)

Send(message) ==
  /\ ~stopping
  /\ Len(inbox) < MaxInbox
  /\ inbox' = Append(inbox, message)

EnqueueTransfer(t) ==
  /\ t \notin sent
  /\ Send([kind |-> "enqueue", task |-> t])
  /\ sent' = sent \cup {t}
  /\ UNCHANGED <<pc, taskVars, localVars, listVars, pool, shutdown, stopping,
                 uiVars, crashed, worldVars, historyVars>>

SendControl(kind) ==
  /\ Send([kind |-> kind, task |-> NoTask])
  /\ UNCHANGED <<sent, pc, taskVars, localVars, listVars, pool, shutdown,
                 stopping, uiVars, crashed, worldVars, historyVars>>

(* stopSelf() without a startId stops the service whatever has been started *)
(* since: onDestroy is queued behind the intents already on their way.      *)
StopSelf(waiting) ==
  /\ stopping' = TRUE
  /\ inbox' = IF stopping THEN waiting
              ELSE Append(waiting, [kind |-> "destroy", task |-> NoTask])

-----------------------------------------------------------------------------
(* The main thread: onStartCommand and onDestroy.                          *)

Receive(kind) ==
  /\ pc[Main] = "idle"
  /\ inbox # <<>>
  /\ Head(inbox).kind = kind

OnEnqueue ==
  /\ Receive("enqueue")
  /\ inbox' = Tail(inbox)
  /\ queue' = Append(queue, Head(inbox).task)
  /\ accepted' = accepted + 1
  /\ pc' = [pc EXCEPT ![Main] = "fill"]
  /\ UNCHANGED <<taskVars, localVars, active, primary, completed, sent, pool,
                 shutdown, stopping, uiVars, crashed, worldVars, endings>>

(* requestCancelActiveTransfer reads activeTransfer under the lock ...     *)
OnCancel ==
  /\ Receive("cancel")
  /\ inbox' = Tail(inbox)
  /\ cur' = [cur EXCEPT ![Main] = primary]
  /\ pc' = [pc EXCEPT ![Main] = IF primary = NoTask THEN "idle" ELSE "cancel"]
  /\ UNCHANGED <<taskVars, toStart, handle, result, requeued, listVars, sent, pool,
                 shutdown, stopping, uiVars, crashed, worldVars, historyVars>>

(* ... and marks the task it read after leaving it.                        *)
RequestCancel ==
  /\ pc[Main] = "cancel"
  /\ cancel' = [cancel EXCEPT ![cur[Main]] = TRUE]
  /\ foreground' = TRUE /\ panel' = TRUE
  /\ cur' = [cur EXCEPT ![Main] = NoTask]
  /\ pc' = [pc EXCEPT ![Main] = "idle"]
  /\ UNCHANGED <<retries, shared, toStart, handle, result, requeued, listVars,
                 inbox, sent, pool, shutdown, stopping, crashed, worldVars, historyVars>>

OnStop ==
  /\ Receive("stop")
  /\ StopSelf(Tail(inbox))
  /\ foreground' = FALSE
  /\ UNCHANGED <<panel, pc, taskVars, localVars, listVars, sent, pool, shutdown, crashed,
                 worldVars, historyVars>>

(* shutdownNow drops the work queue; a worker in the middle of a native     *)
(* call runs on, and one in its retry delay wakes up and goes on as usual.  *)
OnDestroy ==
  /\ Receive("destroy")
  /\ inbox' = Tail(inbox)
  /\ shutdown' = TRUE
  /\ pool' = <<>>
  /\ UNCHANGED <<pc, taskVars, localVars, listVars, sent, stopping, uiVars,
                 crashed, worldVars, historyVars>>

-----------------------------------------------------------------------------
(* processNextTransfer, on the main thread or on a worker.                 *)

NothingLeftIgnoringActive == queue = <<>>
NothingLeft == active = <<>> /\ queue = <<>>

(* The critical section: stop when nothing is left, else fill the slots.   *)
Fill(th) ==
  /\ pc[th] = "fill"
  /\ \/ /\ NothingLeft
        /\ StopSelf(inbox)
        /\ panel' = FALSE /\ foreground' = FALSE
        /\ pc' = [pc EXCEPT ![th] = "idle"]
        /\ UNCHANGED <<toStart, queue, active, primary>>
     \/ /\ ~NothingLeft
        /\ LET room  == MAX_PARALLEL_TRANSFERS - Len(active)
               taken == IF Len(queue) < room THEN Len(queue) ELSE room
               next  == SubSeq(queue, 1, taken)
               first == primary = NoTask /\ taken > 0
           IN /\ queue' = SubSeq(queue, taken + 1, Len(queue))
              /\ active' = active \o next
              /\ toStart' = [toStart EXCEPT ![th] = next]
              /\ primary' = IF first THEN next[1] ELSE primary
              /\ pc' = [pc EXCEPT ![th] = IF first THEN "notify" ELSE "peek"]
        /\ UNCHANGED <<inbox, stopping, uiVars>>
  /\ UNCHANGED <<taskVars, cur, handle, result, requeued, completed, sent, pool,
                 shutdown, crashed, worldVars, historyVars>>

(* A second critical section reads activeTransfer for the notification.    *)
Peek(th) ==
  /\ pc[th] = "peek"
  /\ pc' = [pc EXCEPT ![th] = IF primary = NoTask THEN "dispatch" ELSE "notify"]
  /\ UNCHANGED <<taskVars, localVars, listVars, serviceVars, worldVars, historyVars>>

(* sendUiUpdate(true, ...) and updateNotification, outside the lock.       *)
Notify(th) ==
  /\ pc[th] \in {"notify", "announce"}
  /\ panel' = TRUE /\ foreground' = TRUE
  /\ pc' = [pc EXCEPT ![th] = IF pc[th] = "announce" THEN "fill" ELSE "dispatch"]
  /\ UNCHANGED <<taskVars, localVars, listVars, inbox, sent, pool, shutdown,
                 stopping, crashed, worldVars, historyVars>>

(* executor.execute for each started task; once the executor is shut down  *)
(* it throws, and nothing catches the exception.                           *)
Dispatch(th) ==
  /\ pc[th] = "dispatch"
  /\ \/ /\ toStart[th] = <<>>
        /\ pc' = [pc EXCEPT ![th] = "idle"]
        /\ UNCHANGED <<pool, toStart, crashed>>
     \/ /\ toStart[th] # <<>> /\ ~shutdown
        /\ pool' = Append(pool, Head(toStart[th]))
        /\ toStart' = [toStart EXCEPT ![th] = Tail(@)]
        /\ UNCHANGED <<pc, crashed>>
     \/ /\ toStart[th] # <<>> /\ shutdown
        /\ crashed' = TRUE
        /\ UNCHANGED <<pc, pool, toStart>>
  /\ UNCHANGED <<taskVars, cur, handle, result, requeued, listVars, inbox, sent,
                 shutdown, stopping, uiVars, worldVars, historyVars>>

-----------------------------------------------------------------------------
(* runTransferTask on worker w.  A worker of the pool takes a task only     *)
(* when it has returned from the one before.                                *)

(* The worker's step from one place to another, with the task's result.    *)
Goto(w, to) == pc' = [pc EXCEPT ![w] = to]
Outcome(w, r) == result' = [result EXCEPT ![w] = r]

Take(w) ==
  /\ pc[w] = "idle"
  /\ pool # <<>>
  /\ pool' = Tail(pool)
  /\ cur' = [cur EXCEPT ![w] = Head(pool)]
  /\ requeued' = [requeued EXCEPT ![w] = FALSE]
  /\ Outcome(w, "none")
  /\ Goto(w, "begin")
  /\ UNCHANGED <<taskVars, toStart, handle, listVars, inbox, sent, shutdown,
                 stopping, uiVars, crashed, worldVars, historyVars>>

Begin(w) ==
  /\ pc[w] = "begin"
  /\ IF cancel[cur[w]] THEN Goto(w, "report") /\ Outcome(w, "canceled")
                       ELSE Goto(w, "connect") /\ UNCHANGED result
  /\ UNCHANGED <<taskVars, cur, toStart, handle, requeued, listVars, serviceVars,
                 worldVars, historyVars>>

(* connect: the key looks free and a terminal is connected to the host ... *)
Connect(w) ==
  LET key == KeyOf[cur[w]] IN
  /\ pc[w] = "connect"
  /\ Goto(w, IF key \notin inUse /\ key \in terminal THEN "claim" ELSE "fresh")
  /\ UNCHANGED <<taskVars, localVars, listVars, serviceVars, worldVars, historyVars>>

TakenUnchecked(key) == FALSE
Taken(key) == key \in inUse

(* ... putIfAbsent claims the key unless another worker has.               *)
Claim(w) ==
  LET key == KeyOf[cur[w]] IN
  /\ pc[w] = "claim"
  /\ IF Taken(key)
     THEN /\ Goto(w, "fresh")
          /\ UNCHANGED <<inUse, shared, handle>>
     ELSE /\ inUse' = inUse \cup {key}
          /\ shared' = [shared EXCEPT ![cur[w]] = TRUE]
          /\ handle' = [handle EXCEPT ![w] = key]
          /\ Goto(w, "opened")
  /\ UNCHANGED <<cancel, retries, cur, toStart, result, requeued, listVars,
                 serviceVars, terminal, opened, torn, crossed, historyVars>>

(* connectFresh opens a connection of the transfer's own, or throws.       *)
ConnectFresh(w) ==
  /\ pc[w] = "fresh"
  /\ \/ /\ shared' = [shared EXCEPT ![cur[w]] = FALSE]
        /\ handle' = [handle EXCEPT ![w] = "fresh"]
        /\ opened' = opened + 1
        /\ Goto(w, "opened")
        /\ UNCHANGED result
     \/ /\ \E f \in Faults : Outcome(w, f)
        /\ Goto(w, "report")
        /\ UNCHANGED <<shared, handle, opened>>
  /\ UNCHANGED <<cancel, retries, cur, toStart, requeued, listVars, serviceVars,
                 inUse, terminal, torn, crossed, historyVars>>

(* What an upload does between connect and its try block: the cancel check  *)
(* and the early return when the remote file is at least as large leave     *)
(* the handle as it is.  A download is inside its try block already.        *)
Prepare(w) ==
  /\ pc[w] = "opened"
  /\ \/ /\ TypeOf[cur[w]] = "upload"
        /\ \/ cancel[cur[w]] /\ Outcome(w, "canceled")
           \/ ~cancel[cur[w]] /\ Outcome(w, "done")
        /\ Goto(w, "report")
        /\ handle' = [handle EXCEPT ![w] = "none"]
     \/ /\ TypeOf[cur[w]] = "upload" => ~cancel[cur[w]]
        /\ Goto(w, "moving")
        /\ UNCHANGED <<result, handle>>
  /\ UNCHANGED <<taskVars, cur, toStart, requeued, listVars, serviceVars,
                 worldVars, historyVars>>

(* A block has moved: updateTransferUI, for the primary transfer only.     *)
Progress(w) ==
  /\ pc[w] = "moving"
  /\ cur[w] = primary
  /\ panel' = TRUE /\ foreground' = TRUE
  /\ UNCHANGED <<pc, taskVars, localVars, listVars, inbox, sent, pool, shutdown,
                 stopping, crashed, worldVars, historyVars>>

(* The try block of performDownload or of an upload ends: all moved,       *)
(* canceled at the check before a block, or an error.                      *)
EndMoving(w) ==
  /\ pc[w] = "moving"
  /\ \/ Outcome(w, "done")
     \/ cancel[cur[w]] /\ Outcome(w, "canceled")
     \/ \E f \in Faults : Outcome(w, f)
  /\ Goto(w, "close")
  /\ UNCHANGED <<taskVars, cur, toStart, handle, requeued, listVars, serviceVars,
                 worldVars, historyVars>>

OwnsEveryHandle(t) == TRUE
OwnsNoHandle(t) == FALSE
OwnsHandle(t) == ~shared[t]

(* Its finally block disconnects the handle unless the task says that it    *)
(* is the terminal's.                                                       *)
Close(w) ==
  /\ pc[w] = "close"
  /\ handle' = [handle EXCEPT ![w] = "none"]
  /\ IF ~OwnsHandle(cur[w]) THEN UNCHANGED <<opened, torn>>
     ELSE IF handle[w] = "fresh" THEN opened' = opened - 1 /\ UNCHANGED torn
     ELSE torn' = torn + 1 /\ UNCHANGED opened
  /\ Goto(w, "report")
  /\ UNCHANGED <<taskVars, cur, toStart, result, requeued, listVars, serviceVars,
                 inUse, terminal, crossed, historyVars>>

RetryWithoutLimit(w) == result[w] = "retryable"
RetryAgain(w) == result[w] = "retryable" /\ retries[cur[w]] > 0

EventsCountRetries(n, again) == n + 1
Events(n, again) == IF again THEN n ELSE n + 1

(* The events and the catch blocks of runTransferTask.                     *)
Report(w) ==
  LET t     == cur[w]
      again == RetryAgain(w)
  IN /\ pc[w] = "report"
     /\ retries' = [retries EXCEPT ![t] = IF again THEN @ - 1 ELSE @]
     /\ endings' = [endings EXCEPT ![t] = Events(@, again)]
     /\ Goto(w, IF again THEN "backoff" ELSE "release")
     /\ IF result[w] \in {"fatal", "retryable"} /\ t = primary
        THEN panel' = TRUE /\ foreground' = TRUE
        ELSE UNCHANGED uiVars
     /\ UNCHANGED <<cancel, shared, localVars, listVars, inbox, sent, pool, shutdown,
                    stopping, crashed, worldVars, accepted>>

(* After the delay the task goes back to the head of the list, while it    *)
(* still is in activeTransfers and still holds its shared handle.          *)
Requeue(w) ==
  /\ pc[w] = "backoff"
  /\ queue' = <<cur[w]>> \o queue
  /\ requeued' = [requeued EXCEPT ![w] = TRUE]
  /\ Goto(w, "release")
  /\ UNCHANGED <<taskVars, cur, toStart, handle, result, active, primary, completed,
                 serviceVars, worldVars, historyVars>>

(* The mark is the task's, not the run's: after a retry it may be that of   *)
(* the next run, which has claimed the session meanwhile and still uses it. *)
ReleaseSharedHandle(w) ==
  LET t == cur[w] IN
  /\ pc[w] = "release"
  /\ inUse' = IF shared[t] THEN inUse \ {KeyOf[t]} ELSE inUse
  /\ shared' = [shared EXCEPT ![t] = FALSE]
  /\ crossed' = crossed \cup {v \in Worker : cur[v] = t /\ handle[v] \in Key}
  /\ Goto(w, "remove")
  /\ UNCHANGED <<cancel, retries, localVars, listVars, serviceVars, terminal, opened,
                 torn, historyVars>>

RemoveEvery(s, t) == SelectSeq(s, LAMBDA x : x # t)
RemoveTask(s, t) == RemoveFirst(s, t)

CompletedAlways(w) == completed + 1
Completed(w) == IF requeued[w] THEN completed ELSE completed + 1

ElectNobody(t, rest) == IF rest = <<>> THEN NoTask ELSE primary
Elect(t, rest) == IF t # primary THEN primary
                  ELSE IF rest = <<>> THEN NoTask ELSE rest[1]

AfterLeavingNoRefill(t, rest) == IF t = primary /\ rest # <<>> THEN "announce" ELSE "idle"
AfterLeaving(t, rest) == IF t = primary /\ rest # <<>> THEN "announce" ELSE "fill"

(* The critical section of the finally block of runTransferTask.           *)
LeaveActive(w) ==
  LET t    == cur[w]
      rest == RemoveTask(active, t)
  IN /\ pc[w] = "remove"
     /\ active' = rest
     /\ completed' = Completed(w)
     /\ primary' = Elect(t, rest)
     /\ cur' = [cur EXCEPT ![w] = NoTask]
     /\ requeued' = [requeued EXCEPT ![w] = FALSE]
     /\ Outcome(w, "none")
     /\ Goto(w, AfterLeaving(t, rest))
     /\ crossed' = crossed \ {w}
     /\ UNCHANGED <<taskVars, toStart, handle, queue, serviceVars, inUse, terminal,
                    opened, torn, historyVars>>

-----------------------------------------------------------------------------
(* Terminals come and go while transfers run.                              *)
OpenTerminal(k) ==
  /\ terminal' = terminal \cup {k}
  /\ UNCHANGED <<pc, taskVars, localVars, listVars, serviceVars, inUse, opened, torn,
                 crossed, historyVars>>

CloseTerminal(k) ==
  /\ terminal' = terminal \ {k}
  /\ UNCHANGED <<pc, taskVars, localVars, listVars, serviceVars, inUse, opened, torn,
                 crossed, historyVars>>

User == \/ \E t \in Task : EnqueueTransfer(t)
        \/ \E kind \in {"cancel", "stop"} \cap Disturbances : SendControl(kind)

Terminals == /\ "terminal" \in Disturbances
             /\ \E k \in Key : OpenTerminal(k) \/ CloseTerminal(k)

ProcessNextTransfer(th) == Fill(th) \/ Peek(th) \/ Notify(th) \/ Dispatch(th)

MainThread == OnEnqueue \/ OnCancel \/ RequestCancel \/ OnStop \/ OnDestroy
              \/ ProcessNextTransfer(Main)

RunTransferTask(w) ==
  \/ Take(w) \/ Begin(w) \/ Connect(w) \/ Claim(w) \/ ConnectFresh(w) \/ Prepare(w)
  \/ EndMoving(w) \/ Close(w) \/ Report(w) \/ Requeue(w) \/ ReleaseSharedHandle(w)
  \/ LeaveActive(w) \/ ProcessNextTransfer(w)

Next == /\ ~crashed
        /\ \/ User \/ Terminals \/ MainThread
           \/ \E w \in Worker : RunTransferTask(w) \/ Progress(w)

(* The scheduler runs every thread that can run; the code's own calls       *)
(* return (the server answers or the connection breaks), and nobody has to  *)
(* send an intent.                                                          *)
Fairness == /\ WF_vars(~crashed /\ MainThread)
            /\ \A w \in Worker : WF_vars(~crashed /\ RunTransferTask(w))

SafetySpec == Init /\ [][Next]_vars
Spec == SafetySpec /\ Fairness

-----------------------------------------------------------------------------
(* At most MAX_PARALLEL_TRANSFERS tasks hold a slot, and activeTransfer is  *)
(* one of them whenever there is one: the cancel button and the progress   *)
(* always have a target, through every finish, retry and re-election.      *)
SlotsAndPrimary ==
  /\ Len(active) <= MAX_PARALLEL_TRANSFERS
  /\ IF active = <<>> THEN primary = NoTask ELSE primary \in ToSet(active)

(* getQueueText adds three counters read under one lock; the total is the  *)
(* number of tasks accepted, but for the tasks whose run has put them back *)
(* on the list and has not left activeTransfers yet.                       *)
Leaving == {w \in Worker : requeued[w]}
CountsAddUp ==
  completed + Len(active) + Len(queue) = accepted + Cardinality(Leaving)

(* No slot is lost: while the executor accepts work, every occurrence of a *)
(* task in activeTransfers is waiting to be dispatched, in the work queue, *)
(* or being run by a worker.  A lost slot would halve the service forever. *)
Occurrences(s, t) == Cardinality({i \in DOMAIN s : s[i] = t})
SlotsAreBacked ==
  ~shutdown => \A t \in Task :
    Occurrences(active, t) =
      Occurrences(pool, t)
        + Cardinality({p \in Thread \X (1 .. MAX_PARALLEL_TRANSFERS) :
                         p[2] \in DOMAIN toStart[p[1]] /\ toStart[p[1]][p[2]] = t})
        + Cardinality({w \in Worker : pc[w] \in Running /\ cur[w] = t})

(* Every task reports its end (done, canceled, failed) at most once, even  *)
(* when two runs of it overlap around a retry.                             *)
EndsOnce == \A t \in Task : endings[t] <= 1

(* While a transfer runs it is a foreground service: the isForeground that  *)
(* some thread clears when nothing is left never stays cleared for the     *)
(* next transfer.  (ACTION_STOP, which nothing in the code sends, clears   *)
(* it at any time; the instance checked leaves it out.)                    *)
ForegroundWhileRunning == (\E w \in Worker : pc[w] \in Running) => foreground

(* Two transfers never use the session of one terminal at once (the reason  *)
(* for sharedHandleInUse, "so that several tasks do not use one handle")    *)
Exclusive ==
  \A v, w \in Worker : v # w /\ handle[v] \in Key => handle[v] # handle[w]

(* So it is unless the mark of one of the two has been given back by        *)
(* another run of its task: whoever uses a session claimed it before, and   *)
(* nothing but that, or its end, lets it go.                                *)
SessionExclusive ==
  \A v, w \in Worker \ crossed : v # w /\ handle[v] \in Key => handle[v] # handle[w]

(* A transfer leaves the session of a terminal connected, whatever runs of  *)
(* its task overlap.  The exception is the code's: a run whose mark the run *)
(* before it has given back no longer knows that the session is borrowed,   *)
(* and disconnects it when it ends.                                         *)
TerminalHandleKept ==
  [][\E w \in crossed : handle[w] \in Key /\ handle'[w] = "none"]_torn

(* Every connection opened by connectFresh belongs to a running transfer:  *)
(* none is left open behind a transfer that has ended.                     *)
NoConnectionLeft == opened = Cardinality(Owners)

(* Every accepted task ends, unless the service is destroyed first.        *)
EveryTransferEnds ==
  \A t \in Task : (t \in ToSet(queue)) ~> (endings[t] > 0 \/ shutdown)

-----------------------------------------------------------------------------
(* The service implements TransferJobs.  A job waits from the moment it is *)
(* on the list, even if the run that put it back there has not yet left    *)
(* activeTransfers, and it is over when its last event has been sent.      *)
Backoff(t) == \E w \in Worker : pc[w] = "backoff" /\ cur[w] = t
Ended == {t \in Task : endings[t] > 0}

Jobs == INSTANCE TransferJobs WITH
  Job <- Task,
  Limit <- MAX_PARALLEL_TRANSFERS,
  Budget <- DEFAULT_RETRIES,
  waiting <- queue,
  underway <- ToSet(active) \ (ToSet(queue) \cup Ended),
  ended <- Ended,
  budget <- [t \in Task |-> IF Backoff(t) THEN retries[t] + 1 ELSE retries[t]]

(* Seen from outside, the service runs jobs as TransferJobs says: in order, *)
(* never more than the limit, each retried within its budget, each over     *)
(* once, whatever the threads do around a retry.                            *)
ImplementsJobs == Jobs!Spec
=============================================================================
