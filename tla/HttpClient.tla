----------------------------- MODULE HttpClient -----------------------------
(***************************************************************************)
(* The HttpClient instance with its asynchronous dispatcher               *)
(* (src/ixwebsocket/IXHttpClient.cpp, lines 27-103): callers make         *)
(* synchronous calls of request() or enqueue a task with performRequest;  *)
(* in async mode one worker thread (run) pops tasks in FIFO order, runs   *)
(* request() for each and invokes its callback; the destructor raises     *)
(* _stop, notifies the condition variable and joins the worker.  The      *)
(* callers' synchronous calls and the worker's calls share _mutex and     *)
(* _socket (module HttpRequest).                                          *)
(***************************************************************************)
EXTENDS HttpRequest

CONSTANTS
    Callers,   \* application threads using the client
    Worker,    \* the thread started by the constructor in async mode
    Async      \* the constructor's `async` argument

ASSUME ClientAssumption ==
    /\ Callers # {} /\ Worker \notin Callers
    /\ Threads = Callers \cup {Worker}
    /\ Async \in BOOLEAN

(* A queued task: who enqueued it (its k-th operation) and its args.      *)
Tasks == [id: Callers \X (1..MaxCalls), verb: Verbs, extra: ExtraHeaderChoices]
NoTask == [id |-> <<Worker, 0>>, verb |-> CHOOSE v \in Verbs : TRUE,
           extra |-> <<>>]

VARIABLES
    queue,      \* _queue: the pending tasks, front first
    qowner,     \* _queueMutex: the thread that holds it
    stop,       \* _stop (std::atomic<bool>)
    wpc,        \* the worker's place in run(); "waiting" = blocked in wait()
    cur,        \* the worker's local args/callback: the task it popped
    cpc,        \* per caller: "ready", or "notify" between push and notify_one
    dpc,        \* the destroying thread's place in ~HttpClient()
    aborted,    \* std::terminate ran: an exception left the worker thread
    enqueued,   \* history: ids of the tasks enqueued, in order
    delivered   \* history: ids of the tasks whose callback ran, in order

clientVars == <<queue, qowner, stop, wpc, cur, cpc, dpc, aborted, enqueued,
                delivered>>
vars == <<reqVars, clientVars>>

-----------------------------------------------------------------------------
(* _condition.notify_one(): wakes the worker if it is in wait().          *)
NotifyOne ==
    wpc' = IF wpc = "waiting" THEN "lock" ELSE wpc

(* A caller's synchronous get/head/del/post/put.                          *)
SyncCall(c) ==
    /\ cpc[c] = "ready"
    /\ Call(c)
    /\ UNCHANGED clientVars

(* performRequest, lines 52-70: false at once in sync mode; otherwise     *)
(* push under _queueMutex, then (lock released) notify_one.               *)
PerformRequest(c) ==
    /\ cpc[c] = "ready" /\ pc[c] = "idle"
    /\ calls[c] < MaxCalls
    /\ calls' = [calls EXCEPT ![c] = @ + 1]
    /\ \/ /\ ~Async
          /\ UNCHANGED clientVars
       \/ /\ Async
          /\ qowner = NoOwner
          /\ \E v \in Verbs, x \in ExtraHeaderChoices :
                LET task == [id |-> <<c, calls[c] + 1>>, verb |-> v, extra |-> x]
                IN /\ queue' = Append(queue, task)
                   /\ enqueued' = Append(enqueued, task.id)
          /\ cpc' = [cpc EXCEPT ![c] = "notify"]
          /\ UNCHANGED <<qowner, stop, wpc, cur, dpc, aborted, delivered>>
    /\ UNCHANGED <<pc, verb, extra, depth, frameVars, resp, owner, socket>>

(* Mutant of PerformNotify: the notify_one after the push is missing.     *)
PerformNotifyLost(c) ==
    /\ cpc[c] = "notify"
    /\ cpc' = [cpc EXCEPT ![c] = "ready"]
    /\ UNCHANGED <<reqVars, queue, qowner, stop, wpc, cur, dpc, aborted,
                   enqueued, delivered>>

(* The caller's notify_one after releasing _queueMutex.                   *)
PerformNotify(c) ==
    /\ cpc[c] = "notify"
    /\ NotifyOne
    /\ cpc' = [cpc EXCEPT ![c] = "ready"]
    /\ UNCHANGED <<reqVars, queue, qowner, stop, cur, dpc, aborted, enqueued,
                   delivered>>

(* run(), lines 79-80: std::unique_lock on _queueMutex.                   *)
WorkerLock ==
    /\ wpc = "lock"
    /\ qowner = NoOwner
    /\ qowner' = Worker
    /\ wpc' = "check"
    /\ UNCHANGED <<reqVars, queue, stop, cur, cpc, dpc, aborted, enqueued,
                   delivered>>

(* Mutant of WorkerCheck: the task popped is the newest, not the oldest.  *)
WorkerCheckLifo ==
    /\ wpc = "check"
    /\ \/ /\ ~stop /\ queue = <<>>
          /\ wpc' = "wait"
          /\ UNCHANGED <<queue, qowner, cur>>
       \/ /\ stop
          /\ wpc' = "exit" /\ qowner' = NoOwner
          /\ UNCHANGED <<queue, cur>>
       \/ /\ ~stop /\ queue # <<>>
          /\ cur' = queue[Len(queue)]
          /\ queue' = SubSeq(queue, 1, Len(queue) - 1)
          /\ wpc' = "check2" /\ qowner' = NoOwner
    /\ UNCHANGED <<reqVars, stop, cpc, dpc, aborted, enqueued, delivered>>

(* Lines 82-94, with the lock held: while (!_stop && _queue.empty())      *)
(* decides to wait; `if (_stop) return;`; otherwise pop the front task    *)
(* and release the lock.                                                  *)
WorkerCheck ==
    /\ wpc = "check"
    /\ \/ /\ ~stop /\ queue = <<>>
          /\ wpc' = "wait"
          /\ UNCHANGED <<queue, qowner, cur>>
       \/ /\ stop
          /\ wpc' = "exit" /\ qowner' = NoOwner
          /\ UNCHANGED <<queue, cur>>
       \/ /\ ~stop /\ queue # <<>>
          /\ cur' = Head(queue)
          /\ queue' = Tail(queue)
          /\ wpc' = "check2" /\ qowner' = NoOwner
    /\ UNCHANGED <<reqVars, stop, cpc, dpc, aborted, enqueued, delivered>>

(* _condition.wait(lock): releases _queueMutex and sleeps.                *)
WorkerWait ==
    /\ wpc = "wait"
    /\ wpc' = "waiting" /\ qowner' = NoOwner
    /\ UNCHANGED <<reqVars, queue, stop, cur, cpc, dpc, aborted, enqueued,
                   delivered>>

(* wait() may return without a notify; the worker then re-locks.          *)
SpuriousWakeup ==
    /\ wpc = "waiting"
    /\ wpc' = "lock"
    /\ UNCHANGED <<reqVars, queue, qowner, stop, cur, cpc, dpc, aborted,
                   enqueued, delivered>>

(* Line 96: `if (_stop) return;` drops the popped task; otherwise         *)
(* request(args->url, args->verb, args->body, args).                      *)
WorkerStart ==
    /\ wpc = "check2"
    /\ \/ /\ stop
          /\ wpc' = "exit"
          /\ UNCHANGED <<reqVars>>
       \/ /\ ~stop
          /\ wpc' = "request"
          /\ Enter(Worker, cur.verb, cur.extra)
          /\ UNCHANGED <<calls, owner, socket>>
    /\ UNCHANGED <<queue, qowner, stop, cur, cpc, dpc, aborted, enqueued,
                   delivered>>

(* Mutant of WorkerDeliver: the callback is only invoked for a response  *)
(* without error; a failed task is dropped silently.                      *)
WorkerDeliverOnlyOk ==
    /\ wpc = "request" /\ pc[Worker] = "idle"
    /\ \/ /\ resp[Worker].err # "Exception"
          /\ delivered' = IF resp[Worker].err = "Ok"
                          THEN Append(delivered, cur.id) ELSE delivered
          /\ wpc' = IF stop THEN "exit" ELSE "lock"
          /\ UNCHANGED aborted
       \/ /\ resp[Worker].err = "Exception"
          /\ aborted' = TRUE
          /\ UNCHANGED <<wpc, delivered>>
    /\ UNCHANGED <<reqVars, queue, qowner, stop, cur, cpc, dpc, enqueued>>

(* Lines 99-101: onResponseCallback(response), then `if (_stop) return;`. *)
(* An exception out of request() on this thread calls std::terminate.     *)
WorkerDeliver ==
    /\ wpc = "request" /\ pc[Worker] = "idle"
    /\ \/ /\ resp[Worker].err # "Exception"
          /\ delivered' = Append(delivered, cur.id)
          /\ wpc' = IF stop THEN "exit" ELSE "lock"
          /\ UNCHANGED aborted
       \/ /\ resp[Worker].err = "Exception"
          /\ aborted' = TRUE
          /\ UNCHANGED <<wpc, delivered>>
    /\ UNCHANGED <<reqVars, queue, qowner, stop, cur, cpc, dpc, enqueued>>

(* ~HttpClient(), lines 34-41, run by the thread that owns the client     *)
(* once every caller is done with it: return at once if there is no       *)
(* worker; otherwise _stop = true, notify_one (without the lock), join.   *)
Destroy ==
    /\ dpc = "alive"
    /\ \A c \in Callers : pc[c] = "idle" /\ cpc[c] = "ready"
                          /\ calls[c] = MaxCalls
    /\ \/ /\ ~Async /\ dpc' = "done"
          /\ UNCHANGED stop
       \/ /\ Async /\ dpc' = "notify"
          /\ stop' = TRUE
    /\ UNCHANGED <<reqVars, queue, qowner, wpc, cur, cpc, aborted, enqueued,
                   delivered>>

DestroyNotify ==
    /\ dpc = "notify"
    /\ NotifyOne
    /\ dpc' = "join"
    /\ UNCHANGED <<reqVars, queue, qowner, stop, cur, cpc, aborted, enqueued,
                   delivered>>

DestroyJoin ==
    /\ dpc = "join"
    /\ wpc = "exit"
    /\ dpc' = "done"
    /\ UNCHANGED <<reqVars, queue, qowner, stop, wpc, cur, cpc, aborted,
                   enqueued, delivered>>

WorkerStep ==
    \/ WorkerLock \/ WorkerCheck \/ WorkerWait \/ WorkerStart
    \/ WorkerDeliver \/ (RequestStep(Worker) /\ UNCHANGED clientVars)

-----------------------------------------------------------------------------
ClientInit ==
    /\ Init
    /\ queue = <<>>
    /\ qowner = NoOwner
    /\ stop = FALSE
    /\ wpc = IF Async THEN "lock" ELSE "exit"
    /\ cur = NoTask
    /\ cpc = [c \in Callers |-> "ready"]
    /\ dpc = "alive"
    /\ aborted = FALSE
    /\ enqueued = <<>>
    /\ delivered = <<>>

(* The program has destroyed the client, or std::terminate ended it.      *)
Ended ==
    /\ dpc = "done" \/ aborted
    /\ UNCHANGED vars

ClientNext ==
    \/ /\ ~aborted
       /\ \/ \E c \in Callers :
                SyncCall(c) \/ PerformRequest(c) \/ PerformNotify(c)
                \/ (RequestStep(c) /\ UNCHANGED clientVars)
          \/ WorkerStep
          \/ SpuriousWakeup
          \/ Destroy \/ DestroyNotify \/ DestroyJoin
    \/ Ended

(* Threads run: the worker and every thread inside request() take their   *)
(* next step, a caller that pushed a task goes on to notify, and the      *)
(* owner, once it starts destroying the client, carries on.  Whether the  *)
(* owner ever destroys the client is its choice, and a spurious wakeup    *)
(* may never come: neither is fair.                                       *)
ClientFairness ==
    /\ \A c \in Callers : WF_vars(RequestStep(c) /\ UNCHANGED clientVars)
    /\ WF_vars(WorkerStep)
    /\ \A c \in Callers : WF_vars(PerformNotify(c))
    /\ WF_vars(DestroyNotify) /\ WF_vars(DestroyJoin)

ClientSpec == ClientInit /\ [][ClientNext]_vars /\ ClientFairness

-----------------------------------------------------------------------------
ClientTypeOK ==
    /\ TypeOK
    /\ queue \in Seq(Tasks)
    /\ qowner \in Threads \cup {NoOwner}
    /\ stop \in BOOLEAN
    /\ wpc \in {"lock", "check", "wait", "waiting", "check2", "request", "exit"}
    /\ cur \in Tasks \cup {NoTask}
    /\ cpc \in [Callers -> {"ready", "notify"}]
    /\ dpc \in {"alive", "notify", "join", "done"}
    /\ aborted \in BOOLEAN
    /\ enqueued \in Seq(Callers \X (1..MaxCalls))
    /\ delivered \in Seq(Callers \X (1..MaxCalls))

(* Callbacks run in the order the tasks were enqueued, none twice, none   *)
(* invented (spec 4.6: strict FIFO, one worker): the delivered ids are a  *)
(* prefix of the enqueued ones.                                           *)
FifoDelivery ==
    \E n \in 0..Len(enqueued) : delivered = SubSeq(enqueued, 1, n)

(* No enqueued task is forgotten while the client lives: each one's       *)
(* callback eventually runs unless shutdown has begun or an exception has *)
(* ended the process through std::terminate (the push under _queueMutex   *)
(* and the notify after it never lose the worker's wakeup).               *)
EnqueuedHandled ==
    \A i \in 1..(Cardinality(Callers) * MaxCalls) :
        Len(enqueued) >= i ~> (Len(delivered) >= i \/ stop \/ aborted)

(* Destroying the client finishes (spec 4.6: shutdown wakes the worker    *)
(* and waits for it to exit): once ~HttpClient() starts, it returns.      *)
ShutdownCompletes == dpc # "alive" ~> dpc = "done"

-----------------------------------------------------------------------------
(* The refinement mapping onto HttpQueue.                                 *)

(* The ids of a sequence of tasks.                                        *)
Ids(s) == [i \in 1..Len(s) |-> s[i].id]

(* Where the worker holds a task between popping it and its callback.     *)
Popped == {"check2", "request"}

(* The tasks not yet answered or given up: the one the worker has popped, *)
(* then the queue.                                                        *)
PendingIds ==
    IF wpc \in Popped THEN <<cur.id>> \o Ids(queue) ELSE Ids(queue)

AbstractQueue ==
    INSTANCE HttpQueue WITH pending <- PendingIds, submitted <- enqueued,
                            answered <- delivered, closed <- stop,
                            Jobs <- Callers \X (1..MaxCalls)

(* The async client implements the FIFO service of HttpQueue: performRequest *)
(* submits, the worker answers the oldest task, and only after the          *)
(* destructor set _stop (line 96) may a popped task be dropped unanswered.   *)
ImplementsQueue == AbstractQueue!QueueSafety

=============================================================================
