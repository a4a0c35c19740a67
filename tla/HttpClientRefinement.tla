----------------------- MODULE HttpClientRefinement ------------------------
(***************************************************************************)
(* The asynchronous HttpClient implements the FIFO service of HttpQueue,  *)
(* for every set of callers and every bound: under the mapping PendingIds  *)
(* (the task the worker popped, then _queue), performRequest is Submit,    *)
(* the worker's callback is Answer, the destructor's _stop is Close, the   *)
(* popped task the worker drops at line 96 is GiveUp, and every other step *)
(* changes nothing a caller sees.                                          *)
(***************************************************************************)
EXTENDS HttpClientProofs

(* _stop is set only by the destructor, which runs once every caller has   *)
(* made all its calls: no caller submits after it.                         *)
StopInv == stop => \A c \in Callers : calls[c] = MaxCalls

(* The invariant the refinement rests on.                                  *)
QInv == CInv /\ StopInv

-----------------------------------------------------------------------------
(* A step inside request() never counts a call.                            *)
LEMMA RequestStepCalls ==
    ASSUME NEW t, RequestStep(t) PROVE UNCHANGED calls
  BY DEF RequestStep, Lock, ParseUrl, CreateSocket, Connect, Write,
         ReadStatus, ReadHeaders, Redirect, SelectBody, ReadBody, ChunkSize,
         ChunkData, ChunkEnd, Finish

(* Apart from the destructor, a step keeps _stop, and it changes a        *)
(* caller's call count only when that count is below MaxCalls.            *)
LEMMA KeepsStop ==
    ASSUME TypeOK, [ClientNext]_vars, ~Destroy, NEW c \in Callers
    PROVE  /\ stop' = stop
           /\ calls'[c] = calls[c] \/ calls[c] < MaxCalls
  <1>0. c \in Threads
    BY ClientAssumption
  <1>1. CASE \E d \in Callers : SyncCall(d) \/ PerformRequest(d)
    <2>1. PICK d \in Callers : SyncCall(d) \/ PerformRequest(d)
      BY <1>1
    <2>2. d \in Threads
      BY ClientAssumption
    <2>3. stop' = stop
      BY <2>1 DEF SyncCall, PerformRequest, clientVars
    <2>4. calls[d] < MaxCalls /\ calls' = [calls EXCEPT ![d] = @ + 1]
      BY <2>1 DEF SyncCall, PerformRequest, Call
    <2>5. CASE d = c
      BY <2>3, <2>4, <2>5
    <2>6. CASE d # c
      BY <1>0, <2>2, <2>3, <2>4, <2>6 DEF TypeOK
    <2>7. QED
      BY <2>5, <2>6
  <1>2. CASE \E d \in Callers : PerformNotify(d)
                                \/ (RequestStep(d) /\ UNCHANGED clientVars)
    <2>1. PICK d \in Callers : PerformNotify(d)
                               \/ (RequestStep(d) /\ UNCHANGED clientVars)
      BY <1>2
    <2>2. UNCHANGED <<stop, calls>>
      BY <2>1, RequestStepCalls DEF PerformNotify, clientVars, reqVars
    <2>3. QED
      BY <2>2
  <1>3. CASE WorkerStep
    <2>1. CASE RequestStep(Worker) /\ UNCHANGED clientVars
      BY <2>1, RequestStepCalls DEF clientVars
    <2>2. CASE WorkerLock \/ WorkerCheck \/ WorkerWait \/ WorkerStart
               \/ WorkerDeliver
      BY <2>2 DEF WorkerLock, WorkerCheck, WorkerWait, WorkerStart,
                  WorkerDeliver, reqVars
    <2>3. QED
      BY <1>3, <2>1, <2>2 DEF WorkerStep
  <1>4. CASE SpuriousWakeup \/ DestroyNotify \/ DestroyJoin
    BY <1>4 DEF SpuriousWakeup, DestroyNotify, DestroyJoin, reqVars
  <1>5. CASE UNCHANGED vars
    BY <1>5 DEF vars, reqVars, clientVars
  <1>6. QED
    BY <1>1, <1>2, <1>3, <1>4, <1>5 DEF ClientNext, Ended

(* No caller submits once _stop is set.                                    *)
LEMMA StopInvStep ==
    ASSUME TypeOK, StopInv, [ClientNext]_vars PROVE StopInv'
  <1> SUFFICES ASSUME stop', NEW c \in Callers PROVE calls'[c] = MaxCalls
    BY DEF StopInv
  <1>1. CASE Destroy
    <2>1. calls[c] = MaxCalls
      BY <1>1 DEF Destroy
    <2>2. calls' = calls
      BY <1>1 DEF Destroy, reqVars
    <2>3. QED
      BY <2>1, <2>2
  <1>2. CASE ~Destroy
    <2>1. stop /\ (calls'[c] = calls[c] \/ calls[c] < MaxCalls)
      BY <1>2, KeepsStop
    <2>2. calls[c] = MaxCalls
      BY <2>1 DEF StopInv
    <2>3. QED
      BY <2>1, <2>2, BoundsAssumption
  <1>3. QED
    BY <1>1, <1>2
-----------------------------------------------------------------------------
(* The front of a task list with one task put in front.                    *)
LEMMA ConsFacts ==
    ASSUME NEW x \in TaskIds, NEW s \in Seq(TaskIds)
    PROVE  /\ <<x>> \o s # <<>>
           /\ Head(<<x>> \o s) = x
           /\ Tail(<<x>> \o s) = s
  <1>1. <<x>> \in Seq(TaskIds)
    OBVIOUS
  <1>2. <<x>> \o s \in Seq(TaskIds) /\ Len(<<x>> \o s) = 1 + Len(s)
    BY <1>1, ConcatProperties
  <1>3. <<x>> \o s # <<>>
    BY <1>2
  <1>4. Head(<<x>> \o s) = x
    BY <1>1, <1>2, ConcatProperties
  <1>5. Tail(<<x>> \o s) = s
    BY <1>1, <1>2, ConcatProperties
  <1>6. QED
    BY <1>3, <1>4, <1>5

(* A step that moves no task and leaves _stop keeps the mapped state.     *)
LEMMA QuietMap ==
    ASSUME UNCHANGED <<queue, cur, enqueued, delivered, stop>>,
           \/ wpc' = wpc
           \/ wpc \notin Popped /\ wpc' \notin Popped
           \/ wpc \in Popped /\ wpc' \in Popped
    PROVE  UNCHANGED AbstractQueue!qvars
  BY DEF PendingIds, AbstractQueue!qvars

(* performRequest in async mode submits the task it pushes.                *)
LEMMA SubmitStep ==
    ASSUME QInv, NEW c \in Callers, PerformRequest(c), Async
    PROVE  /\ <<c, calls[c] + 1>> \in Callers \X (1..MaxCalls)
           /\ AbstractQueue!Submit(<<c, calls[c] + 1>>)
  <1> DEFINE j == <<c, calls[c] + 1>>
  <1>0. c \in Threads /\ calls[c] \in 0..MaxCalls /\ calls[c] < MaxCalls
    BY ClientAssumption DEF PerformRequest, QInv, CInv, TypeInv, TypeOK
  <1>1. j \in TaskIds
    BY <1>0, BoundsAssumption DEF TaskIds
  <1>2. ~stop
    BY <1>0, BoundsAssumption DEF QInv, StopInv
  <1>3. PICK v \in Verbs, x \in ExtraHeaderChoices :
          LET task == [id |-> j, verb |-> v, extra |-> x]
          IN  /\ queue' = Append(queue, task)
              /\ enqueued' = Append(enqueued, task.id)
    BY DEF PerformRequest
  <1> DEFINE task == [id |-> j, verb |-> v, extra |-> x]
  <1>4. task \in Tasks
    BY <1>1 DEF Tasks, TaskIds
  <1>5. UNCHANGED <<stop, wpc, cur, delivered>>
    BY DEF PerformRequest
  <1>6. queue \in Seq(Tasks)
    BY DEF QInv, CInv, ClientVarsOK
  <1>7. Ids(queue') = Append(Ids(queue), j)
    BY <1>3, <1>4, <1>6, IdsAppend
  <1>8. PendingIds' = Append(PendingIds, j)
    <2>1. CASE wpc \in Popped
      <3>1. cur.id \in TaskIds /\ Ids(queue) \in Seq(TaskIds)
        BY <2>1, OrderTypes DEF QInv, CInv
      <3>2. <<cur.id>> \in Seq(TaskIds)
        BY <3>1
      <3>3. <<cur.id>> \o Append(Ids(queue), j)
              = Append(<<cur.id>> \o Ids(queue), j)
        BY <1>1, <3>1, <3>2, AppendConcat
      <3>4. QED
        BY <1>5, <1>7, <2>1, <3>3 DEF PendingIds
    <2>2. CASE wpc \notin Popped
      BY <1>5, <1>7, <2>2 DEF PendingIds
    <2>3. QED
      BY <2>1, <2>2
  <1>9. QED
    BY <1>1, <1>2, <1>3, <1>5, <1>8 DEF AbstractQueue!Submit, TaskIds
(* The worker's loop: popping a task hands it from the queue to the       *)
(* worker, which a caller cannot see; leaving on _stop keeps the queue.   *)
LEMMA WorkerCheckStep ==
    ASSUME QInv, WorkerCheck PROVE UNCHANGED AbstractQueue!qvars
  <1>0. UNCHANGED <<enqueued, delivered, stop>> /\ wpc = "check"
    BY DEF WorkerCheck
  <1>1. CASE queue' = queue /\ cur' = cur
    <2>1. wpc' \in {"wait", "exit", "check2"}
      BY DEF WorkerCheck
    <2>2. wpc' \notin Popped
      BY <1>1, <2>1 DEF WorkerCheck, Popped
    <2>3. QED
      BY <1>0, <1>1, <2>2, QuietMap DEF Popped
  <1>2. CASE ~(queue' = queue /\ cur' = cur)
    <2>1. /\ queue # <<>> /\ cur' = Head(queue) /\ queue' = Tail(queue)
          /\ wpc' = "check2"
      BY <1>2 DEF WorkerCheck
    <2>2. queue \in Seq(Tasks)
      BY DEF QInv, CInv, ClientVarsOK
    <2>3. Ids(queue) = <<Head(queue).id>> \o Ids(Tail(queue))
      BY <2>1, <2>2, IdsPop
    <2>4. PendingIds' = PendingIds
      BY <1>0, <2>1, <2>3 DEF PendingIds, Popped
    <2>5. QED
      BY <1>0, <2>4 DEF AbstractQueue!qvars
  <1>3. QED
    BY <1>1, <1>2

(* After _stop, the worker drops the task it popped (line 96).            *)
LEMMA GiveUpStep ==
    ASSUME QInv, WorkerStart, stop PROVE AbstractQueue!GiveUp
  <1>1. wpc = "check2" /\ wpc' = "exit"
        /\ UNCHANGED <<queue, cur, stop, enqueued, delivered>>
    BY DEF WorkerStart
  <1>2. cur.id \in TaskIds /\ Ids(queue) \in Seq(TaskIds)
    BY <1>1, OrderTypes DEF QInv, CInv, Popped
  <1>3. PendingIds = <<cur.id>> \o Ids(queue) /\ PendingIds' = Ids(queue)
    BY <1>1 DEF PendingIds, Popped
  <1>4. QED
    BY <1>1, <1>2, <1>3, ConsFacts DEF AbstractQueue!GiveUp

(* The worker's callback answers the oldest pending task.                  *)
LEMMA AnswerStep ==
    ASSUME QInv, WorkerDeliver, resp[Worker].err # "Exception"
    PROVE  AbstractQueue!Answer
  <1>1. /\ wpc = "request" /\ wpc' \in {"exit", "lock"}
        /\ delivered' = Append(delivered, cur.id)
        /\ UNCHANGED <<queue, cur, stop, enqueued>>
    BY DEF WorkerDeliver
  <1>2. cur.id \in TaskIds /\ Ids(queue) \in Seq(TaskIds)
    BY <1>1, OrderTypes DEF QInv, CInv, Popped
  <1>3. PendingIds = <<cur.id>> \o Ids(queue) /\ PendingIds' = Ids(queue)
    BY <1>1 DEF PendingIds, Popped
  <1>4. PendingIds # <<>> /\ Head(PendingIds) = cur.id
        /\ Tail(PendingIds) = PendingIds'
    BY <1>2, <1>3, ConsFacts
  <1>5. QED
    BY <1>1, <1>4 DEF AbstractQueue!Answer

(* The destructor of an async client sets _stop.                           *)
LEMMA CloseStep ==
    ASSUME Destroy PROVE [AbstractQueue!Close]_AbstractQueue!qvars
  <1>1. UNCHANGED <<queue, wpc, cur, enqueued, delivered>>
    BY DEF Destroy
  <1>2. PendingIds' = PendingIds
    BY <1>1 DEF PendingIds
  <1>3. CASE Async
    BY <1>1, <1>2, <1>3 DEF Destroy, AbstractQueue!Close
  <1>4. CASE ~Async
    BY <1>1, <1>2, <1>4 DEF Destroy, AbstractQueue!qvars
  <1>5. QED
    BY <1>3, <1>4
-----------------------------------------------------------------------------
(* Every step of the client is a step of HttpQueue or changes nothing it   *)
(* sees.                                                                   *)
LEMMA QueueStep ==
    ASSUME QInv, [ClientNext]_vars
    PROVE  [AbstractQueue!QueueNext]_AbstractQueue!qvars
  <1>1. CASE \E c \in Callers :
               \/ SyncCall(c) \/ PerformRequest(c) \/ PerformNotify(c)
               \/ (RequestStep(c) /\ UNCHANGED clientVars)
    <2>1. PICK c \in Callers :
               \/ SyncCall(c) \/ PerformRequest(c) \/ PerformNotify(c)
               \/ (RequestStep(c) /\ UNCHANGED clientVars)
      BY <1>1
    <2>2. CASE PerformRequest(c) /\ Async
      BY <2>2, SubmitStep DEF AbstractQueue!QueueNext
    <2>3. CASE ~(PerformRequest(c) /\ Async)
      <3>1. UNCHANGED <<queue, cur, enqueued, delivered, stop>>
        BY <2>1, <2>3 DEF SyncCall, PerformRequest, PerformNotify, clientVars
      <3>2. \/ wpc' = wpc
            \/ wpc \notin Popped /\ wpc' \notin Popped
        BY <2>1, <2>3, NotifyOneWpc
           DEF SyncCall, PerformRequest, PerformNotify, clientVars, Popped
      <3>3. QED
        BY <3>1, <3>2, QuietMap
    <2>4. QED
      BY <2>2, <2>3
  <1>2. CASE WorkerLock \/ WorkerWait \/ SpuriousWakeup \/ DestroyNotify
             \/ DestroyJoin
    <2>1. UNCHANGED <<queue, cur, enqueued, delivered, stop>>
      BY <1>2 DEF WorkerLock, WorkerWait, SpuriousWakeup, DestroyNotify,
                  DestroyJoin
    <2>2. \/ wpc' = wpc
          \/ wpc \notin Popped /\ wpc' \notin Popped
      BY <1>2 DEF WorkerLock, WorkerWait, SpuriousWakeup, DestroyNotify,
                  DestroyJoin, NotifyOne, Popped
    <2>3. QED
      BY <2>1, <2>2, QuietMap
  <1>3. CASE WorkerCheck
    BY <1>3, WorkerCheckStep
  <1>4. CASE WorkerStart
    <2>1. CASE stop
      BY <1>4, <2>1, GiveUpStep DEF AbstractQueue!QueueNext
    <2>2. CASE ~stop
      <3>1. wpc = "check2" /\ wpc' = "request"
            /\ UNCHANGED <<queue, cur, enqueued, delivered, stop>>
        BY <1>4, <2>2 DEF WorkerStart
      <3>2. QED
        BY <3>1, QuietMap DEF Popped
    <2>3. QED
      BY <2>1, <2>2
  <1>5. CASE WorkerDeliver
    <2>1. CASE resp[Worker].err # "Exception"
      BY <1>5, <2>1, AnswerStep DEF AbstractQueue!QueueNext
    <2>2. CASE resp[Worker].err = "Exception"
      <3>1. UNCHANGED <<queue, cur, enqueued, delivered, stop, wpc>>
        BY <1>5, <2>2 DEF WorkerDeliver
      <3>2. QED
        BY <3>1, QuietMap
    <2>3. QED
      BY <2>1, <2>2
  <1>6. CASE RequestStep(Worker) /\ UNCHANGED clientVars
    <2>1. UNCHANGED <<queue, cur, enqueued, delivered, stop, wpc>>
      BY <1>6 DEF clientVars
    <2>2. QED
      BY <2>1, QuietMap
  <1>7. CASE Destroy
    BY <1>7, CloseStep DEF AbstractQueue!QueueNext
  <1>8. CASE UNCHANGED vars
    <2>1. UNCHANGED <<queue, cur, enqueued, delivered, stop, wpc>>
      BY <1>8 DEF vars, clientVars
    <2>2. QED
      BY <2>1, QuietMap
  <1>9. QED
    BY <1>1, <1>2, <1>3, <1>4, <1>5, <1>6, <1>7, <1>8
       DEF ClientNext, Ended, WorkerStep

(* QInv holds in every reachable state.                                    *)
LEMMA QInvInit == ClientInit => QInv
  BY CInvInit DEF ClientInit, QInv, StopInv

LEMMA QInvStep == QInv /\ [ClientNext]_vars => QInv'
  <1> SUFFICES ASSUME QInv, [ClientNext]_vars PROVE QInv'
    OBVIOUS
  <1>1. CInv'
    BY CInvStep DEF QInv
  <1>2. StopInv'
    BY StopInvStep DEF QInv, CInv, TypeInv
  <1>3. QED
    BY <1>1, <1>2 DEF QInv

(* The asynchronous client implements HttpQueue for every set of callers  *)
(* and every bound: whatever the interleaving of performRequest, the      *)
(* worker's loop, spurious wakeups and the destructor, callers see tasks  *)
(* submitted to a FIFO queue, answered oldest first, and given up only    *)
(* after _stop, one at a time from the front (ImplementsQueue).            *)
THEOREM QueueRefinement == ClientSpec => ImplementsQueue
  <1>1. ClientInit => AbstractQueue!QueueInit
    <2> SUFFICES ASSUME ClientInit PROVE AbstractQueue!QueueInit
      OBVIOUS
    <2>1. queue = <<>> /\ Ids(queue) = <<>>
      BY DEF ClientInit, Ids
    <2>2. wpc \notin Popped
      BY DEF ClientInit, Popped
    <2>3. QED
      BY <2>1, <2>2 DEF ClientInit, PendingIds, AbstractQueue!QueueInit
  <1>2. QInv /\ [ClientNext]_vars
          => [AbstractQueue!QueueNext]_AbstractQueue!qvars
    BY QueueStep
  <1>3. QED
    BY <1>1, <1>2, QInvInit, QInvStep, PTL
       DEF ClientSpec, ImplementsQueue, AbstractQueue!QueueSafety
=============================================================================
