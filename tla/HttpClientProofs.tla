------------------------- MODULE HttpClientProofs --------------------------
(***************************************************************************)
(* Proofs about HttpClient for every set of callers and every bound: the  *)
(* type invariant, that the worker's calls and the callers' synchronous   *)
(* calls never share the transport, and that callbacks run in the order   *)
(* the tasks were enqueued.                                               *)
(***************************************************************************)
EXTENDS HttpClient, HttpRequestProofs, SequenceTheorems, TLAPS

TaskIds == Callers \X (1..MaxCalls)

(* The client's own variables have their types, and the worker holds a    *)
(* real task whenever it has popped one.                                  *)
ClientVarsOK ==
    /\ queue \in Seq(Tasks)
    /\ qowner \in Threads \cup {NoOwner}
    /\ stop \in BOOLEAN
    /\ wpc \in {"lock", "check", "wait", "waiting", "check2", "request", "exit"}
    /\ cur \in Tasks \cup {NoTask}
    /\ cpc \in [Callers -> {"ready", "notify"}]
    /\ dpc \in {"alive", "notify", "join", "done"}
    /\ aborted \in BOOLEAN
    /\ enqueued \in Seq(TaskIds)
    /\ delivered \in Seq(TaskIds)
    /\ wpc \in Popped => cur \in Tasks

(* Every enqueued task is, in enqueue order, either delivered, held by    *)
(* the worker, or still queued; once the worker has exited (dropping a    *)
(* popped task on _stop) only the prefix property is left.                *)
QueueOrder ==
    \/ wpc \in Popped /\ enqueued = (delivered \o <<cur.id>>) \o Ids(queue)
    \/ wpc \in {"lock", "check", "wait", "waiting"}
          /\ enqueued = delivered \o Ids(queue)
    \/ wpc = "exit" /\ FifoDelivery

(* The inductive invariant of the client.                                 *)
CInv == TypeInv /\ ExclInv /\ ClientVarsOK /\ QueueOrder

-----------------------------------------------------------------------------
(* Facts about sequences and the ids of queued tasks.                     *)

LEMMA IdsType ==
    ASSUME NEW q \in Seq(Tasks) PROVE Ids(q) \in Seq(TaskIds)
  <1>1. \A i \in 1..Len(q) : q[i].id \in TaskIds
    <2>1. \A i \in 1..Len(q) : q[i] \in Tasks
      BY ElementOfSeq
    <2>2. QED
      BY <2>1 DEF Tasks, TaskIds
  <1>2. QED
    BY <1>1, IsASeq DEF Ids

LEMMA IdsAppend ==
    ASSUME NEW q \in Seq(Tasks), NEW x \in Tasks
    PROVE  Ids(Append(q, x)) = Append(Ids(q), x.id)
  BY DEF Ids

LEMMA IdsPop ==
    ASSUME NEW q \in Seq(Tasks), q # <<>>
    PROVE  Ids(q) = <<Head(q).id>> \o Ids(Tail(q))
  <1>1. Len(q) \in Nat \ {0}
    BY EmptySeq
  <1>2. QED
    BY <1>1 DEF Ids

(* A sequence is the prefix of itself followed by another.               *)
LEMMA PrefixOfConcat ==
    ASSUME NEW S, NEW a \in Seq(S), NEW b \in Seq(S)
    PROVE  /\ Len(a) \in 0..Len(a \o b)
           /\ a = SubSeq(a \o b, 1, Len(a))
  BY ConcatProperties

(* A prefix stays a prefix when the sequence grows.                       *)
LEMMA PrefixOfAppend ==
    ASSUME NEW S, NEW e \in Seq(S), NEW x \in S, NEW n \in 0..Len(e)
    PROVE  /\ n \in 0..Len(Append(e, x))
           /\ SubSeq(Append(e, x), 1, n) = SubSeq(e, 1, n)
  BY AppendProperties

(* Appending to the end of a concatenation (of task ids).                 *)
LEMMA AppendConcat ==
    ASSUME NEW a \in Seq(TaskIds), NEW b \in Seq(TaskIds), NEW x \in TaskIds
    PROVE  Append(a \o b, x) = a \o Append(b, x)
  <1> DEFINE S == TaskIds
  <1>1. a \o b \in Seq(S) /\ <<x>> \in Seq(S)
    BY ConcatProperties
  <1>2. Append(a \o b, x) = (a \o b) \o <<x>>
    BY <1>1, AppendIsConcat
  <1>3. Append(b, x) = b \o <<x>>
    BY AppendIsConcat
  <1>4. (a \o b) \o <<x>> = a \o (b \o <<x>>)
    BY <1>1, ConcatAssociative
  <1>5. QED
    BY <1>2, <1>3, <1>4

-----------------------------------------------------------------------------
(* The request-level invariants under the client's steps.  Besides steps  *)
(* of HttpRequest, the client has two that change its variables:          *)
(* performRequest counts an operation without entering request(), and the *)
(* worker enters request() with a popped task's args.                     *)

CallsBump(c) ==
    /\ calls[c] < MaxCalls
    /\ calls' = [calls EXCEPT ![c] = @ + 1]
    /\ UNCHANGED <<pc, verb, extra, depth, frameVars, resp, owner, socket>>

WorkerEnter ==
    /\ \E v \in Verbs, x \in ExtraHeaderChoices \cup {<<>>} : Enter(Worker, v, x)
    /\ UNCHANGED <<calls, owner, socket>>

LEMMA CallsBumpInv ==
    ASSUME TypeInv, ExclInv, NEW c \in Threads, CallsBump(c)
    PROVE  TypeInv' /\ ExclInv'
  <1>1. calls[c] + 1 \in 0..MaxCalls
    <2>1. calls[c] \in 0..MaxCalls /\ calls[c] < MaxCalls
      BY DEF CallsBump, TypeInv, TypeOK
    <2>2. MaxCalls \in Nat
      BY BoundsAssumption
    <2>3. QED
      BY <2>1, <2>2
  <1>2. TypeOK'
    BY <1>1 DEF CallsBump, TypeInv, TypeOK, frameVars
  <1>3. FrameInv'
    BY DEF CallsBump, TypeInv, FrameInv, FrameOK, frameVars
  <1>4. ExclInv'
    BY DEF CallsBump, ExclInv, LockInv, SocketInv
  <1>5. QED
    BY <1>2, <1>3, <1>4 DEF TypeInv

LEMMA WorkerEnterInv ==
    ASSUME TypeInv, ExclInv, WorkerEnter, Worker \in Threads
    PROVE  TypeInv' /\ ExclInv'
  <1>1. PICK v \in Verbs, x \in ExtraHeaderChoices \cup {<<>>} : Enter(Worker, v, x)
    BY DEF WorkerEnter
  <1>2. TypeOK'
    <2>1. /\ calls' \in [Threads -> 0..MaxCalls]
          /\ owner' \in Threads \cup {NoOwner}
          /\ socket' \in Threads \cup {NoSocket}
      <3>1. UNCHANGED <<calls, owner, socket>>
        BY DEF WorkerEnter
      <3>2. /\ calls \in [Threads -> 0..MaxCalls]
            /\ owner \in Threads \cup {NoOwner}
            /\ socket \in Threads \cup {NoSocket}
        BY DEF TypeInv, TypeOK
      <3>3. QED
        BY <3>1, <3>2
    <2>2. pc' \in [Threads -> PCs]
      <3>1. pc \in [Threads -> PCs]
        BY DEF TypeInv, TypeOK
      <3>2. pc' = [pc EXCEPT ![Worker] = "lock"]
        BY <1>1 DEF Enter
      <3>3. "lock" \in PCs
        BY DEF PCs
      <3>4. QED
        BY <3>1, <3>2, <3>3
    <2>3. verb' \in [Threads -> Verbs]
      <3>1. verb \in [Threads -> Verbs]
        BY DEF TypeInv, TypeOK
      <3>2. verb' = [verb EXCEPT ![Worker] = v]
        BY <1>1 DEF Enter
      <3>3. v \in Verbs
        BY <1>1
      <3>4. QED
        BY <3>1, <3>2, <3>3
    <2>4. extra' \in [Threads -> ExtraHeaderChoices \cup {<<>>}]
      <3>1. extra \in [Threads -> ExtraHeaderChoices \cup {<<>>}]
        BY DEF TypeInv, TypeOK
      <3>2. extra' = [extra EXCEPT ![Worker] = x]
        BY <1>1 DEF Enter
      <3>3. x \in ExtraHeaderChoices \cup {<<>>}
        BY <1>1
      <3>4. QED
        BY <3>1, <3>2, <3>3
    <2>5. depth' \in [Threads -> 0..MaxRedirects]
      <3>1. depth \in [Threads -> 0..MaxRedirects]
        BY DEF TypeInv, TypeOK
      <3>2. depth' = [depth EXCEPT ![Worker] = 0]
        BY <1>1 DEF Enter
      <3>3. 0 \in 0..MaxRedirects
        BY BoundsAssumption
      <3>4. QED
        BY <3>1, <3>2, <3>3
    <2>6. resp' \in [Threads -> Responses \cup {NoResponse}]
      <3>1. resp \in [Threads -> Responses \cup {NoResponse}]
        BY DEF TypeInv, TypeOK
      <3>2. resp' = [resp EXCEPT ![Worker] = NoResponse]
        BY <1>1 DEF Enter
      <3>3. NoResponse \in Responses \cup {NoResponse}
        OBVIOUS
      <3>4. QED
        BY <3>1, <3>2, <3>3
    <2>7. code' \in [Threads -> {0} \cup StatusCodes]
      <3>1. code \in [Threads -> {0} \cup StatusCodes]
        BY DEF TypeInv, TypeOK
      <3>2. code' = [code EXCEPT ![Worker] = 0]
        BY <1>1 DEF Enter, FreshFrame
      <3>3. 0 \in {0} \cup StatusCodes
        OBVIOUS
      <3>4. QED
        BY <3>1, <3>2, <3>3
    <2>8. hdr' \in [Threads -> Headers \cup {NoHeaders}]
      <3>1. hdr \in [Threads -> Headers \cup {NoHeaders}]
        BY DEF TypeInv, TypeOK
      <3>2. hdr' = [hdr EXCEPT ![Worker] = NoHeaders]
        BY <1>1 DEF Enter, FreshFrame
      <3>3. NoHeaders \in Headers \cup {NoHeaders}
        OBVIOUS
      <3>4. QED
        BY <3>1, <3>2, <3>3
    <2>9. payload' \in [Threads -> Nat]
      <3>1. payload \in [Threads -> Nat]
        BY DEF TypeInv, TypeOK
      <3>2. payload' = [payload EXCEPT ![Worker] = 0]
        BY <1>1 DEF Enter, FreshFrame
      <3>3. 0 \in Nat
        OBVIOUS
      <3>4. QED
        BY <3>1, <3>2, <3>3
    <2>10. nchunks' \in [Threads -> 0..MaxChunks]
      <3>1. nchunks \in [Threads -> 0..MaxChunks]
        BY DEF TypeInv, TypeOK
      <3>2. nchunks' = [nchunks EXCEPT ![Worker] = 0]
        BY <1>1 DEF Enter, FreshFrame
      <3>3. 0 \in 0..MaxChunks
        BY BoundsAssumption
      <3>4. QED
        BY <3>1, <3>2, <3>3
    <2>11. last' \in [Threads -> ChunkLines \cup {Absent}]
      <3>1. last \in [Threads -> ChunkLines \cup {Absent}]
        BY DEF TypeInv, TypeOK
      <3>2. last' = [last EXCEPT ![Worker] = Absent]
        BY <1>1 DEF Enter, FreshFrame
      <3>3. Absent \in ChunkLines \cup {Absent}
        OBVIOUS
      <3>4. QED
        BY <3>1, <3>2, <3>3
    <2>12. sent' \in [Threads -> Seq(RequestHeaderNames)]
      <3>1. sent \in [Threads -> Seq(RequestHeaderNames)]
        BY DEF TypeInv, TypeOK
      <3>2. sent' = [sent EXCEPT ![Worker] = <<>>]
        BY <1>1 DEF Enter, FreshFrame
      <3>3. <<>> \in Seq(RequestHeaderNames)
        OBVIOUS
      <3>4. QED
        BY <3>1, <3>2, <3>3
    <2>13. QED
      BY <2>1, <2>2, <2>3, <2>4, <2>5, <2>6, <2>7, <2>8, <2>9, <2>10, <2>11, <2>12, Zenon DEF TypeOK
  <1>3. FrameOK(Worker)'
    BY <1>1 DEF Enter, FrameOK, TypeInv, TypeOK
  <1>4. \A u \in Threads \ {Worker} : /\ pc'[u] = pc[u] /\ hdr'[u] = hdr[u]
                                     /\ last'[u] = last[u]
                                     /\ nchunks'[u] = nchunks[u]
    BY <1>1 DEF Enter, FreshFrame
  <1>5. FrameInv'
    BY <1>3, <1>4, FrameOthers DEF TypeInv
  <1>6. ExclInv'
    BY <1>1 DEF WorkerEnter, Enter, ExclInv, LockInv, SocketInv, Locked,
                SocketHeld, PCs, TypeInv, TypeOK
  <1>7. QED
    BY <1>2, <1>5, <1>6 DEF TypeInv

(* The request-level part of the inductive invariant is kept by every     *)
(* kind of step the client takes on those variables.                      *)
LEMMA ReqPartInv ==
    ASSUME TypeInv, ExclInv, Worker \in Threads,
           \/ [Next]_reqVars
           \/ \E c \in Threads : CallsBump(c)
           \/ WorkerEnter
    PROVE  TypeInv' /\ ExclInv'
  <1>1. CASE [Next]_reqVars
    BY <1>1, NextTypeInv, NextExclInv DEF TypeInv
  <1>2. CASE \E c \in Threads : CallsBump(c)
    BY <1>2, CallsBumpInv
  <1>3. CASE WorkerEnter
    BY <1>3, WorkerEnterInv
  <1>4. QED
    BY <1>1, <1>2, <1>3

-----------------------------------------------------------------------------
(* The client's variables: one lemma per action of the dispatcher.        *)

(* A witness for FifoDelivery: whatever precedes the rest of a sequence   *)
(* is a prefix of it.                                                     *)
LEMMA PrefixWitness ==
    ASSUME NEW e, NEW a \in Seq(TaskIds), NEW b \in Seq(TaskIds), e = a \o b
    PROVE  \E n \in 0..Len(e) : a = SubSeq(e, 1, n)
  <1>1. Len(a) \in 0..Len(e) /\ a = SubSeq(e, 1, Len(a))
    BY PrefixOfConcat
  <1>2. QED
    BY <1>1

(* Concatenation of task ids is associative.                              *)
LEMMA IdsAssoc ==
    ASSUME NEW a \in Seq(TaskIds), NEW b \in Seq(TaskIds), NEW d \in Seq(TaskIds)
    PROVE  (a \o b) \o d = a \o (b \o d)
  BY ConcatAssociative

(* The sequences the order invariant is made of have their types.         *)
LEMMA OrderTypes ==
    ASSUME ClientVarsOK
    PROVE  /\ Ids(queue) \in Seq(TaskIds)
           /\ wpc \in Popped => /\ cur.id \in TaskIds
                                /\ <<cur.id>> \in Seq(TaskIds)
                                /\ delivered \o <<cur.id>> \in Seq(TaskIds)
  <1>1. Ids(queue) \in Seq(TaskIds)
    BY IdsType DEF ClientVarsOK
  <1>2. ASSUME wpc \in Popped PROVE cur.id \in TaskIds
    BY <1>2 DEF ClientVarsOK, Tasks, TaskIds
  <1>3. QED
    BY <1>1, <1>2, ConcatProperties DEF ClientVarsOK

(* Steps that leave the queue, the histories and the worker's task alone  *)
(* and keep the worker out of, or in, the popped states.                  *)
LEMMA QuietStep ==
    ASSUME ClientVarsOK, QueueOrder,
           UNCHANGED <<queue, cur, enqueued, delivered>>,
           \/ wpc' = wpc
           \/ wpc \in {"lock", "check", "wait", "waiting"}
              /\ wpc' \in {"lock", "check", "wait", "waiting"}
    PROVE  QueueOrder'
  BY DEF QueueOrder, FifoDelivery, Popped

LEMMA PerformRequestClient ==
    ASSUME TypeOK, ClientVarsOK, QueueOrder, NEW c \in Callers,
           PerformRequest(c)
    PROVE  ClientVarsOK' /\ QueueOrder'
  <1>0. c \in Threads
    BY ClientAssumption
  <1>1. CASE ~Async
    <2>1. UNCHANGED clientVars
      BY <1>1 DEF PerformRequest
    <2>2. QED
      BY <2>1 DEF clientVars, ClientVarsOK, QueueOrder, FifoDelivery, Popped
  <1>2. CASE Async
    <2>0. /\ \E v \in Verbs, x \in ExtraHeaderChoices :
                LET task == [id |-> <<c, calls[c] + 1>>, verb |-> v, extra |-> x]
                IN /\ queue' = Append(queue, task)
                   /\ enqueued' = Append(enqueued, task.id)
          /\ cpc' = [cpc EXCEPT ![c] = "notify"]
          /\ UNCHANGED <<qowner, stop, wpc, cur, dpc, aborted, delivered>>
      BY <1>2 DEF PerformRequest
    <2>1. calls[c] + 1 \in 1..MaxCalls
      <3>1. calls[c] \in 0..MaxCalls /\ calls[c] < MaxCalls
        BY <1>0 DEF PerformRequest, TypeOK
      <3>2. MaxCalls \in Nat
        BY BoundsAssumption
      <3>3. QED
        BY <3>1, <3>2
    <2>2. PICK task \in Tasks : /\ queue' = Append(queue, task)
                                /\ enqueued' = Append(enqueued, task.id)
      BY <2>0, <2>1 DEF Tasks
    <2>3. task.id \in TaskIds
      BY DEF Tasks, TaskIds
    <2>4. ClientVarsOK'
      BY <2>0, <2>2, <2>3, AppendProperties DEF ClientVarsOK
    <2>5. Ids(queue') = Append(Ids(queue), task.id)
      BY <2>2, IdsAppend DEF ClientVarsOK
    <2>6. QueueOrder'
      <3>1. CASE wpc \in Popped
        <4>1. enqueued = (delivered \o <<cur.id>>) \o Ids(queue)
          BY <3>1 DEF QueueOrder, Popped
        <4>2. enqueued' = (delivered \o <<cur.id>>) \o Ids(queue')
          <5>1. /\ delivered \o <<cur.id>> \in Seq(TaskIds)
                /\ Ids(queue) \in Seq(TaskIds)
            BY <3>1, OrderTypes
          <5>2. Append((delivered \o <<cur.id>>) \o Ids(queue), task.id)
                  = (delivered \o <<cur.id>>) \o Append(Ids(queue), task.id)
            BY <2>3, <5>1, AppendConcat
          <5>3. QED
            BY <2>2, <2>5, <4>1, <5>2
        <4>3. QED
          BY <2>0, <3>1, <4>2 DEF QueueOrder
      <3>2. CASE wpc \in {"lock", "check", "wait", "waiting"}
        <4>1. enqueued = delivered \o Ids(queue)
          BY <3>2 DEF QueueOrder, Popped
        <4>2. enqueued' = delivered \o Ids(queue')
          <5>1. delivered \in Seq(TaskIds) /\ Ids(queue) \in Seq(TaskIds)
            BY OrderTypes DEF ClientVarsOK
          <5>2. Append(delivered \o Ids(queue), task.id)
                  = delivered \o Append(Ids(queue), task.id)
            BY <2>3, <5>1, AppendConcat
          <5>3. QED
            BY <2>2, <2>5, <4>1, <5>2
        <4>3. QED
          BY <2>0, <3>2, <4>2 DEF QueueOrder
      <3>3. CASE wpc = "exit"
        <4>1. PICK n \in 0..Len(enqueued) : delivered = SubSeq(enqueued, 1, n)
          BY <3>3 DEF QueueOrder, FifoDelivery, Popped
        <4>2. n \in 0..Len(enqueued') /\ delivered' = SubSeq(enqueued', 1, n)
          <5>1. enqueued \in Seq(TaskIds)
            BY DEF ClientVarsOK
          <5>2. /\ n \in 0..Len(Append(enqueued, task.id))
                /\ SubSeq(Append(enqueued, task.id), 1, n) = SubSeq(enqueued, 1, n)
            BY <2>3, <5>1, PrefixOfAppend
          <5>3. QED
            BY <2>0, <2>2, <4>1, <5>2
        <4>3. FifoDelivery'
          BY <4>2 DEF FifoDelivery
        <4>4. wpc' = "exit"
          BY <2>0, <3>3
        <4>5. QED
          BY <4>3, <4>4 DEF QueueOrder
      <3>4. QED
        BY <3>1, <3>2, <3>3 DEF ClientVarsOK, Popped
    <2>7. QED
      BY <2>4, <2>6
  <1>3. QED
    BY <1>1, <1>2

(* Lines 82-94: the worker waits, exits on _stop, or pops the front task.  *)
LEMMA WorkerCheckClient ==
    ASSUME ClientVarsOK, QueueOrder, WorkerCheck, Worker \in Threads
    PROVE  ClientVarsOK' /\ QueueOrder'
  <1>0. /\ enqueued = delivered \o Ids(queue)
        /\ delivered \in Seq(TaskIds) /\ Ids(queue) \in Seq(TaskIds)
    BY OrderTypes DEF WorkerCheck, QueueOrder, Popped, ClientVarsOK
  <1>1. CASE ~stop /\ queue = <<>> /\ wpc' = "wait" /\ UNCHANGED <<queue, qowner, cur>>
    BY <1>1, <1>0 DEF WorkerCheck, ClientVarsOK, QueueOrder, Popped
  <1>2. CASE stop /\ wpc' = "exit" /\ qowner' = NoOwner /\ UNCHANGED <<queue, cur>>
    <2>1. FifoDelivery'
      BY <1>0, <1>2, PrefixWitness DEF WorkerCheck, FifoDelivery
    <2>2. QED
      BY <1>2, <2>1 DEF WorkerCheck, ClientVarsOK, QueueOrder, Popped
  <1>3. CASE /\ ~stop /\ queue # <<>>
             /\ cur' = Head(queue) /\ queue' = Tail(queue)
             /\ wpc' = "check2" /\ qowner' = NoOwner
    <2>1. Head(queue) \in Tasks /\ Tail(queue) \in Seq(Tasks)
      BY <1>3, HeadTailProperties DEF ClientVarsOK
    <2>2. ClientVarsOK'
      BY <1>3, <2>1 DEF WorkerCheck, ClientVarsOK, Popped
    <2>3. Ids(queue) = <<Head(queue).id>> \o Ids(Tail(queue))
      BY <1>3, IdsPop DEF ClientVarsOK
    <2>4. /\ <<Head(queue).id>> \in Seq(TaskIds)
          /\ Ids(Tail(queue)) \in Seq(TaskIds)
      <3>1. Head(queue).id \in TaskIds
        BY <2>1 DEF Tasks, TaskIds
      <3>2. Ids(Tail(queue)) \in Seq(TaskIds)
        BY <2>1, IdsType
      <3>3. QED
        BY <3>1, <3>2
    <2>5. enqueued = (delivered \o <<Head(queue).id>>) \o Ids(Tail(queue))
      BY <1>0, <2>3, <2>4, IdsAssoc
    <2>6. QueueOrder'
      BY <1>3, <2>5 DEF WorkerCheck, QueueOrder, Popped
    <2>7. QED
      BY <2>2, <2>6
  <1>4. QED
    BY <1>1, <1>2, <1>3 DEF WorkerCheck

(* Line 96: `if (_stop) return;` drops the popped task, or request().      *)
LEMMA WorkerStartClient ==
    ASSUME ClientVarsOK, QueueOrder, WorkerStart
    PROVE  ClientVarsOK' /\ QueueOrder'
  <1>0. /\ enqueued = (delivered \o <<cur.id>>) \o Ids(queue)
        /\ delivered \in Seq(TaskIds) /\ <<cur.id>> \in Seq(TaskIds)
        /\ Ids(queue) \in Seq(TaskIds)
    BY OrderTypes DEF WorkerStart, QueueOrder, Popped, ClientVarsOK
  <1>1. CASE stop /\ wpc' = "exit"
    <2>1. enqueued = delivered \o (<<cur.id>> \o Ids(queue))
      BY <1>0, IdsAssoc
    <2>2. <<cur.id>> \o Ids(queue) \in Seq(TaskIds)
      BY <1>0, ConcatProperties
    <2>3. FifoDelivery'
      BY <1>0, <2>1, <2>2, PrefixWitness DEF WorkerStart, FifoDelivery
    <2>4. QED
      BY <1>1, <2>3 DEF WorkerStart, ClientVarsOK, QueueOrder, Popped
  <1>2. CASE ~stop /\ wpc' = "request"
    BY <1>0, <1>2 DEF WorkerStart, ClientVarsOK, QueueOrder, Popped
  <1>3. QED
    BY <1>1, <1>2 DEF WorkerStart

(* Lines 99-101: the callback runs, or std::terminate ends everything.    *)
LEMMA WorkerDeliverClient ==
    ASSUME ClientVarsOK, QueueOrder, WorkerDeliver
    PROVE  ClientVarsOK' /\ QueueOrder'
  <1>0. /\ enqueued = (delivered \o <<cur.id>>) \o Ids(queue)
        /\ cur.id \in TaskIds /\ delivered \in Seq(TaskIds)
        /\ Ids(queue) \in Seq(TaskIds)
    BY OrderTypes DEF WorkerDeliver, QueueOrder, Popped, ClientVarsOK
  <1>1. CASE /\ delivered' = Append(delivered, cur.id)
             /\ wpc' = IF stop THEN "exit" ELSE "lock"
             /\ UNCHANGED aborted
    <2>1. delivered' = delivered \o <<cur.id>> /\ delivered' \in Seq(TaskIds)
      <3>1. Append(delivered, cur.id) = delivered \o <<cur.id>>
        BY <1>0, AppendIsConcat
      <3>2. Append(delivered, cur.id) \in Seq(TaskIds)
        BY <1>0, AppendProperties
      <3>3. QED
        BY <1>1, <3>1, <3>2
    <2>2. ClientVarsOK'
      BY <1>1, <2>1 DEF WorkerDeliver, ClientVarsOK, Popped
    <2>3. enqueued' = delivered' \o Ids(queue')
      BY <1>0, <2>1 DEF WorkerDeliver
    <2>4. CASE stop
      <3>1. FifoDelivery'
        BY <1>0, <2>1, <2>3, PrefixWitness DEF WorkerDeliver, FifoDelivery
      <3>2. QED
        BY <1>1, <2>2, <2>4, <3>1 DEF WorkerDeliver, QueueOrder
    <2>5. CASE ~stop
      BY <1>1, <2>2, <2>3, <2>5 DEF WorkerDeliver, QueueOrder
    <2>6. QED
      BY <2>4, <2>5
  <1>2. CASE aborted' = TRUE /\ UNCHANGED <<wpc, delivered>>
    BY <1>2 DEF WorkerDeliver, ClientVarsOK, QueueOrder, Popped, FifoDelivery
  <1>3. QED
    BY <1>1, <1>2 DEF WorkerDeliver

-----------------------------------------------------------------------------
(* The inductive invariant.                                               *)

LEMMA CInvInit == ClientInit => CInv
  <1> SUFFICES ASSUME ClientInit PROVE CInv
    OBVIOUS
  <1>1. TypeInv
    BY InitTypeInv DEF ClientInit
  <1>2. ExclInv
    BY DEF ClientInit, Init, ExclInv, LockInv, SocketInv, Locked, SocketHeld, PCs
  <1>3. ClientVarsOK
    <2>1. <<>> \in Seq(Tasks) /\ <<>> \in Seq(TaskIds)
      BY EmptySeq
    <2>2. wpc \in {"lock", "exit"} /\ cur = NoTask
      BY DEF ClientInit
    <2>3. QED
      BY <2>1, <2>2 DEF ClientInit, ClientVarsOK, Popped
  <1>4. QueueOrder
    <2>1. Ids(<<>>) = <<>>
      BY DEF Ids
    <2>2. CASE Async
      BY <2>1, <2>2 DEF ClientInit, QueueOrder, Popped
    <2>3. CASE ~Async
      BY <2>3 DEF ClientInit, QueueOrder, FifoDelivery
    <2>4. QED
      BY <2>2, <2>3
  <1>5. QED
    BY <1>1, <1>2, <1>3, <1>4 DEF CInv

(* A step that changes none of the request's variables.                   *)
LEMMA ReqUnchanged ==
    ASSUME TypeInv, ExclInv, UNCHANGED reqVars PROVE TypeInv' /\ ExclInv'
  BY NextTypeInv, NextExclInv DEF TypeInv

(* notify_one moves the worker from waiting to re-locking, or not at all. *)
LEMMA NotifyOneWpc ==
    ASSUME NotifyOne
    PROVE  \/ wpc' = wpc
           \/ wpc \in {"lock", "check", "wait", "waiting"}
              /\ wpc' \in {"lock", "check", "wait", "waiting"}
  BY DEF NotifyOne

(* The steps of a caller.                                                 *)
LEMMA CallerStepCInv ==
    ASSUME CInv, NEW c \in Callers,
           \/ SyncCall(c) \/ PerformRequest(c) \/ PerformNotify(c)
           \/ (RequestStep(c) /\ UNCHANGED clientVars)
    PROVE  CInv'
  <1>0. c \in Threads /\ Worker \in Threads
    BY ClientAssumption
  <1>1. CASE SyncCall(c)
    <2>1. TypeInv' /\ ExclInv'
      BY <1>0, <1>1, ReqPartInv DEF SyncCall, Next, CInv
    <2>2. QED
      BY <1>1, <2>1 DEF SyncCall, CInv, clientVars, ClientVarsOK, QueueOrder,
                        FifoDelivery, Popped
  <1>2. CASE PerformRequest(c)
    <2>1. CallsBump(c)
      BY <1>2 DEF PerformRequest, CallsBump
    <2>2. TypeInv' /\ ExclInv'
      BY <1>0, <2>1, ReqPartInv DEF CInv
    <2>3. QED
      BY <1>2, <2>2, PerformRequestClient DEF CInv, TypeInv
  <1>3. CASE PerformNotify(c)
    <2>1. TypeInv' /\ ExclInv'
      BY <1>3, ReqUnchanged DEF PerformNotify, CInv
    <2>2. ClientVarsOK'
      BY <1>3 DEF PerformNotify, NotifyOne, CInv, ClientVarsOK, Popped
    <2>3. QueueOrder'
      BY <1>3, NotifyOneWpc, QuietStep DEF PerformNotify, CInv
    <2>4. QED
      BY <2>1, <2>2, <2>3 DEF CInv
  <1>4. CASE RequestStep(c) /\ UNCHANGED clientVars
    <2>1. TypeInv' /\ ExclInv'
      BY <1>0, <1>4, ReqPartInv DEF Next, CInv
    <2>2. QED
      BY <1>4, <2>1 DEF CInv, clientVars, ClientVarsOK, QueueOrder,
                        FifoDelivery, Popped
  <1>5. QED
    BY <1>1, <1>2, <1>3, <1>4

(* The worker's steps.                                                    *)
LEMMA WorkerStepCInv ==
    ASSUME CInv, WorkerStep PROVE CInv'
  <1>0. Worker \in Threads
    BY ClientAssumption
  <1>1. CASE WorkerLock
    <2>1. TypeInv' /\ ExclInv'
      BY <1>1, ReqUnchanged DEF WorkerLock, CInv
    <2>2. ClientVarsOK'
      BY <1>0, <1>1 DEF WorkerLock, CInv, ClientVarsOK, Popped
    <2>3. QueueOrder'
      BY <1>1, QuietStep DEF WorkerLock, CInv
    <2>4. QED
      BY <2>1, <2>2, <2>3 DEF CInv
  <1>2. CASE WorkerCheck
    <2>1. TypeInv' /\ ExclInv'
      BY <1>2, ReqUnchanged DEF WorkerCheck, CInv
    <2>2. QED
      BY <1>0, <1>2, <2>1, WorkerCheckClient DEF CInv
  <1>3. CASE WorkerWait
    <2>1. TypeInv' /\ ExclInv'
      BY <1>3, ReqUnchanged DEF WorkerWait, CInv
    <2>2. ClientVarsOK'
      BY <1>3 DEF WorkerWait, CInv, ClientVarsOK, Popped
    <2>3. QueueOrder'
      BY <1>3, QuietStep DEF WorkerWait, CInv
    <2>4. QED
      BY <2>1, <2>2, <2>3 DEF CInv
  <1>4. CASE WorkerStart
    <2>1. CASE stop
      <3>1. UNCHANGED reqVars
        BY <1>4, <2>1 DEF WorkerStart
      <3>2. QED
        BY <1>4, <3>1, ReqUnchanged, WorkerStartClient DEF CInv
    <2>2. CASE ~stop
      <3>1. cur \in Tasks
        BY <1>4 DEF WorkerStart, CInv, ClientVarsOK, Popped
      <3>2. cur.verb \in Verbs /\ cur.extra \in ExtraHeaderChoices \cup {<<>>}
        BY <3>1 DEF Tasks
      <3>3. WorkerEnter
        BY <1>4, <2>2, <3>2 DEF WorkerStart, WorkerEnter
      <3>4. QED
        BY <1>0, <1>4, <3>3, ReqPartInv, WorkerStartClient DEF CInv
    <2>3. QED
      BY <2>1, <2>2
  <1>5. CASE WorkerDeliver
    <2>1. TypeInv' /\ ExclInv'
      BY <1>5, ReqUnchanged DEF WorkerDeliver, CInv
    <2>2. QED
      BY <1>5, <2>1, WorkerDeliverClient DEF CInv
  <1>6. CASE RequestStep(Worker) /\ UNCHANGED clientVars
    <2>1. TypeInv' /\ ExclInv'
      BY <1>0, <1>6, ReqPartInv DEF Next, CInv
    <2>2. QED
      BY <1>6, <2>1 DEF CInv, clientVars, ClientVarsOK, QueueOrder,
                        FifoDelivery, Popped
  <1>7. QED
    BY <1>1, <1>2, <1>3, <1>4, <1>5, <1>6 DEF WorkerStep

(* A spurious wakeup and the destructor's steps.                          *)
LEMMA OtherStepCInv ==
    ASSUME CInv, SpuriousWakeup \/ Destroy \/ DestroyNotify \/ DestroyJoin
    PROVE  CInv'
  <1>1. UNCHANGED reqVars
    BY DEF SpuriousWakeup, Destroy, DestroyNotify, DestroyJoin
  <1>2. TypeInv' /\ ExclInv'
    BY <1>1, ReqUnchanged DEF CInv
  <1>3. ClientVarsOK'
    BY DEF SpuriousWakeup, Destroy, DestroyNotify, DestroyJoin, NotifyOne,
           CInv, ClientVarsOK, Popped
  <1>4. QueueOrder'
    <2>1. UNCHANGED <<queue, cur, enqueued, delivered>>
      BY DEF SpuriousWakeup, Destroy, DestroyNotify, DestroyJoin
    <2>2. \/ wpc' = wpc
          \/ wpc \in {"lock", "check", "wait", "waiting"}
             /\ wpc' \in {"lock", "check", "wait", "waiting"}
      BY NotifyOneWpc DEF SpuriousWakeup, Destroy, DestroyNotify, DestroyJoin
    <2>3. QED
      BY <2>1, <2>2, QuietStep DEF CInv
  <1>5. QED
    BY <1>2, <1>3, <1>4 DEF CInv

(* Every step of the client keeps the inductive invariant.                *)
LEMMA CInvStep == CInv /\ [ClientNext]_vars => CInv'
  <1> SUFFICES ASSUME CInv, [ClientNext]_vars PROVE CInv'
    OBVIOUS
  <1>1. CASE \E c \in Callers :
               \/ SyncCall(c) \/ PerformRequest(c) \/ PerformNotify(c)
               \/ (RequestStep(c) /\ UNCHANGED clientVars)
    BY <1>1, CallerStepCInv
  <1>2. CASE WorkerStep
    BY <1>2, WorkerStepCInv
  <1>3. CASE SpuriousWakeup \/ Destroy \/ DestroyNotify \/ DestroyJoin
    BY <1>3, OtherStepCInv
  <1>4. CASE UNCHANGED vars
    <2>1. UNCHANGED reqVars /\ UNCHANGED clientVars
      BY <1>4 DEF vars
    <2>2. TypeInv' /\ ExclInv'
      BY <2>1, ReqUnchanged DEF CInv
    <2>3. QED
      BY <2>1, <2>2 DEF CInv, clientVars, ClientVarsOK, QueueOrder,
                        FifoDelivery, Popped
  <1>5. QED
    BY <1>1, <1>2, <1>3, <1>4 DEF ClientNext, Ended

-----------------------------------------------------------------------------
(* The client's type invariant holds in every reachable state, in sync    *)
(* and in async mode, for any number of callers and calls: the queue only *)
(* ever holds tasks a caller built, and the worker runs only those.       *)
THEOREM ClientTypeCorrect == ClientSpec => []ClientTypeOK
  <1>1. CInv => ClientTypeOK
    BY DEF CInv, TypeInv, ClientVarsOK, ClientTypeOK, TaskIds
  <1>2. QED
    BY <1>1, CInvInit, CInvStep, PTL DEF ClientSpec

(* The worker's calls and the callers' synchronous calls never share the  *)
(* transport: request() on the worker thread takes the same _mutex.       *)
THEOREM ClientTransportExclusive == ClientSpec => []TransportExclusive
  <1>1. CInv => TransportExclusive
    BY DEF CInv, ExclInv, LockInv, SocketInv, TransportExclusive, UsesSocket,
           SocketHeld, Locked
  <1>2. QED
    BY <1>1, CInvInit, CInvStep, PTL DEF ClientSpec

(* Callbacks run in the order their tasks were enqueued, each at most     *)
(* once, and only for enqueued tasks (the single worker pops the front of *)
(* _queue under _queueMutex), whatever the interleaving of the callers,   *)
(* spurious wakeups, _stop, and an exception that ends the worker.        *)
THEOREM FifoDeliveryThm == ClientSpec => []FifoDelivery
  <1>1. CInv => FifoDelivery
    <2> SUFFICES ASSUME CInv PROVE FifoDelivery
      OBVIOUS
    <2>1. ClientVarsOK /\ QueueOrder
      BY DEF CInv
    <2>2. CASE wpc \in Popped
      <3>1. enqueued = delivered \o (<<cur.id>> \o Ids(queue))
        <4>1. enqueued = (delivered \o <<cur.id>>) \o Ids(queue)
          BY <2>1, <2>2 DEF QueueOrder, Popped
        <4>2. /\ delivered \in Seq(TaskIds)
              /\ <<cur.id>> \in Seq(TaskIds) /\ Ids(queue) \in Seq(TaskIds)
          BY <2>1, <2>2, OrderTypes DEF ClientVarsOK
        <4>3. (delivered \o <<cur.id>>) \o Ids(queue)
                = delivered \o (<<cur.id>> \o Ids(queue))
          BY <4>2, IdsAssoc
        <4>4. QED
          BY <4>1, <4>3
      <3>2. delivered \in Seq(TaskIds) /\ <<cur.id>> \o Ids(queue) \in Seq(TaskIds)
        <4>1. delivered \in Seq(TaskIds)
          BY <2>1 DEF ClientVarsOK
        <4>2. <<cur.id>> \in Seq(TaskIds) /\ Ids(queue) \in Seq(TaskIds)
          BY <2>1, <2>2, OrderTypes
        <4>3. <<cur.id>> \o Ids(queue) \in Seq(TaskIds)
          BY <4>2, ConcatProperties
        <4>4. QED
          BY <4>1, <4>3
      <3>3. QED
        BY <3>1, <3>2, PrefixWitness DEF FifoDelivery
    <2>3. CASE wpc \in {"lock", "check", "wait", "waiting"}
      <3>1. enqueued = delivered \o Ids(queue)
        BY <2>1, <2>3 DEF QueueOrder, Popped
      <3>2. QED
        BY <2>1, <3>1, OrderTypes, PrefixWitness DEF FifoDelivery, ClientVarsOK
    <2>4. CASE wpc = "exit"
      BY <2>1, <2>4 DEF QueueOrder, Popped
    <2>5. QED
      BY <2>1, <2>2, <2>3, <2>4 DEF ClientVarsOK, Popped
  <1>2. QED
    BY <1>1, CInvInit, CInvStep, PTL DEF ClientSpec

=============================================================================
