------------------------ MODULE HttpRequestRefinement ------------------------
(***************************************************************************)
(* request() implements the abstract call of HttpCall, for every number of *)
(* threads, redirects, chunks and body sizes: under the mapping CallState, *)
(* entering request() is Begin, taking _mutex for the first frame is       *)
(* Acquire, every return statement is Complete, and every other step       *)
(* (a redirect's new frame included) changes nothing a caller sees.        *)
(***************************************************************************)
EXTENDS HttpRequestProofs

(* A return statement releases _mutex only from the thread that holds it:  *)
(* a held mutex belongs to a thread inside request().                      *)
OwnerInv == owner # NoOwner => pc[owner] # "idle"

(* How much of the body has been read: at most MaxBody per chunk counted,  *)
(* plus one more MaxBody once a Content-Length body or the current chunk   *)
(* has been read into payload.                                             *)
Weight(p) == IF p \in {"chunkEnd", "gzip"} THEN 1 ELSE 0
PayloadOK(t) == payload[t] <= MaxBody * (nchunks[t] + Weight(pc[t]))
PayloadInv == \A t \in Threads : PayloadOK(t)

(* The invariant the refinement rests on.                                  *)
RInv == IInv /\ OwnerInv /\ PayloadInv

(* The hypotheses of one step.                                             *)
Hyp == TypeOK /\ TypeOK' /\ FrameInv /\ LockInv /\ OwnerInv /\ PayloadInv

(* What every step of a thread t establishes.                              *)
Stepped(t) ==
    /\ OwnerInv' /\ PayloadInv'
    /\ \/ UNCHANGED AbstractCall!avars
       \/ AbstractCall!Complete(t)

-----------------------------------------------------------------------------
(* A step that stays inside the call changes nothing the abstraction sees. *)
LEMMA StutterStep ==
    ASSUME Hyp, NEW t \in Threads, pc[t] \in Locked,
           NEW p \in Locked \cup {"lock"}, pc' = [pc EXCEPT ![t] = p],
           UNCHANGED <<calls, resp, owner>>,
           \A u \in Threads \ {t} : payload'[u] = payload[u] /\ nchunks'[u] = nchunks[u],
           PayloadOK(t)'
    PROVE  Stepped(t)
  <1>1. owner = t
    BY DEF Hyp, LockInv
  <1>2. OwnerInv'
    BY <1>1 DEF Hyp, TypeOK, OwnerInv, Locked, PCs
  <1>3. PayloadInv'
    BY DEF Hyp, TypeOK, PayloadInv, PayloadOK
  <1>4. \A u \in Threads : CallState(u)' = CallState(u)
    BY <1>1 DEF Hyp, TypeOK, CallState, Locked, PCs
  <1>5. UNCHANGED AbstractCall!avars
    BY <1>4 DEF AbstractCall!avars
  <1>6. QED
    BY <1>2, <1>3, <1>5 DEF Stepped

(* A return statement of request() is the abstract call completing.        *)
LEMMA ReturnStep ==
    ASSUME Hyp, NEW t \in Threads, pc[t] \in Locked,
           NEW e \in Outcomes, NEW d \in 0..MaxDownload,
           Return(t, e, d), UNCHANGED calls
    PROVE  Stepped(t)
  <1>1. owner = t
    BY DEF Hyp, LockInv
  <1>2. OwnerInv'
    BY ThreadsAssumption DEF Return, OwnerInv
  <1>3. PayloadInv'
    <2>1. PayloadOK(t)'
      BY BoundsAssumption DEF Hyp, TypeOK, Return, FreshFrame, PayloadOK, Weight
    <2>2. ASSUME NEW u \in Threads \ {t} PROVE PayloadOK(u)'
      BY DEF Hyp, TypeOK, Return, FreshFrame, PayloadInv, PayloadOK
    <2>3. QED
      BY <2>1, <2>2 DEF PayloadInv
  <1>4. AbstractCall!Complete(t)
    <2>1. CallState(t) = "active" /\ CallState(t)' = "idle"
      BY DEF Hyp, TypeOK, Return, CallState, Locked, PCs
    <2>2. ASSUME NEW u \in Threads \ {t} PROVE CallState(u)' = CallState(u)
      BY <1>1, ThreadsAssumption DEF Hyp, TypeOK, Return, CallState
    <2>3. [err |-> e, code |-> code[t], down |-> d] \in CallResults
      BY DEF Hyp, TypeOK, CallResults
    <2>4. QED
      BY <2>1, <2>2, <2>3 DEF Hyp, TypeOK, Return, AbstractCall!Complete
  <1>5. QED
    BY <1>2, <1>3, <1>4 DEF Stepped

(* A step that keeps the body read so far, to a statement that counts at   *)
(* least as much of it, keeps PayloadOK.                                   *)
LEMMA KeptPayload ==
    ASSUME TypeOK, PayloadInv, NEW t \in Threads, NEW p \in PCs,
           pc' = [pc EXCEPT ![t] = p], UNCHANGED <<payload, nchunks>>,
           Weight(pc[t]) <= Weight(p)
    PROVE  /\ PayloadOK(t)'
           /\ \A u \in Threads \ {t} : payload'[u] = payload[u] /\ nchunks'[u] = nchunks[u]
  <1>1. MaxBody * (nchunks[t] + Weight(pc[t])) <= MaxBody * (nchunks[t] + Weight(p))
    BY BoundsAssumption DEF TypeOK, Weight
  <1>2. pc'[t] = p /\ payload'[t] = payload[t] /\ nchunks'[t] = nchunks[t]
    BY DEF TypeOK
  <1>3. payload[t] <= MaxBody * (nchunks[t] + Weight(pc[t]))
    BY DEF PayloadInv, PayloadOK
  <1>4. PayloadOK(t)'
    BY <1>1, <1>2, <1>3, BoundsAssumption DEF PayloadOK, TypeOK, Weight
  <1>5. QED
    BY <1>4

(* A move to another statement that keeps the body read so far.           *)
LEMMA GotoStep ==
    ASSUME Hyp, NEW t \in Threads, pc[t] \in Locked, NEW p \in Locked,
           Goto(t, p), UNCHANGED <<calls, payload, nchunks>>,
           Weight(pc[t]) <= Weight(p)
    PROVE  Stepped(t)
  <1>1. /\ PayloadOK(t)'
        /\ \A u \in Threads \ {t} : payload'[u] = payload[u] /\ nchunks'[u] = nchunks[u]
    BY KeptPayload DEF Hyp, Goto, Locked
  <1>2. QED
    BY <1>1, StutterStep DEF Goto

(* The early returns, which report no body.                                *)
LEMMA ReturnZeroStep ==
    ASSUME Hyp, NEW t \in Threads, pc[t] \in Locked, NEW e \in Outcomes,
           Return(t, e, 0), UNCHANGED calls
    PROVE  Stepped(t)
  <1>1. 0 \in 0..MaxDownload
    BY BoundsAssumption DEF MaxDownload
  <1>2. QED
    BY <1>1, ReturnStep

-----------------------------------------------------------------------------
(* One lemma per step of request(), split along the step's exits.          *)
LEMMA ParseUrlStep ==
    ASSUME Hyp, NEW t \in Threads, ParseUrl(t) PROVE Stepped(t)
  <1>0. pc[t] = "parse" /\ UNCHANGED calls
    BY DEF ParseUrl
  <1>1. CASE Goto(t, "create") /\ UNCHANGED frameVars
    BY <1>0, <1>1, GotoStep DEF frameVars, Locked, PCs, Weight
  <1>2. CASE Return(t, "UrlMalformed", 0)
    BY <1>0, <1>2, ReturnZeroStep DEF Locked, PCs, Outcomes, ErrorCodes
  <1>3. QED
    BY <1>1, <1>2 DEF ParseUrl

LEMMA CreateSocketStep ==
    ASSUME Hyp, NEW t \in Threads, CreateSocket(t) PROVE Stepped(t)
  <1>0. pc[t] = "create" /\ UNCHANGED calls
    BY DEF CreateSocket
  <1>1. CASE Goto(t, "connect") /\ UNCHANGED frameVars
    BY <1>0, <1>1, GotoStep DEF frameVars, Locked, PCs, Weight
  <1>2. CASE Return(t, "CannotCreateSocket", 0)
    BY <1>0, <1>2, ReturnZeroStep DEF Locked, PCs, Outcomes, ErrorCodes
  <1>3. QED
    BY <1>1, <1>2 DEF CreateSocket

LEMMA ConnectStep ==
    ASSUME Hyp, NEW t \in Threads, Connect(t) PROVE Stepped(t)
  <1>0. pc[t] = "connect" /\ UNCHANGED calls
    BY DEF Connect
  <1>1. CASE Goto(t, "write") /\ UNCHANGED frameVars
    BY <1>0, <1>1, GotoStep DEF frameVars, Locked, PCs, Weight
  <1>2. CASE Return(t, "CannotConnect", 0)
    BY <1>0, <1>2, ReturnZeroStep DEF Locked, PCs, Outcomes, ErrorCodes
  <1>3. QED
    BY <1>1, <1>2 DEF Connect

LEMMA WriteStep ==
    ASSUME Hyp, NEW t \in Threads, Write(t) PROVE Stepped(t)
  <1>0. pc[t] = "write" /\ UNCHANGED calls
    BY DEF Write
  <1>1. CASE Goto(t, "status") /\ UNCHANGED <<payload, nchunks>>
    BY <1>0, <1>1, GotoStep DEF Locked, PCs, Weight
  <1>2. CASE Return(t, "SendError", 0)
    BY <1>0, <1>2, ReturnZeroStep DEF Locked, PCs, Outcomes, ErrorCodes
  <1>3. QED
    BY <1>1, <1>2 DEF Write

LEMMA ReadStatusStep ==
    ASSUME Hyp, NEW t \in Threads, ReadStatus(t) PROVE Stepped(t)
  <1>0. pc[t] = "status" /\ UNCHANGED calls
    BY DEF ReadStatus
  <1>1. CASE Goto(t, "headers") /\ UNCHANGED <<payload, nchunks>>
    BY <1>0, <1>1, GotoStep DEF Locked, PCs, Weight
  <1>2. CASE \E e \in Outcomes : Return(t, e, 0)
    BY <1>0, <1>2, ReturnZeroStep DEF Locked, PCs
  <1>3. QED
    BY <1>1, <1>2 DEF ReadStatus, Outcomes, ErrorCodes

LEMMA ReadHeadersStep ==
    ASSUME Hyp, NEW t \in Threads, ReadHeaders(t) PROVE Stepped(t)
  <1>0. pc[t] = "headers" /\ UNCHANGED calls
    BY DEF ReadHeaders
  <1>1. CASE Goto(t, "frame") /\ UNCHANGED <<payload, nchunks>>
    BY <1>0, <1>1, GotoStep DEF Locked, PCs, Weight
  <1>2. CASE Return(t, "HeaderParsingError", 0)
    BY <1>0, <1>2, ReturnZeroStep DEF Locked, PCs, Outcomes, ErrorCodes
  <1>3. QED
    BY <1>1, <1>2 DEF ReadHeaders

LEMMA SelectBodyStep ==
    ASSUME Hyp, NEW t \in Threads, SelectBody(t) PROVE Stepped(t)
  <1>0. pc[t] = "frame" /\ UNCHANGED calls
    BY DEF SelectBody
  <1>1. CASE \E e \in Outcomes : Return(t, e, 0)
    BY <1>0, <1>1, ReturnZeroStep DEF Locked, PCs
  <1>2. CASE \E p \in {"body", "chunkSize", "gzip"} : Goto(t, p) /\ UNCHANGED frameVars
    BY <1>0, <1>2, GotoStep DEF frameVars, Locked, PCs, Weight
  <1>3. QED
    BY <1>1, <1>2 DEF SelectBody, Outcomes, ErrorCodes

(* A Content-Length body adds at most MaxBody: FrameInv says the length   *)
(* it reads is a number up to MaxBody or text that parses as 0.           *)
LEMMA ReadBodyStep ==
    ASSUME Hyp, NEW t \in Threads, ReadBody(t) PROVE Stepped(t)
  <1>0. pc[t] = "body" /\ UNCHANGED calls
    BY DEF ReadBody
  <1>1. CASE /\ payload' = [payload EXCEPT ![t] = @ + ParsedLength(hdr[t].length)]
             /\ Goto(t, "gzip")
             /\ UNCHANGED <<code, hdr, nchunks, last, sent>>
    <2>1. ParsedLength(hdr[t].length) \in 0..MaxBody
      BY <1>0, BoundsAssumption, SpecialsAssumption DEF Hyp, FrameInv, FrameOK, ParsedLength
    <2>2. payload[t] <= MaxBody * nchunks[t]
      <3>1. PayloadOK(t) /\ Weight(pc[t]) = 0
        BY <1>0 DEF Hyp, PayloadInv, Weight
      <3>2. nchunks[t] \in Nat /\ payload[t] \in Nat
        BY DEF Hyp, TypeOK
      <3>3. QED
        BY <3>1, <3>2, BoundsAssumption DEF PayloadOK
    <2>3. payload'[t] <= MaxBody * (nchunks[t] + 1)
      BY <1>1, <2>1, <2>2, BoundsAssumption DEF Hyp, TypeOK
    <2>4. PayloadOK(t)'
      BY <1>1, <2>3 DEF Hyp, TypeOK, Goto, PayloadOK, Weight
    <2>5. \A u \in Threads \ {t} : payload'[u] = payload[u] /\ nchunks'[u] = nchunks[u]
      BY <1>1 DEF Hyp, TypeOK
    <2>6. QED
      BY <1>0, <1>1, <2>4, <2>5, StutterStep DEF Goto, Locked, PCs
  <1>2. CASE Return(t, "ChunkReadError", 0)
    BY <1>0, <1>2, ReturnZeroStep DEF Locked, PCs, Outcomes, ErrorCodes
  <1>3. QED
    BY <1>1, <1>2 DEF ReadBody

LEMMA ChunkSizeStep ==
    ASSUME Hyp, NEW t \in Threads, ChunkSize(t) PROVE Stepped(t)
  <1>0. pc[t] = "chunkSize" /\ UNCHANGED calls
    BY DEF ChunkSize
  <1>1. CASE \E e \in Outcomes : Return(t, e, 0)
    BY <1>0, <1>1, ReturnZeroStep DEF Locked, PCs
  <1>2. CASE Goto(t, "chunkData") /\ UNCHANGED <<payload, nchunks>>
    BY <1>0, <1>2, GotoStep DEF Locked, PCs, Weight
  <1>3. QED
    BY <1>1, <1>2 DEF ChunkSize, Outcomes, ErrorCodes

(* A chunk adds at most MaxBody: its size line is a number up to MaxBody, *)
(* text that parses as 0, or Huge, which is never delivered.              *)
LEMMA ChunkDataStep ==
    ASSUME Hyp, NEW t \in Threads, ChunkData(t) PROVE Stepped(t)
  <1>0. pc[t] = "chunkData" /\ UNCHANGED calls
    BY DEF ChunkData
  <1>1. CASE /\ ParseHex(last[t]) # Huge
             /\ payload' = [payload EXCEPT ![t] = @ + ParseHex(last[t])]
             /\ Goto(t, "chunkEnd")
             /\ UNCHANGED <<code, hdr, nchunks, last, sent>>
    <2>1. ParseHex(last[t]) \in 0..MaxBody
      <3>1. last[t] \in ChunkLines
        BY <1>0 DEF Hyp, FrameInv, FrameOK
      <3>2. QED
        BY <1>1, <3>1, SpecialsAssumption, BoundsAssumption DEF ParseHex, ChunkLines
    <2>2. payload[t] <= MaxBody * nchunks[t]
      <3>1. PayloadOK(t) /\ Weight(pc[t]) = 0
        BY <1>0 DEF Hyp, PayloadInv, Weight
      <3>2. nchunks[t] \in Nat /\ payload[t] \in Nat
        BY DEF Hyp, TypeOK
      <3>3. QED
        BY <3>1, <3>2, BoundsAssumption DEF PayloadOK
    <2>3. payload'[t] <= MaxBody * (nchunks[t] + 1)
      BY <1>1, <2>1, <2>2, BoundsAssumption DEF Hyp, TypeOK
    <2>4. PayloadOK(t)'
      BY <1>1, <2>3 DEF Hyp, TypeOK, Goto, PayloadOK, Weight
    <2>5. \A u \in Threads \ {t} : payload'[u] = payload[u] /\ nchunks'[u] = nchunks[u]
      BY <1>1 DEF Hyp, TypeOK
    <2>6. QED
      BY <1>0, <1>1, <2>4, <2>5, StutterStep DEF Goto, Locked, PCs
  <1>2. CASE Return(t, "ChunkReadError", 0)
    BY <1>0, <1>2, ReturnZeroStep DEF Locked, PCs, Outcomes, ErrorCodes
  <1>3. QED
    BY <1>1, <1>2 DEF ChunkData

(* Counting a non-final chunk moves its MaxBody from the current chunk to *)
(* the chunks counted.                                                     *)
LEMMA ChunkEndStep ==
    ASSUME Hyp, NEW t \in Threads, ChunkEnd(t) PROVE Stepped(t)
  <1>0. pc[t] = "chunkEnd" /\ UNCHANGED calls
    BY DEF ChunkEnd
  <1>1. CASE Goto(t, "gzip") /\ UNCHANGED frameVars
    BY <1>0, <1>1, GotoStep DEF frameVars, Locked, PCs, Weight
  <1>2. CASE /\ nchunks' = [nchunks EXCEPT ![t] = @ + 1]
             /\ Goto(t, "chunkSize")
             /\ UNCHANGED <<code, hdr, payload, last, sent>>
    <2>1. payload[t] <= MaxBody * (nchunks[t] + 1)
      BY <1>0 DEF Hyp, PayloadInv, PayloadOK, Weight
    <2>2. PayloadOK(t)'
      BY <1>2, <2>1 DEF Hyp, TypeOK, Goto, PayloadOK, Weight
    <2>3. QED
      BY <1>0, <1>2, <2>2, StutterStep DEF Hyp, TypeOK, Goto, Locked, PCs
  <1>3. CASE Return(t, "ChunkReadError", 0)
    BY <1>0, <1>3, ReturnZeroStep DEF Locked, PCs, Outcomes, ErrorCodes
  <1>4. QED
    BY <1>1, <1>2, <1>3 DEF ChunkEnd

(* downloadSize is at most MaxChunks chunks and one more MaxBody.          *)
LEMMA FinishStep ==
    ASSUME Hyp, NEW t \in Threads, Finish(t) PROVE Stepped(t)
  <1>0. pc[t] = "gzip" /\ UNCHANGED calls
    BY DEF Finish
  <1>1. payload[t] \in 0..MaxDownload
    <2>1. payload[t] <= MaxBody * (nchunks[t] + 1)
      BY <1>0 DEF Hyp, PayloadInv, PayloadOK, Weight
    <2>2. MaxBody * (nchunks[t] + 1) <= MaxBody * (MaxChunks + 1)
      BY BoundsAssumption DEF Hyp, TypeOK
    <2>3. payload[t] <= MaxDownload
      <3>1. nchunks[t] \in Nat /\ payload[t] \in Nat
        BY DEF Hyp, TypeOK
      <3>2. QED
        BY <2>1, <2>2, <3>1, BoundsAssumption DEF MaxDownload
    <2>4. payload[t] \in Nat
      BY DEF Hyp, TypeOK
    <2>5. QED
      BY <2>3, <2>4
  <1>2. \E e \in Outcomes : Return(t, e, payload[t])
    BY DEF Finish, Outcomes, ErrorCodes
  <1>3. QED
    BY <1>0, <1>1, <1>2, ReturnStep DEF Locked, PCs

(* A redirect's new frame starts with an empty body and keeps _mutex.      *)
LEMMA RedirectStep ==
    ASSUME Hyp, NEW t \in Threads, Redirect(t) PROVE Stepped(t)
  <1>0. pc[t] = "frame" /\ UNCHANGED calls
    BY DEF Redirect
  <1>1. CASE \E e \in Outcomes : Return(t, e, 0)
    BY <1>0, <1>1, ReturnZeroStep DEF Locked, PCs
  <1>2. CASE /\ pc' = [pc EXCEPT ![t] = "lock"]
             /\ FreshFrame(t)
             /\ UNCHANGED <<resp, owner>>
    <2>1. PayloadOK(t)'
      BY <1>2, BoundsAssumption DEF Hyp, TypeOK, FreshFrame, PayloadOK, Weight
    <2>2. \A u \in Threads \ {t} : payload'[u] = payload[u] /\ nchunks'[u] = nchunks[u]
      BY <1>2 DEF FreshFrame
    <2>3. QED
      BY <1>0, <1>2, <2>1, <2>2, StutterStep DEF Locked, PCs
  <1>3. QED
    BY <1>1, <1>2 DEF Redirect, Outcomes, ErrorCodes

(* Entering request() is the abstract call beginning: the caller cannot   *)
(* hold _mutex while it is outside request().                              *)
LEMMA CallStep ==
    ASSUME Hyp, NEW t \in Threads, Call(t)
    PROVE  OwnerInv' /\ PayloadInv' /\ AbstractCall!Begin(t)
  <1>1. PICK v \in Verbs, x \in ExtraHeaderChoices : Enter(t, v, x)
    BY DEF Call
  <1>2. pc[t] = "idle" /\ owner # t /\ UNCHANGED owner
    BY ThreadsAssumption DEF Hyp, TypeOK, OwnerInv, Call
  <1>3. OwnerInv'
    BY <1>1, <1>2 DEF Hyp, TypeOK, OwnerInv, Enter
  <1>4. PayloadInv'
    <2>1. PayloadOK(t)'
      BY <1>1, BoundsAssumption DEF Hyp, TypeOK, Enter, FreshFrame, PayloadOK, Weight
    <2>2. ASSUME NEW u \in Threads \ {t} PROVE PayloadOK(u)'
      BY <1>1 DEF Hyp, TypeOK, Enter, FreshFrame, PayloadInv, PayloadOK
    <2>3. QED
      BY <2>1, <2>2 DEF PayloadInv
  <1>5. AbstractCall!Begin(t)
    <2>1. CallState(t) = "idle" /\ CallState(t)' = "waiting"
      BY <1>1, <1>2 DEF Hyp, TypeOK, Enter, CallState
    <2>2. ASSUME NEW u \in Threads \ {t} PROVE CallState(u)' = CallState(u)
      BY <1>1, <1>2 DEF Hyp, TypeOK, Enter, CallState
    <2>3. calls[t] < MaxCalls /\ calls' = [calls EXCEPT ![t] = @ + 1]
      BY DEF Call
    <2>4. resp' = [resp EXCEPT ![t] = NoResponse]
      BY <1>1 DEF Enter
    <2>5. QED
      BY <1>2, <2>1, <2>2, <2>3, <2>4 DEF AbstractCall!Begin
  <1>6. QED
    BY <1>3, <1>4, <1>5

(* Taking _mutex for a first frame is the abstract call starting.          *)
LEMMA LockStep ==
    ASSUME Hyp, NEW t \in Threads, Lock(t)
    PROVE  OwnerInv' /\ PayloadInv' /\ AbstractCall!Acquire(t)
  <1>1. pc[t] = "lock" /\ owner = NoOwner /\ owner' = t
        /\ pc' = [pc EXCEPT ![t] = "parse"] /\ UNCHANGED <<calls, resp, payload, nchunks>>
    BY DEF Lock, frameVars
  <1>2. OwnerInv'
    BY <1>1 DEF Hyp, TypeOK, OwnerInv
  <1>3. PayloadInv'
    <2>1. Weight(pc[t]) <= Weight("parse") /\ "parse" \in PCs
      BY <1>1 DEF Weight, PCs
    <2>2. /\ PayloadOK(t)'
          /\ \A u \in Threads \ {t} : payload'[u] = payload[u] /\ nchunks'[u] = nchunks[u]
      BY <1>1, <2>1, KeptPayload DEF Hyp
    <2>3. ASSUME NEW u \in Threads \ {t} PROVE PayloadOK(u)'
      BY <1>1, <2>2 DEF Hyp, PayloadInv, PayloadOK, TypeOK
    <2>4. QED
      BY <2>2, <2>3 DEF PayloadInv
  <1>4. AbstractCall!Acquire(t)
    <2>1. CallState(t) = "waiting" /\ CallState(t)' = "active"
      BY <1>1, ThreadsAssumption DEF Hyp, TypeOK, CallState
    <2>2. ASSUME NEW u \in Threads \ {t} PROVE CallState(u)' = CallState(u)
      BY <1>1, ThreadsAssumption DEF Hyp, TypeOK, CallState
    <2>3. QED
      BY <1>1, <2>1, <2>2 DEF Hyp, TypeOK, AbstractCall!Acquire
  <1>5. QED
    BY <1>2, <1>3, <1>4

(* Every step of request() is a step of the abstract call or a stutter.    *)
LEMMA NextStep ==
    ASSUME Hyp, [Next]_reqVars
    PROVE  OwnerInv' /\ PayloadInv' /\ [AbstractCall!CallNext]_AbstractCall!avars
  <1>1. ASSUME NEW t \in Threads, Call(t)
        PROVE  OwnerInv' /\ PayloadInv' /\ [AbstractCall!CallNext]_AbstractCall!avars
    BY <1>1, CallStep DEF AbstractCall!CallNext
  <1>2. ASSUME NEW t \in Threads, Lock(t)
        PROVE  OwnerInv' /\ PayloadInv' /\ [AbstractCall!CallNext]_AbstractCall!avars
    BY <1>2, LockStep DEF AbstractCall!CallNext
  <1>3. ASSUME NEW t \in Threads, RequestStep(t), ~Lock(t)
        PROVE  OwnerInv' /\ PayloadInv' /\ [AbstractCall!CallNext]_AbstractCall!avars
    <2>1. Stepped(t)
      BY <1>3, ParseUrlStep, CreateSocketStep, ConnectStep, WriteStep,
         ReadStatusStep, ReadHeadersStep, RedirectStep, SelectBodyStep,
         ReadBodyStep, ChunkSizeStep, ChunkDataStep, ChunkEndStep, FinishStep
      DEF RequestStep
    <2>2. QED
      BY <2>1 DEF Stepped, AbstractCall!CallNext
  <1>4. CASE UNCHANGED reqVars
    <2>1. \A u \in Threads : CallState(u)' = CallState(u)
      BY <1>4 DEF reqVars, CallState
    <2>2. QED
      BY <1>4, <2>1 DEF Hyp, reqVars, OwnerInv, PayloadInv, PayloadOK, Weight,
                        AbstractCall!avars
  <1>5. QED
    BY <1>1, <1>2, <1>3, <1>4 DEF Next, Finished, RequestStep

(* The strengthened invariant holds initially ...                         *)
LEMMA RInvInit == Init => RInv
  <1>1. Init => IInv
    BY InitTypeInv DEF Init, IInv, ExclInv, LockInv, SocketInv, Locked, SocketHeld, PCs
  <1>2. Init => OwnerInv /\ PayloadInv
    BY BoundsAssumption DEF Init, OwnerInv, PayloadInv, PayloadOK, Weight
  <1>3. QED
    BY <1>1, <1>2 DEF RInv

(* ... and every step keeps it.                                            *)
LEMMA RInvStep == RInv /\ [Next]_reqVars => RInv'
  <1> SUFFICES ASSUME RInv, [Next]_reqVars PROVE RInv'
    OBVIOUS
  <1>1. TypeInv' /\ ExclInv'
    BY NextTypeInv, NextExclInv DEF RInv, IInv, TypeInv
  <1>2. OwnerInv' /\ PayloadInv'
    BY <1>1, NextStep DEF RInv, IInv, TypeInv, ExclInv, Hyp
  <1>3. QED
    BY <1>1, <1>2 DEF RInv, IInv

(* request() implements the abstract call for every number of threads,     *)
(* calls, redirects, chunks and body sizes: every behaviour of the threads *)
(* calling get/head/del/post/put, seen through CallState, is a behaviour  *)
(* in which calls begin, start one at a time once _mutex is free, and each *)
(* completes with exactly one response: CallsSerialized, the safety part *)
(* of ImplementsCall, whatever the redirect bound (that started calls     *)
(* complete is liveness, checked by TLC).                                  *)
THEOREM CallRefinement == Spec => CallsSerialized
  <1>1. Init => AbstractCall!CallInit
    BY DEF Init, CallState, NoResponse, AbstractCall!CallInit
  <1>2. RInv /\ [Next]_reqVars => [AbstractCall!CallNext]_AbstractCall!avars
    <2> SUFFICES ASSUME RInv, [Next]_reqVars
                 PROVE  [AbstractCall!CallNext]_AbstractCall!avars
      OBVIOUS
    <2>1. TypeInv'
      BY NextTypeInv DEF RInv, IInv
    <2>2. QED
      BY <2>1, NextStep DEF RInv, IInv, TypeInv, ExclInv, Hyp
  <1>3. QED
    BY <1>1, <1>2, RInvInit, RInvStep, PTL
    DEF Spec, CallsSerialized, AbstractCall!CallSafety
=============================================================================
