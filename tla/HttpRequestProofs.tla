------------------------- MODULE HttpRequestProofs -------------------------
(***************************************************************************)
(* Proofs about HttpRequest for every value of the constants: the type    *)
(* invariant, and that calls never share the transport (the lock_guard on *)
(* _mutex keeps the _socket field to the one thread past it).             *)
(***************************************************************************)
EXTENDS HttpRequest, SequenceTheorems, TLAPS

(* Facts about a frame's locals that its earlier steps established: a     *)
(* body read only starts on a length it can read, a chunk is only read    *)
(* after its size line, and a non-final chunk is within the bound.        *)
FrameOK(t) ==
    /\ pc[t] = "body" => hdr[t].length \in (0..MaxBody) \cup {Junk}
    /\ pc[t] \in {"chunkData", "chunkEnd"} =>
           /\ last[t] \in ChunkLines
           /\ ParseHex(last[t]) # 0 => nchunks[t] < MaxChunks
    /\ pc[t] = "chunkEnd" => last[t] # Huge
FrameInv == \A t \in Threads : FrameOK(t)

(* The type invariant made inductive.                                     *)
TypeInv == TypeOK /\ FrameInv

(* A thread past the lock holds _mutex; a thread past createSocket is     *)
(* the one whose createSocket assigned _socket (it keeps it through the   *)
(* redirect check and gzip, where it does not use it).                    *)
LockInv == \A t \in Threads : pc[t] \in Locked => owner = t
SocketHeld == Locked \ {"parse", "create"}
SocketInv == \A t \in Threads : pc[t] \in SocketHeld => socket = t


-----------------------------------------------------------------------------
(* The request string is a sequence of header names.                      *)
LEMMA BuildRequestType ==
    ASSUME NEW v, NEW x \in Seq(ExtraHeaderNames), NEW h
    PROVE  BuildRequest(v, x, h) \in Seq(RequestHeaderNames)
  <1> DEFINE S == RequestHeaderNames
             Opt(b, n) == IF b THEN <<n>> ELSE <<>>
  <1>1. \A b \in BOOLEAN, n \in S : Opt(b, n) \in Seq(S)
    OBVIOUS
  <1>2. /\ <<"Host">> \in Seq(S)
        /\ <<"Content-Length">> \in Seq(S)
        /\ <<>> \in Seq(S)
        /\ x \in Seq(S)
    BY DEF RequestHeaderNames, DefaultHeaderNames
  <1>3. /\ "Accept-Encoding" \in S /\ "Accept" \in S /\ "User-Agent" \in S
        /\ "Content-Type" \in S
    BY DEF RequestHeaderNames, DefaultHeaderNames
  <1>4. BuildRequest(v, x, h) =
           <<"Host">> \o Opt(Compress, "Accept-Encoding") \o x
           \o Opt("Accept" \notin HeaderNames(h), "Accept")
           \o Opt("User-Agent" \notin HeaderNames(h), "User-Agent")
           \o (IF v \in {"POST", "PUT"}
               THEN <<"Content-Length">>
                    \o Opt("Content-Type" \notin Range(x), "Content-Type")
               ELSE <<>>)
    BY DEF BuildRequest
  <1>5. Compress \in BOOLEAN
    BY ArgsAssumption
  <1>6. (IF v \in {"POST", "PUT"}
         THEN <<"Content-Length">>
              \o Opt("Content-Type" \notin Range(x), "Content-Type")
         ELSE <<>>) \in Seq(S)
    BY <1>1, <1>2, <1>3, ConcatProperties
  <1>7. QED
    BY <1>1, <1>2, <1>3, <1>4, <1>5, <1>6, ConcatProperties

-----------------------------------------------------------------------------
(* The type invariant.  TypeOK alone is not inductive: a body read and a  *)
(* chunk read add to payload a length that only the step before them      *)
(* checked, so FrameInv carries those checks forward.                     *)
LEMMA InitTypeInv == Init => TypeInv
  BY ThreadsAssumption, BoundsAssumption, ArgsAssumption
  DEF Init, TypeInv, TypeOK, FrameInv, FrameOK, NoHeaders, NoResponse, PCs,
      Headers, ChunkLines

(* A step that changes the frame of thread t only keeps the frame facts   *)
(* of the other threads.                                                  *)
LEMMA FrameOthers ==
    ASSUME FrameInv, NEW t \in Threads, FrameOK(t)',
           \A u \in Threads \ {t} : /\ pc'[u] = pc[u] /\ hdr'[u] = hdr[u]
                                   /\ last'[u] = last[u]
                                   /\ nchunks'[u] = nchunks[u]
    PROVE  FrameInv'
  BY DEF FrameInv, FrameOK

(* A return statement of request() keeps the types: it leaves the frame   *)
(* and stores a response built from the frame's `code`.                   *)
LEMMA ReturnTypeInv ==
    ASSUME TypeInv, NEW t \in Threads, NEW e \in Outcomes, NEW d \in Nat,
           Return(t, e, d), UNCHANGED <<calls, verb, extra>>,
           socket' \in Threads \cup {NoSocket}
    PROVE  TypeInv'
  <1> USE DEF TypeInv, TypeOK
  <1>1. resp' \in [Threads -> Responses \cup {NoResponse}]
    BY DEF Return, Responses
  <1>2. pc' \in [Threads -> PCs]
    BY DEF Return, PCs
  <1>6. depth' \in [Threads -> 0..MaxRedirects]
    BY BoundsAssumption DEF Return
  <1>7. owner' \in Threads \cup {NoOwner}
    BY DEF Return
  <1>3. code' \in [Threads -> {0} \cup StatusCodes]
    BY DEF Return, FreshFrame
  <1>8. hdr' \in [Threads -> Headers \cup {NoHeaders}]
    BY DEF Return, FreshFrame
  <1>9. payload' \in [Threads -> Nat]
    BY DEF Return, FreshFrame
  <1>10. nchunks' \in [Threads -> 0..MaxChunks]
    BY BoundsAssumption DEF Return, FreshFrame
  <1>11. last' \in [Threads -> ChunkLines \cup {Absent}]
    BY DEF Return, FreshFrame
  <1>12. sent' \in [Threads -> Seq(RequestHeaderNames)]
    BY DEF Return, FreshFrame
  <1>4. FrameInv'
    <2>1. FrameOK(t)'
      BY DEF Return, FrameOK
    <2>2. QED
      BY <2>1, FrameOthers DEF Return, FreshFrame
  <1>5. QED
    BY <1>1, <1>2, <1>3, <1>4, <1>6, <1>7, <1>8, <1>9, <1>10, <1>11, <1>12

(* A step to another statement keeps TypeOK when the frame variables it  *)
(* writes keep their types.                                               *)
LEMMA GotoTypeOK ==
    ASSUME TypeOK, NEW t \in Threads, NEW p \in PCs, Goto(t, p),
           UNCHANGED <<calls, verb, extra, socket>>,
           code' = code \/ code' \in [Threads -> {0} \cup StatusCodes],
           hdr' = hdr \/ hdr' \in [Threads -> Headers \cup {NoHeaders}],
           payload' = payload \/ payload' \in [Threads -> Nat],
           nchunks' = nchunks \/ nchunks' \in [Threads -> 0..MaxChunks],
           last' = last \/ last' \in [Threads -> ChunkLines \cup {Absent}],
           sent' = sent \/ sent' \in [Threads -> Seq(RequestHeaderNames)]
    PROVE  TypeOK'
  BY DEF Goto, TypeOK

(* A step inside request() that only moves to another statement keeps the *)
(* types, unless it enters a body read, whose facts are kept by FrameInv. *)
LEMMA GotoTypeInv ==
    ASSUME TypeInv, NEW t \in Threads, NEW p \in PCs,
           p \notin {"body", "chunkData", "chunkEnd"},
           Goto(t, p), UNCHANGED <<calls, verb, extra, frameVars>>,
           socket' \in Threads \cup {NoSocket}
    PROVE  TypeInv'
  <1>1. TypeOK'
    BY DEF TypeInv, TypeOK, Goto, frameVars
  <1>2. FrameOK(t)'
    BY DEF Goto, FrameOK, TypeInv, TypeOK
  <1>3. \A u \in Threads \ {t} : /\ pc'[u] = pc[u] /\ hdr'[u] = hdr[u]
                                /\ last'[u] = last[u]
                                /\ nchunks'[u] = nchunks[u]
    <2>1. hdr' = hdr /\ last' = last /\ nchunks' = nchunks
      BY DEF frameVars
    <2>2. QED
      BY <2>1 DEF TypeInv, TypeOK, Goto
  <1>4. FrameInv'
    BY <1>2, <1>3, FrameOthers DEF TypeInv
  <1>5. QED
    BY <1>1, <1>4 DEF TypeInv

(* The steps of one thread keep the type invariant: one lemma per step of *)
(* request(), each split along the step's exits.                          *)
LEMMA CallTypeInv ==
    ASSUME TypeInv, NEW t \in Threads, Call(t) PROVE TypeInv'
  <1> USE DEF TypeInv
  <1>1. PICK v \in Verbs, x \in ExtraHeaderChoices : Enter(t, v, x)
    BY DEF Call
  <1>2. /\ pc' \in [Threads -> PCs]
        /\ owner' \in Threads \cup {NoOwner} /\ socket' \in Threads \cup {NoSocket}
    BY <1>1 DEF Call, Enter, TypeOK, PCs
  <1>8. calls' \in [Threads -> 0..MaxCalls]
    <2>1. calls[t] + 1 \in 0..MaxCalls
      <3>1. calls[t] \in 0..MaxCalls /\ calls[t] < MaxCalls
        BY DEF Call, TypeOK
      <3>2. MaxCalls \in Nat
        BY BoundsAssumption
      <3>3. QED
        BY <3>1, <3>2
    <2>2. calls \in [Threads -> 0..MaxCalls]
      BY DEF TypeOK
    <2>3. QED
      BY <2>1, <2>2 DEF Call
  <1>7. /\ verb' \in [Threads -> Verbs]
        /\ extra' \in [Threads -> ExtraHeaderChoices \cup {<<>>}]
        /\ depth' \in [Threads -> 0..MaxRedirects]
        /\ resp' \in [Threads -> Responses \cup {NoResponse}]
    <2>1. verb' \in [Threads -> Verbs]
      BY <1>1 DEF Enter, TypeOK
    <2>2. extra' \in [Threads -> ExtraHeaderChoices \cup {<<>>}]
      BY <1>1 DEF Enter, TypeOK
    <2>3. depth' \in [Threads -> 0..MaxRedirects]
      BY <1>1, BoundsAssumption DEF Enter, TypeOK
    <2>4. resp' \in [Threads -> Responses \cup {NoResponse}]
      BY <1>1 DEF Enter, TypeOK
    <2>5. QED
      BY <2>1, <2>2, <2>3, <2>4
  <1>3. /\ code' \in [Threads -> {0} \cup StatusCodes]
        /\ hdr' \in [Threads -> Headers \cup {NoHeaders}]
        /\ payload' \in [Threads -> Nat]
        /\ nchunks' \in [Threads -> 0..MaxChunks]
        /\ last' \in [Threads -> ChunkLines \cup {Absent}]
        /\ sent' \in [Threads -> Seq(RequestHeaderNames)]
    <2>1. code' \in [Threads -> {0} \cup StatusCodes]
      BY <1>1 DEF Enter, FreshFrame, TypeOK
    <2>2. hdr' \in [Threads -> Headers \cup {NoHeaders}]
      BY <1>1 DEF Enter, FreshFrame, TypeOK
    <2>3. payload' \in [Threads -> Nat]
      BY <1>1 DEF Enter, FreshFrame, TypeOK
    <2>4. nchunks' \in [Threads -> 0..MaxChunks]
      BY <1>1, BoundsAssumption DEF Enter, FreshFrame, TypeOK
    <2>5. last' \in [Threads -> ChunkLines \cup {Absent}]
      BY <1>1 DEF Enter, FreshFrame, TypeOK
    <2>6. sent' \in [Threads -> Seq(RequestHeaderNames)]
      BY <1>1 DEF Enter, FreshFrame, TypeOK
    <2>7. QED
      BY <2>1, <2>2, <2>3, <2>4, <2>5, <2>6
  <1>4. FrameOK(t)'
    BY <1>1 DEF Enter, FrameOK, TypeOK
  <1>5. \A u \in Threads \ {t} : /\ pc'[u] = pc[u] /\ hdr'[u] = hdr[u]
                                /\ last'[u] = last[u]
                                /\ nchunks'[u] = nchunks[u]
    BY <1>1 DEF Enter, FreshFrame
  <1>6. QED
    BY <1>2, <1>3, <1>4, <1>5, <1>7, <1>8, FrameOthers DEF TypeOK

LEMMA LockTypeInv ==
    ASSUME TypeInv, NEW t \in Threads, Lock(t) PROVE TypeInv'
  <1> USE DEF TypeInv
  <1>1. TypeOK'
    BY DEF Lock, TypeOK, frameVars, PCs
  <1>2. \A u \in Threads \ {t} : /\ pc'[u] = pc[u] /\ hdr'[u] = hdr[u]
                                /\ last'[u] = last[u]
                                /\ nchunks'[u] = nchunks[u]
    BY DEF Lock, frameVars, TypeOK
  <1>3. QED
    BY <1>1, <1>2, FrameOthers DEF Lock, FrameOK, frameVars

LEMMA ParseUrlTypeInv ==
    ASSUME TypeInv, NEW t \in Threads, ParseUrl(t) PROVE TypeInv'
<1>1. CASE Goto(t, "create") /\ UNCHANGED frameVars
  <2>1. UNCHANGED <<calls, verb, extra, frameVars>> /\ socket' \in Threads \cup {NoSocket}
    BY <1>1 DEF ParseUrl, TypeInv, TypeOK, frameVars
  <2>2. "create" \in PCs \ {"body", "chunkData", "chunkEnd"}
    BY DEF PCs
  <2>3. QED
    BY <1>1, <2>1, <2>2, GotoTypeInv
<1>2. CASE Return(t, "UrlMalformed", 0)
  <2>1. UNCHANGED <<calls, verb, extra>> /\ socket' \in Threads \cup {NoSocket}
    BY <1>2 DEF ParseUrl, TypeInv, TypeOK
  <2>2. "UrlMalformed" \in Outcomes
    BY DEF Outcomes, ErrorCodes
  <2>3. QED
    BY <1>2, <2>1, <2>2, ReturnTypeInv
  <1>3. QED
    BY <1>1, <1>2 DEF ParseUrl

LEMMA CreateSocketTypeInv ==
    ASSUME TypeInv, NEW t \in Threads, CreateSocket(t) PROVE TypeInv'
<1>1. CASE Goto(t, "connect") /\ UNCHANGED frameVars /\ socket' = t
  <2>1. UNCHANGED <<calls, verb, extra, frameVars>> /\ socket' \in Threads \cup {NoSocket}
    BY <1>1 DEF CreateSocket, TypeInv, TypeOK, frameVars
  <2>2. "connect" \in PCs \ {"body", "chunkData", "chunkEnd"}
    BY DEF PCs
  <2>3. QED
    BY <1>1, <2>1, <2>2, GotoTypeInv
<1>2. CASE Return(t, "CannotCreateSocket", 0) /\ socket' = NoSocket
  <2>1. UNCHANGED <<calls, verb, extra>> /\ socket' \in Threads \cup {NoSocket}
    BY <1>2 DEF CreateSocket, TypeInv, TypeOK
  <2>2. "CannotCreateSocket" \in Outcomes
    BY DEF Outcomes, ErrorCodes
  <2>3. QED
    BY <1>2, <2>1, <2>2, ReturnTypeInv
  <1>3. QED
    BY <1>1, <1>2 DEF CreateSocket

LEMMA ConnectTypeInv ==
    ASSUME TypeInv, NEW t \in Threads, Connect(t) PROVE TypeInv'
<1>1. CASE Goto(t, "write") /\ UNCHANGED frameVars
  <2>1. UNCHANGED <<calls, verb, extra, frameVars>> /\ socket' \in Threads \cup {NoSocket}
    BY <1>1 DEF Connect, TypeInv, TypeOK, frameVars
  <2>2. "write" \in PCs \ {"body", "chunkData", "chunkEnd"}
    BY DEF PCs
  <2>3. QED
    BY <1>1, <2>1, <2>2, GotoTypeInv
<1>2. CASE Return(t, "CannotConnect", 0)
  <2>1. UNCHANGED <<calls, verb, extra>> /\ socket' \in Threads \cup {NoSocket}
    BY <1>2 DEF Connect, TypeInv, TypeOK
  <2>2. "CannotConnect" \in Outcomes
    BY DEF Outcomes, ErrorCodes
  <2>3. QED
    BY <1>2, <2>1, <2>2, ReturnTypeInv
  <1>3. QED
    BY <1>1, <1>2 DEF Connect

LEMMA WriteTypeInv ==
    ASSUME TypeInv, NEW t \in Threads, Write(t) PROVE TypeInv'
<1>1. CASE /\ sent' = [sent EXCEPT ![t] = BuildRequest(verb[t], extra[t], hdr[t])]
             /\ Goto(t, "status")
             /\ UNCHANGED <<code, hdr, payload, nchunks, last>>
  <2>0. extra[t] \in Seq(ExtraHeaderNames)
    BY ArgsAssumption, EmptySeq DEF TypeInv, TypeOK
  <2>1. TypeOK'
    BY <1>1, <2>0, BuildRequestType DEF Write, Goto, TypeInv, TypeOK, PCs
  <2>2. FrameOK(t)'
    BY <1>1 DEF Goto, FrameOK, TypeInv, TypeOK
  <2>3. \A u \in Threads \ {t} : /\ pc'[u] = pc[u] /\ hdr'[u] = hdr[u]
                                  /\ last'[u] = last[u]
                                  /\ nchunks'[u] = nchunks[u]
    BY <1>1 DEF Goto, TypeInv, TypeOK
  <2>4. QED
    BY <2>1, <2>2, <2>3, FrameOthers DEF TypeInv
<1>2. CASE Return(t, "SendError", 0)
  <2>1. UNCHANGED <<calls, verb, extra>> /\ socket' \in Threads \cup {NoSocket}
    BY <1>2 DEF Write, TypeInv, TypeOK
  <2>2. "SendError" \in Outcomes
    BY DEF Outcomes, ErrorCodes
  <2>3. QED
    BY <1>2, <2>1, <2>2, ReturnTypeInv
  <1>3. QED
    BY <1>1, <1>2 DEF Write

LEMMA ReadStatusTypeInv ==
    ASSUME TypeInv, NEW t \in Threads, ReadStatus(t) PROVE TypeInv'
<1>1. CASE /\ \E c \in StatusCodes : code' = [code EXCEPT ![t] = c]
             /\ Goto(t, "headers")
             /\ UNCHANGED <<hdr, payload, nchunks, last, sent>>
  <2>1. TypeOK'
    <3>1. code' \in [Threads -> {0} \cup StatusCodes]
      BY <1>1 DEF TypeInv, TypeOK
    <3>2. UNCHANGED <<calls, verb, extra, socket>>
      BY DEF ReadStatus
    <3>3. "headers" \in PCs
      BY DEF PCs
    <3>4. QED
      BY <1>1, <3>1, <3>2, <3>3, GotoTypeOK DEF TypeInv
  <2>2. FrameOK(t)'
    BY <1>1 DEF Goto, FrameOK, TypeInv, TypeOK
  <2>3. \A u \in Threads \ {t} : /\ pc'[u] = pc[u] /\ hdr'[u] = hdr[u]
                                  /\ last'[u] = last[u]
                                  /\ nchunks'[u] = nchunks[u]
    BY <1>1 DEF Goto, TypeInv, TypeOK
  <2>4. QED
    BY <2>1, <2>2, <2>3, FrameOthers DEF TypeInv
<1>2. CASE Return(t, "CannotReadStatusLine", 0)
  <2>1. UNCHANGED <<calls, verb, extra>> /\ socket' \in Threads \cup {NoSocket}
    BY <1>2 DEF ReadStatus, TypeInv, TypeOK
  <2>2. "CannotReadStatusLine" \in Outcomes
    BY DEF Outcomes, ErrorCodes
  <2>3. QED
    BY <1>2, <2>1, <2>2, ReturnTypeInv
<1>3. CASE Return(t, "MissingStatus", 0)
  <2>1. UNCHANGED <<calls, verb, extra>> /\ socket' \in Threads \cup {NoSocket}
    BY <1>3 DEF ReadStatus, TypeInv, TypeOK
  <2>2. "MissingStatus" \in Outcomes
    BY DEF Outcomes, ErrorCodes
  <2>3. QED
    BY <1>3, <2>1, <2>2, ReturnTypeInv
  <1>4. QED
    BY <1>1, <1>2, <1>3 DEF ReadStatus

LEMMA ReadHeadersTypeInv ==
    ASSUME TypeInv, NEW t \in Threads, ReadHeaders(t) PROVE TypeInv'
<1>1. CASE /\ \E h \in Headers : hdr' = [hdr EXCEPT ![t] = h]
             /\ Goto(t, "frame")
             /\ UNCHANGED <<code, payload, nchunks, last, sent>>
  <2>1. TypeOK'
    <3>1. pc' \in [Threads -> PCs] /\ UNCHANGED <<resp, owner, depth>>
      BY <1>1 DEF Goto, TypeInv, TypeOK, PCs
    <3>2. hdr' \in [Threads -> Headers \cup {NoHeaders}]
      BY <1>1 DEF TypeInv, TypeOK
    <3>3. UNCHANGED <<calls, verb, extra, socket>>
      BY DEF ReadHeaders
    <3>4. QED
      BY <1>1, <3>1, <3>2, <3>3 DEF TypeInv, TypeOK
  <2>2. FrameOK(t)'
    BY <1>1 DEF Goto, FrameOK, TypeInv, TypeOK
  <2>3. \A u \in Threads \ {t} : /\ pc'[u] = pc[u] /\ hdr'[u] = hdr[u]
                                  /\ last'[u] = last[u]
                                  /\ nchunks'[u] = nchunks[u]
    BY <1>1 DEF Goto, TypeInv, TypeOK
  <2>4. QED
    BY <2>1, <2>2, <2>3, FrameOthers DEF TypeInv
<1>2. CASE Return(t, "HeaderParsingError", 0)
  <2>1. UNCHANGED <<calls, verb, extra>> /\ socket' \in Threads \cup {NoSocket}
    BY <1>2 DEF ReadHeaders, TypeInv, TypeOK
  <2>2. "HeaderParsingError" \in Outcomes
    BY DEF Outcomes, ErrorCodes
  <2>3. QED
    BY <1>2, <2>1, <2>2, ReturnTypeInv
  <1>3. QED
    BY <1>1, <1>2 DEF ReadHeaders

LEMMA FinishTypeInv ==
    ASSUME TypeInv, NEW t \in Threads, Finish(t) PROVE TypeInv'
<1>1. CASE Return(t, "Ok", payload[t])
  <2>1. UNCHANGED <<calls, verb, extra>> /\ socket' \in Threads \cup {NoSocket}
    BY <1>1 DEF Finish, TypeInv, TypeOK
  <2>2. "Ok" \in Outcomes /\ payload[t] \in Nat
    BY DEF Outcomes, ErrorCodes, TypeInv, TypeOK
  <2>3. QED
    BY <1>1, <2>1, <2>2, ReturnTypeInv
<1>2. CASE Return(t, "Gzip", payload[t])
  <2>1. UNCHANGED <<calls, verb, extra>> /\ socket' \in Threads \cup {NoSocket}
    BY <1>2 DEF Finish, TypeInv, TypeOK
  <2>2. "Gzip" \in Outcomes /\ payload[t] \in Nat
    BY DEF Outcomes, ErrorCodes, TypeInv, TypeOK
  <2>3. QED
    BY <1>2, <2>1, <2>2, ReturnTypeInv
  <1>3. QED
    BY <1>1, <1>2 DEF Finish

LEMMA RedirectTypeInv ==
    ASSUME TypeInv, NEW t \in Threads, Redirect(t) PROVE TypeInv'
<1>1. CASE Return(t, "MissingLocation", 0)
  <2>1. UNCHANGED <<calls, verb, extra>> /\ socket' \in Threads \cup {NoSocket}
    BY <1>1 DEF Redirect, TypeInv, TypeOK
  <2>2. "MissingLocation" \in Outcomes
    BY DEF Outcomes, ErrorCodes
  <2>3. QED
    BY <1>1, <2>1, <2>2, ReturnTypeInv
<1>2. CASE Return(t, "TooManyRedirects", 0)
  <2>1. UNCHANGED <<calls, verb, extra>> /\ socket' \in Threads \cup {NoSocket}
    BY <1>2 DEF Redirect, TypeInv, TypeOK
  <2>2. "TooManyRedirects" \in Outcomes
    BY DEF Outcomes, ErrorCodes
  <2>3. QED
    BY <1>2, <2>1, <2>2, ReturnTypeInv
  <1>3. CASE /\ depth[t] < MaxRedirects
             /\ pc' = [pc EXCEPT ![t] = "lock"]
             /\ depth' = [depth EXCEPT ![t] = @ + 1]
             /\ FreshFrame(t)
             /\ UNCHANGED <<resp, owner>>
    <2>1. depth' \in [Threads -> 0..MaxRedirects]
      <3>0. depth[t] \in 0..MaxRedirects
        BY DEF TypeInv, TypeOK
      <3>1. depth[t] + 1 \in 0..MaxRedirects
        BY <1>3, <3>0, BoundsAssumption
      <3>2. QED
        BY <1>3, <3>1 DEF TypeInv, TypeOK
    <2>2. /\ pc' \in [Threads -> PCs]
          /\ UNCHANGED <<calls, verb, extra, resp, owner, socket>>
      BY <1>3 DEF Redirect, TypeInv, TypeOK, PCs
    <2>3. /\ code' \in [Threads -> {0} \cup StatusCodes]
          /\ hdr' \in [Threads -> Headers \cup {NoHeaders}]
          /\ payload' \in [Threads -> Nat]
      BY <1>3 DEF FreshFrame, TypeInv, TypeOK
    <2>4. /\ nchunks' \in [Threads -> 0..MaxChunks]
          /\ last' \in [Threads -> ChunkLines \cup {Absent}]
          /\ sent' \in [Threads -> Seq(RequestHeaderNames)]
      <3>1. nchunks' \in [Threads -> 0..MaxChunks]
        BY <1>3, BoundsAssumption DEF FreshFrame, TypeInv, TypeOK
      <3>2. last' \in [Threads -> ChunkLines \cup {Absent}]
        BY <1>3 DEF FreshFrame, TypeInv, TypeOK
      <3>3. sent' \in [Threads -> Seq(RequestHeaderNames)]
        BY <1>3 DEF FreshFrame, TypeInv, TypeOK
      <3>4. QED
        BY <3>1, <3>2, <3>3
    <2>5. TypeOK'
      BY <2>1, <2>2, <2>3, <2>4 DEF TypeInv, TypeOK
    <2>6. FrameOK(t)'
      BY <1>3 DEF FrameOK, TypeInv, TypeOK
    <2>7. \A u \in Threads \ {t} : /\ pc'[u] = pc[u] /\ hdr'[u] = hdr[u]
                                  /\ last'[u] = last[u]
                                  /\ nchunks'[u] = nchunks[u]
      BY <1>3 DEF FreshFrame, TypeInv, TypeOK
    <2>8. QED
      BY <2>5, <2>6, <2>7, FrameOthers DEF TypeInv
  <1>4. QED
    BY <1>1, <1>2, <1>3 DEF Redirect

LEMMA SelectBodyTypeInv ==
    ASSUME TypeInv, NEW t \in Threads, SelectBody(t) PROVE TypeInv'
<1>1. CASE Return(t, "Ok", 0)
  <2>1. UNCHANGED <<calls, verb, extra>> /\ socket' \in Threads \cup {NoSocket}
    BY <1>1 DEF SelectBody, TypeInv, TypeOK
  <2>2. "Ok" \in Outcomes
    BY DEF Outcomes, ErrorCodes
  <2>3. QED
    BY <1>1, <2>1, <2>2, ReturnTypeInv
<1>2. CASE Goto(t, "body") /\ UNCHANGED frameVars /\ hdr[t].length \notin {Absent, Negative}
  <2>1. UNCHANGED <<calls, verb, extra, frameVars>> /\ socket' \in Threads \cup {NoSocket}
    BY <1>2 DEF SelectBody, TypeInv, TypeOK, frameVars
  <2>2. TypeOK'
    BY <1>2, <2>1 DEF Goto, TypeInv, TypeOK, PCs, frameVars
  <2>3. hdr[t].length \in (0..MaxBody) \cup {Junk}
    <3>1. hdr[t] \in Headers
      BY <1>2 DEF TypeInv, TypeOK, NoHeaders
    <3>2. hdr[t].length \in LengthValues
      BY <3>1, SpecialsAssumption DEF Headers
    <3>3. QED
      BY <1>2, <3>2 DEF LengthValues
  <2>4. FrameOK(t)'
    BY <1>2, <2>1, <2>3 DEF Goto, FrameOK, TypeInv, TypeOK, frameVars
  <2>5. \A u \in Threads \ {t} : /\ pc'[u] = pc[u] /\ hdr'[u] = hdr[u]
                                /\ last'[u] = last[u]
                                /\ nchunks'[u] = nchunks[u]
    BY <1>2, <2>1 DEF Goto, TypeInv, TypeOK, frameVars
  <2>6. QED
    BY <2>2, <2>4, <2>5, FrameOthers DEF TypeInv
<1>3. CASE Return(t, "Exception", 0)
  <2>1. UNCHANGED <<calls, verb, extra>> /\ socket' \in Threads \cup {NoSocket}
    BY <1>3 DEF SelectBody, TypeInv, TypeOK
  <2>2. "Exception" \in Outcomes
    BY DEF Outcomes
  <2>3. QED
    BY <1>3, <2>1, <2>2, ReturnTypeInv
<1>4. CASE Goto(t, "chunkSize") /\ UNCHANGED frameVars
  <2>1. UNCHANGED <<calls, verb, extra, frameVars>> /\ socket' \in Threads \cup {NoSocket}
    BY <1>4 DEF SelectBody, TypeInv, TypeOK, frameVars
  <2>2. "chunkSize" \in PCs \ {"body", "chunkData", "chunkEnd"}
    BY DEF PCs
  <2>3. QED
    BY <1>4, <2>1, <2>2, GotoTypeInv
<1>5. CASE Goto(t, "gzip") /\ UNCHANGED frameVars
  <2>1. UNCHANGED <<calls, verb, extra, frameVars>> /\ socket' \in Threads \cup {NoSocket}
    BY <1>5 DEF SelectBody, TypeInv, TypeOK, frameVars
  <2>2. "gzip" \in PCs \ {"body", "chunkData", "chunkEnd"}
    BY DEF PCs
  <2>3. QED
    BY <1>5, <2>1, <2>2, GotoTypeInv
<1>6. CASE Return(t, "CannotReadBody", 0)
  <2>1. UNCHANGED <<calls, verb, extra>> /\ socket' \in Threads \cup {NoSocket}
    BY <1>6 DEF SelectBody, TypeInv, TypeOK
  <2>2. "CannotReadBody" \in Outcomes
    BY DEF Outcomes, ErrorCodes
  <2>3. QED
    BY <1>6, <2>1, <2>2, ReturnTypeInv
  <1>7. QED
    BY <1>1, <1>2, <1>3, <1>4, <1>5, <1>6 DEF SelectBody

LEMMA ReadBodyTypeInv ==
    ASSUME TypeInv, NEW t \in Threads, ReadBody(t) PROVE TypeInv'
<1>1. CASE /\ payload' = [payload EXCEPT ![t] = @ + ParsedLength(hdr[t].length)]
             /\ Goto(t, "gzip")
             /\ UNCHANGED <<code, hdr, nchunks, last, sent>>
  <2>0. ParsedLength(hdr[t].length) \in Nat
    <3>1. hdr[t].length \in (0..MaxBody) \cup {Junk}
      BY DEF ReadBody, TypeInv, FrameInv, FrameOK
    <3>2. QED
      BY <3>1 DEF ParsedLength
  <2>5. payload' \in [Threads -> Nat]
    <3>1. payload \in [Threads -> Nat]
      BY DEF TypeInv, TypeOK
    <3>2. QED
      BY <1>1, <2>0, <3>1
  <2>1. TypeOK'
    <3>1. UNCHANGED <<calls, verb, extra, socket>>
      BY DEF ReadBody
    <3>2. "gzip" \in PCs
      BY DEF PCs
    <3>3. QED
      BY <1>1, <2>5, <3>1, <3>2, GotoTypeOK DEF TypeInv
  <2>2. FrameOK(t)'
    BY <1>1 DEF Goto, FrameOK, TypeInv, TypeOK
  <2>3. \A u \in Threads \ {t} : /\ pc'[u] = pc[u] /\ hdr'[u] = hdr[u]
                                  /\ last'[u] = last[u]
                                  /\ nchunks'[u] = nchunks[u]
    BY <1>1 DEF Goto, TypeInv, TypeOK
  <2>4. QED
    BY <2>1, <2>2, <2>3, FrameOthers DEF TypeInv
<1>2. CASE Return(t, "ChunkReadError", 0)
  <2>1. UNCHANGED <<calls, verb, extra>> /\ socket' \in Threads \cup {NoSocket}
    BY <1>2 DEF ReadBody, TypeInv, TypeOK
  <2>2. "ChunkReadError" \in Outcomes
    BY DEF Outcomes, ErrorCodes
  <2>3. QED
    BY <1>2, <2>1, <2>2, ReturnTypeInv
  <1>3. QED
    BY <1>1, <1>2 DEF ReadBody

LEMMA ChunkSizeTypeInv ==
    ASSUME TypeInv, NEW t \in Threads, ChunkSize(t) PROVE TypeInv'
  <1>1. CASE \E l \in ChunkLines :
               /\ nchunks[t] < MaxChunks \/ ParseHex(l) = 0
               /\ IF ReserveThrows(payload[t], ParseHex(l))
                  THEN Return(t, "Exception", 0)
                  ELSE /\ last' = [last EXCEPT ![t] = l]
                       /\ Goto(t, "chunkData")
                       /\ UNCHANGED <<code, hdr, payload, nchunks, sent>>
    <2>1. PICK l \in ChunkLines :
               /\ nchunks[t] < MaxChunks \/ ParseHex(l) = 0
               /\ IF ReserveThrows(payload[t], ParseHex(l))
                  THEN Return(t, "Exception", 0)
                  ELSE /\ last' = [last EXCEPT ![t] = l]
                       /\ Goto(t, "chunkData")
                       /\ UNCHANGED <<code, hdr, payload, nchunks, sent>>
      BY <1>1
    <2>2. CASE ReserveThrows(payload[t], ParseHex(l))
      <3>1. Return(t, "Exception", 0)
        BY <2>1, <2>2
      <3>2. UNCHANGED <<calls, verb, extra>> /\ socket' \in Threads \cup {NoSocket}
        BY DEF ChunkSize, TypeInv, TypeOK
      <3>3. QED
        BY <3>1, <3>2, ReturnTypeInv DEF Outcomes
    <2>3. CASE ~ReserveThrows(payload[t], ParseHex(l))
      <3>0. /\ last' = [last EXCEPT ![t] = l]
            /\ Goto(t, "chunkData")
            /\ UNCHANGED <<code, hdr, payload, nchunks, sent>>
        BY <2>1, <2>3
      <3>1. TypeOK'
        BY <3>0 DEF ChunkSize, Goto, TypeInv, TypeOK, PCs
      <3>2. FrameOK(t)'
        BY <2>1, <3>0 DEF Goto, FrameOK, TypeInv, TypeOK
      <3>3. \A u \in Threads \ {t} : /\ pc'[u] = pc[u] /\ hdr'[u] = hdr[u]
                                    /\ last'[u] = last[u]
                                    /\ nchunks'[u] = nchunks[u]
        BY <3>0 DEF Goto, TypeInv, TypeOK
      <3>4. QED
        BY <3>1, <3>2, <3>3, FrameOthers DEF TypeInv
    <2>4. QED
      BY <2>2, <2>3
<1>2. CASE Return(t, "ChunkReadError", 0)
  <2>1. UNCHANGED <<calls, verb, extra>> /\ socket' \in Threads \cup {NoSocket}
    BY <1>2 DEF ChunkSize, TypeInv, TypeOK
  <2>2. "ChunkReadError" \in Outcomes
    BY DEF Outcomes, ErrorCodes
  <2>3. QED
    BY <1>2, <2>1, <2>2, ReturnTypeInv
  <1>3. QED
    BY <1>1, <1>2 DEF ChunkSize

LEMMA ChunkDataTypeInv ==
    ASSUME TypeInv, NEW t \in Threads, ChunkData(t) PROVE TypeInv'
<1>1. CASE /\ ParseHex(last[t]) # Huge
             /\ payload' = [payload EXCEPT ![t] = @ + ParseHex(last[t])]
             /\ Goto(t, "chunkEnd")
             /\ UNCHANGED <<code, hdr, nchunks, last, sent>>
  <2>0. ParseHex(last[t]) \in Nat
    <3>1. last[t] \in ChunkLines
      BY DEF ChunkData, TypeInv, FrameInv, FrameOK
    <3>2. QED
      BY <1>1, <3>1, SpecialsAssumption DEF ParseHex, ChunkLines
  <2>5. payload' \in [Threads -> Nat]
    <3>1. payload \in [Threads -> Nat]
      BY DEF TypeInv, TypeOK
    <3>2. QED
      BY <1>1, <2>0, <3>1
  <2>1. TypeOK'
    <3>1. UNCHANGED <<calls, verb, extra, socket>>
      BY DEF ChunkData
    <3>2. "chunkEnd" \in PCs
      BY DEF PCs
    <3>3. QED
      BY <1>1, <2>5, <3>1, <3>2, GotoTypeOK DEF TypeInv
  <2>2. FrameOK(t)'
    BY <1>1, SpecialsAssumption DEF ChunkData, Goto, FrameOK, TypeInv, FrameInv, TypeOK, ParseHex
  <2>3. \A u \in Threads \ {t} : /\ pc'[u] = pc[u] /\ hdr'[u] = hdr[u]
                                  /\ last'[u] = last[u]
                                  /\ nchunks'[u] = nchunks[u]
    BY <1>1 DEF Goto, TypeInv, TypeOK
  <2>4. QED
    BY <2>1, <2>2, <2>3, FrameOthers DEF TypeInv
<1>2. CASE Return(t, "ChunkReadError", 0)
  <2>1. UNCHANGED <<calls, verb, extra>> /\ socket' \in Threads \cup {NoSocket}
    BY <1>2 DEF ChunkData, TypeInv, TypeOK
  <2>2. "ChunkReadError" \in Outcomes
    BY DEF Outcomes, ErrorCodes
  <2>3. QED
    BY <1>2, <2>1, <2>2, ReturnTypeInv
  <1>3. QED
    BY <1>1, <1>2 DEF ChunkData

LEMMA ChunkEndTypeInv ==
    ASSUME TypeInv, NEW t \in Threads, ChunkEnd(t) PROVE TypeInv'
<1>1. CASE Goto(t, "gzip") /\ UNCHANGED frameVars /\ ParseHex(last[t]) = 0
  <2>1. UNCHANGED <<calls, verb, extra, frameVars>> /\ socket' \in Threads \cup {NoSocket}
    BY <1>1 DEF ChunkEnd, TypeInv, TypeOK, frameVars
  <2>2. "gzip" \in PCs \ {"body", "chunkData", "chunkEnd"}
    BY DEF PCs
  <2>3. QED
    BY <1>1, <2>1, <2>2, GotoTypeInv
<1>2. CASE /\ ParseHex(last[t]) # 0
             /\ nchunks' = [nchunks EXCEPT ![t] = @ + 1]
             /\ Goto(t, "chunkSize")
             /\ UNCHANGED <<code, hdr, payload, last, sent>>
  <2>0. nchunks[t] + 1 \in 0..MaxChunks
    <3>1. nchunks[t] \in 0..MaxChunks
      BY DEF TypeInv, TypeOK
    <3>2. nchunks[t] < MaxChunks
      BY <1>2 DEF ChunkEnd, TypeInv, FrameInv, FrameOK
    <3>3. MaxChunks \in Nat
      BY BoundsAssumption
    <3>4. QED
      BY <3>1, <3>2, <3>3
  <2>5. nchunks' \in [Threads -> 0..MaxChunks]
    BY <1>2, <2>0 DEF TypeInv, TypeOK
  <2>1. TypeOK'
    BY <1>2, <2>5 DEF ChunkEnd, Goto, TypeInv, TypeOK, PCs
  <2>2. FrameOK(t)'
    BY <1>2 DEF Goto, FrameOK, TypeInv, TypeOK
  <2>3. \A u \in Threads \ {t} : /\ pc'[u] = pc[u] /\ hdr'[u] = hdr[u]
                                  /\ last'[u] = last[u]
                                  /\ nchunks'[u] = nchunks[u]
    BY <1>2 DEF Goto, TypeInv, TypeOK
  <2>4. QED
    BY <2>1, <2>2, <2>3, FrameOthers DEF TypeInv
<1>3. CASE Return(t, "ChunkReadError", 0)
  <2>1. UNCHANGED <<calls, verb, extra>> /\ socket' \in Threads \cup {NoSocket}
    BY <1>3 DEF ChunkEnd, TypeInv, TypeOK
  <2>2. "ChunkReadError" \in Outcomes
    BY DEF Outcomes, ErrorCodes
  <2>3. QED
    BY <1>3, <2>1, <2>2, ReturnTypeInv
  <1>4. QED
    BY <1>1, <1>2, <1>3 DEF ChunkEnd

(* Every step keeps the type invariant.                                   *)
LEMMA NextTypeInv == TypeInv /\ [Next]_reqVars => TypeInv'
  <1> SUFFICES ASSUME TypeInv, [Next]_reqVars PROVE TypeInv'
    OBVIOUS
  <1>1. ASSUME NEW t \in Threads, Call(t) \/ RequestStep(t) PROVE TypeInv'
    BY <1>1, CallTypeInv, LockTypeInv, ParseUrlTypeInv, CreateSocketTypeInv,
       ConnectTypeInv, WriteTypeInv, ReadStatusTypeInv, ReadHeadersTypeInv,
       RedirectTypeInv, SelectBodyTypeInv, ReadBodyTypeInv, ChunkSizeTypeInv,
       ChunkDataTypeInv, ChunkEndTypeInv, FinishTypeInv
    DEF RequestStep
  <1>2. CASE UNCHANGED reqVars
    BY <1>2 DEF reqVars, TypeInv, TypeOK, FrameInv, FrameOK
  <1>3. QED
    BY <1>1, <1>2 DEF Next, Finished

(* The type invariant holds in every reachable state: request() only      *)
(* ever stores values of the types its locals and fields are declared with, *)
(* and every length it adds to the payload is a number.                    *)
THEOREM TypeCorrect == Spec => []TypeOK
  <1>1. Init => TypeInv
    BY InitTypeInv
  <1>2. TypeInv /\ [Next]_reqVars => TypeInv'
    BY NextTypeInv
  <1>3. TypeInv => TypeOK
    BY DEF TypeInv
  <1>4. QED
    BY <1>1, <1>2, <1>3, PTL DEF Spec

-----------------------------------------------------------------------------
(* Mutual exclusion on _mutex and _socket.  LockInv alone is inductive     *)
(* given the types; SocketInv needs LockInv, because the one step that    *)
(* writes _socket, createSocket, runs under _mutex.                        *)
ExclInv == LockInv /\ SocketInv

(* A return statement releases _mutex; only its own thread held it.      *)
LEMMA ReturnExcl ==
    ASSUME TypeOK, ExclInv, NEW t \in Threads, NEW e, NEW d,
           pc[t] \in Locked, Return(t, e, d), socket' \in {socket, NoSocket}
    PROVE  ExclInv'
  BY ThreadsAssumption
  DEF Return, ExclInv, LockInv, SocketInv, TypeOK, Locked, SocketHeld, PCs

(* A step from one statement under _mutex to another, which may assign   *)
(* _socket to the stepping thread: no other thread is past the lock.     *)
LEMMA GotoLockedExcl ==
    ASSUME TypeOK, ExclInv, NEW t \in Threads, NEW p \in Locked,
           pc[t] \in Locked, Goto(t, p), socket' \in {socket, t},
           p \in SocketHeld /\ pc[t] \notin SocketHeld => socket' = t
    PROVE  ExclInv'
  <1>1. \A u \in Threads \ {t} : pc[u] \notin Locked
    BY DEF ExclInv, LockInv
  <1>2. LockInv'
    BY <1>1 DEF Goto, LockInv, ExclInv, TypeOK
  <1>3. SocketInv'
    BY <1>1 DEF Goto, SocketInv, ExclInv, TypeOK, SocketHeld
  <1>4. QED
    BY <1>2, <1>3 DEF ExclInv

(* A step from one statement under _mutex to another past createSocket.  *)
LEMMA GotoExcl ==
    ASSUME TypeOK, ExclInv, NEW t \in Threads, NEW p \in SocketHeld,
           pc[t] \in SocketHeld, Goto(t, p), UNCHANGED socket
    PROVE  ExclInv'
  BY DEF Goto, ExclInv, LockInv, SocketInv, TypeOK, Locked, SocketHeld, PCs

LEMMA CallExclInv ==
    ASSUME TypeOK, ExclInv, NEW t \in Threads, Call(t) PROVE ExclInv'
  <1>1. pc' = [pc EXCEPT ![t] = "lock"] /\ UNCHANGED <<owner, socket>>
    BY DEF Call, Enter
  <1>2. LockInv'
    BY <1>1 DEF ExclInv, LockInv, TypeOK, Locked
  <1>3. SocketInv'
    BY <1>1 DEF ExclInv, SocketInv, TypeOK, SocketHeld, Locked
  <1>4. QED
    BY <1>2, <1>3 DEF ExclInv

LEMMA LockExclInv ==
    ASSUME TypeOK, ExclInv, NEW t \in Threads, Lock(t) PROVE ExclInv'
  <1>1. /\ owner = NoOwner /\ owner' = t
        /\ pc' = [pc EXCEPT ![t] = "parse"] /\ UNCHANGED socket
    BY DEF Lock
  <1>2. \A u \in Threads : pc[u] \notin Locked
    BY <1>1, ThreadsAssumption DEF ExclInv, LockInv
  <1>3. LockInv'
    BY <1>1, <1>2 DEF LockInv, TypeOK
  <1>4. SocketInv'
    BY <1>1, <1>2 DEF SocketInv, TypeOK, SocketHeld, Locked
  <1>5. QED
    BY <1>3, <1>4 DEF ExclInv

LEMMA ParseUrlExclInv ==
    ASSUME TypeOK, ExclInv, NEW t \in Threads, ParseUrl(t) PROVE ExclInv'
  <1>0. pc[t] = "parse" /\ pc[t] \in Locked
    BY DEF ParseUrl, Locked, PCs
  <1>1. CASE Goto(t, "create") /\ UNCHANGED socket
    BY <1>0, <1>1, GotoLockedExcl DEF ParseUrl, Locked, SocketHeld, PCs
  <1>2. CASE Return(t, "UrlMalformed", 0)
    BY <1>0, <1>2, ReturnExcl DEF ParseUrl
  <1>3. QED
    BY <1>1, <1>2 DEF ParseUrl

LEMMA CreateSocketExclInv ==
    ASSUME TypeOK, ExclInv, NEW t \in Threads, CreateSocket(t) PROVE ExclInv'
  <1>0. pc[t] = "create" /\ pc[t] \in Locked
    BY DEF CreateSocket, Locked, PCs
  <1>1. CASE socket' = t /\ Goto(t, "connect")
    BY <1>0, <1>1, GotoLockedExcl DEF Locked, PCs
  <1>2. CASE socket' = NoSocket /\ Return(t, "CannotCreateSocket", 0)
    BY <1>0, <1>2, ReturnExcl
  <1>3. QED
    BY <1>1, <1>2 DEF CreateSocket

LEMMA ConnectExclInv ==
    ASSUME TypeOK, ExclInv, NEW t \in Threads, Connect(t) PROVE ExclInv'
  <1>0. pc[t] = "connect" /\ pc[t] \in Locked
    BY DEF Connect, Locked, PCs
  <1>1. CASE Goto(t, "write")
    BY <1>0, <1>1, GotoExcl DEF Connect, SocketHeld, Locked, PCs
  <1>2. CASE Return(t, "CannotConnect", 0)
    BY <1>0, <1>2, ReturnExcl DEF Connect
  <1>3. QED
    BY <1>1, <1>2 DEF Connect

LEMMA WriteExclInv ==
    ASSUME TypeOK, ExclInv, NEW t \in Threads, Write(t) PROVE ExclInv'
  <1>0. pc[t] = "write" /\ pc[t] \in Locked
    BY DEF Write, Locked, PCs
  <1>1. CASE Goto(t, "status")
    BY <1>0, <1>1, GotoExcl DEF Write, SocketHeld, Locked, PCs
  <1>2. CASE Return(t, "SendError", 0)
    BY <1>0, <1>2, ReturnExcl DEF Write
  <1>3. QED
    BY <1>1, <1>2 DEF Write

LEMMA ReadStatusExclInv ==
    ASSUME TypeOK, ExclInv, NEW t \in Threads, ReadStatus(t) PROVE ExclInv'
  <1>0. pc[t] = "status" /\ pc[t] \in Locked
    BY DEF ReadStatus, Locked, PCs
  <1>1. CASE Goto(t, "headers")
    BY <1>0, <1>1, GotoExcl DEF ReadStatus, SocketHeld, Locked, PCs
  <1>2. CASE Return(t, "CannotReadStatusLine", 0) \/ Return(t, "MissingStatus", 0)
    BY <1>0, <1>2, ReturnExcl DEF ReadStatus
  <1>3. QED
    BY <1>1, <1>2 DEF ReadStatus

LEMMA ReadHeadersExclInv ==
    ASSUME TypeOK, ExclInv, NEW t \in Threads, ReadHeaders(t) PROVE ExclInv'
  <1>0. pc[t] \in SocketHeld /\ "frame" \in SocketHeld /\ UNCHANGED socket
    BY DEF ReadHeaders, SocketHeld, Locked, PCs
  <1>1. CASE Goto(t, "frame")
    BY <1>0, <1>1, GotoExcl
  <1>2. CASE Return(t, "HeaderParsingError", 0)
    BY <1>0, <1>2, ReturnExcl DEF SocketHeld
  <1>3. QED
    BY <1>1, <1>2 DEF ReadHeaders

LEMMA RedirectExclInv ==
    ASSUME TypeOK, ExclInv, NEW t \in Threads, Redirect(t) PROVE ExclInv'
  <1>0. pc[t] = "frame" /\ pc[t] \in Locked /\ UNCHANGED socket
    BY DEF Redirect, Locked, PCs
  <1>1. CASE Return(t, "MissingLocation", 0) \/ Return(t, "TooManyRedirects", 0)
    BY <1>0, <1>1, ReturnExcl
  <1>2. CASE pc' = [pc EXCEPT ![t] = "lock"] /\ UNCHANGED owner
    <2>1. \A u \in Threads \ {t} : pc[u] \notin Locked
      BY <1>0 DEF ExclInv, LockInv
    <2>2. LockInv'
      BY <1>2, <2>1 DEF LockInv, TypeOK, Locked
    <2>3. SocketInv'
      BY <1>0, <1>2, <2>1 DEF SocketInv, TypeOK, SocketHeld, Locked
    <2>4. QED
      BY <2>2, <2>3 DEF ExclInv
  <1>3. QED
    BY <1>1, <1>2 DEF Redirect

LEMMA SelectBodyExclInv ==
    ASSUME TypeOK, ExclInv, NEW t \in Threads, SelectBody(t) PROVE ExclInv'
  <1>0. pc[t] \in SocketHeld /\ UNCHANGED socket
    BY DEF SelectBody, SocketHeld, Locked, PCs
  <1>1. CASE \E e \in Outcomes : Return(t, e, 0)
    BY <1>0, <1>1, ReturnExcl DEF SocketHeld
  <1>2. CASE \E p \in {"body", "chunkSize", "gzip"} : Goto(t, p)
    BY <1>0, <1>2, GotoExcl DEF SocketHeld, Locked, PCs
  <1>3. QED
    BY <1>1, <1>2 DEF SelectBody, Outcomes, ErrorCodes

LEMMA ReadBodyExclInv ==
    ASSUME TypeOK, ExclInv, NEW t \in Threads, ReadBody(t) PROVE ExclInv'
  <1>0. pc[t] = "body" /\ pc[t] \in SocketHeld /\ UNCHANGED socket
    BY DEF ReadBody, SocketHeld, Locked, PCs
  <1>1. CASE Goto(t, "gzip")
    BY <1>0, <1>1, GotoExcl DEF SocketHeld, Locked, PCs
  <1>2. CASE Return(t, "ChunkReadError", 0)
    BY <1>0, <1>2, ReturnExcl DEF SocketHeld
  <1>3. QED
    BY <1>1, <1>2 DEF ReadBody

LEMMA ChunkSizeExclInv ==
    ASSUME TypeOK, ExclInv, NEW t \in Threads, ChunkSize(t) PROVE ExclInv'
  <1>0. pc[t] \in SocketHeld /\ UNCHANGED socket
    BY DEF ChunkSize, SocketHeld, Locked, PCs
  <1>1. CASE \E e \in Outcomes : Return(t, e, 0)
    BY <1>0, <1>1, ReturnExcl DEF SocketHeld
  <1>2. CASE Goto(t, "chunkData")
    BY <1>0, <1>2, GotoExcl DEF SocketHeld, Locked, PCs
  <1>3. QED
    BY <1>1, <1>2 DEF ChunkSize, Outcomes, ErrorCodes

LEMMA ChunkDataExclInv ==
    ASSUME TypeOK, ExclInv, NEW t \in Threads, ChunkData(t) PROVE ExclInv'
  <1>0. pc[t] = "chunkData" /\ pc[t] \in SocketHeld /\ UNCHANGED socket
    BY DEF ChunkData, SocketHeld, Locked, PCs
  <1>1. CASE Goto(t, "chunkEnd")
    BY <1>0, <1>1, GotoExcl DEF SocketHeld, Locked, PCs
  <1>2. CASE Return(t, "ChunkReadError", 0)
    BY <1>0, <1>2, ReturnExcl DEF SocketHeld
  <1>3. QED
    BY <1>1, <1>2 DEF ChunkData

LEMMA ChunkEndExclInv ==
    ASSUME TypeOK, ExclInv, NEW t \in Threads, ChunkEnd(t) PROVE ExclInv'
  <1>0. pc[t] = "chunkEnd" /\ pc[t] \in SocketHeld /\ UNCHANGED socket
    BY DEF ChunkEnd, SocketHeld, Locked, PCs
  <1>1. CASE Goto(t, "gzip") \/ Goto(t, "chunkSize")
    BY <1>0, <1>1, GotoExcl DEF SocketHeld, Locked, PCs
  <1>2. CASE Return(t, "ChunkReadError", 0)
    BY <1>0, <1>2, ReturnExcl DEF SocketHeld
  <1>3. QED
    BY <1>1, <1>2 DEF ChunkEnd

LEMMA FinishExclInv ==
    ASSUME TypeOK, ExclInv, NEW t \in Threads, Finish(t) PROVE ExclInv'
  <1>0. pc[t] \in SocketHeld /\ UNCHANGED socket
    BY DEF Finish, SocketHeld, Locked, PCs
  <1>1. QED
    BY <1>0, ReturnExcl DEF Finish, SocketHeld

(* Every step keeps mutual exclusion.                                     *)
LEMMA NextExclInv == TypeOK /\ ExclInv /\ [Next]_reqVars => ExclInv'
  <1> SUFFICES ASSUME TypeOK, ExclInv, [Next]_reqVars PROVE ExclInv'
    OBVIOUS
  <1>1. ASSUME NEW t \in Threads, Call(t) \/ RequestStep(t) PROVE ExclInv'
    BY <1>1, CallExclInv, LockExclInv, ParseUrlExclInv, CreateSocketExclInv, ConnectExclInv, WriteExclInv, ReadStatusExclInv, ReadHeadersExclInv, RedirectExclInv, SelectBodyExclInv, ReadBodyExclInv, ChunkSizeExclInv, ChunkDataExclInv, ChunkEndExclInv, FinishExclInv
    DEF RequestStep
  <1>2. CASE UNCHANGED reqVars
    BY <1>2 DEF reqVars, ExclInv, LockInv, SocketInv
  <1>3. QED
    BY <1>1, <1>2 DEF Next, Finished

(* The inductive invariant behind TransportExclusive: the types, the frame *)
(* facts, and the two exclusion facts.                                    *)
IInv == TypeInv /\ ExclInv

LEMMA InitIInv == Init => IInv
  <1>1. Init => ExclInv
    BY DEF Init, ExclInv, LockInv, SocketInv, Locked, SocketHeld, PCs
  <1>2. QED
    BY <1>1, InitTypeInv DEF IInv

LEMMA NextIInv == IInv /\ [Next]_reqVars => IInv'
  BY NextTypeInv, NextExclInv DEF IInv, TypeInv

(* Calls never interleave on the transport, for any number of threads,    *)
(* redirects, chunks and body sizes: a thread that connects, writes or    *)
(* reads through _socket holds _mutex (the lock_guard of request()) and    *)
(* _socket is the one its own createSocket assigned.                       *)
THEOREM TransportExclusiveThm == Spec => []TransportExclusive
  <1>1. Init => IInv
    BY InitIInv
  <1>2. IInv /\ [Next]_reqVars => IInv'
    BY NextIInv
  <1>3. IInv => TransportExclusive
    BY DEF IInv, ExclInv, LockInv, SocketInv, TransportExclusive, UsesSocket,
           SocketHeld, Locked
  <1>4. QED
    BY <1>1, <1>2, <1>3, PTL DEF Spec

=============================================================================
