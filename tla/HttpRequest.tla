---------------------------- MODULE HttpRequest ----------------------------
(***************************************************************************)
(* HttpClient::request (src/ixwebsocket/IXHttpClient.cpp, lines 105-418): *)
(* one synchronous HTTP call, executed by any number of threads against   *)
(* one HttpClient instance.  The call takes the instance-wide _mutex with  *)
(* a std::lock_guard, (re)assigns the instance-wide _socket, connects,     *)
(* writes the request and runs the response state machine: status line,   *)
(* headers, redirect check, body framing (Content-Length, chunked, 204),  *)
(* gzip.  A redirect is a tail call of request() that takes _mutex again.  *)
(*                                                                         *)
(* The transport and the URL parser are outside this repository: every    *)
(* call to them returns success or failure nondeterministically, and what *)
(* a successful read returns is drawn from small sets of constants.  A    *)
(* failed read also stands for a read cancelled by its timeout.           *)
(***************************************************************************)
EXTENDS Integers, Sequences, FiniteSets, Functions

CONSTANTS
    Threads,            \* threads that call the client
    Verbs,              \* verbs the calls use: "GET", "HEAD", "DEL", "POST", "PUT"
    StatusCodes,        \* codes a well-formed status line may carry
    LengthChoices,      \* Content-Length values a server may send (see LengthValues)
    MaxBody,            \* largest Content-Length / chunk size a server sends
    MaxChunks,          \* bound: non-final chunks a server sends per response
    MaxRedirects,       \* args->maxRedirects
    FollowRedirects,    \* args->followRedirects
    Compress,           \* args->compress
    ExtraHeaderNames,   \* header names a caller may put in args->extraHeaders
    ExtraHeaderChoices, \* possible args->extraHeaders, as sequences of names
    MaxCalls,           \* bound: calls each thread makes
    Absent, Junk, Negative, Huge  \* special header and line values, below

NoOwner  == "nobody"
NoSocket == "nosocket"

(* Values a Content-Length header can carry, as `ss >> contentLength`     *)
(* (ssize_t) reads them: a number, text that does not parse (Junk), a     *)
(* value that makes payload.reserve throw (Negative), or no header.        *)
LengthValues == (0..MaxBody) \cup {Absent, Junk, Negative}

(* Chunk-size lines: a hex number, a line that does not parse as hex      *)
(* (Junk), or a number too large for uint64_t (Huge: extraction           *)
(* saturates to the maximum).  Absent stands for "no line read yet".      *)
ChunkLines == (0..MaxBody) \cup {Junk, Huge}

(* The callers are threads other than the markers of a free mutex and    *)
(* of a null _socket.                                                     *)
ASSUME ThreadsAssumption ==
    /\ Threads # {} /\ NoOwner \notin Threads /\ NoSocket \notin Threads

(* Bounds are natural numbers; status codes are positive.                *)
ASSUME BoundsAssumption ==
    /\ MaxBody \in Nat /\ MaxChunks \in Nat
    /\ MaxRedirects \in Nat /\ MaxCalls \in Nat
    /\ StatusCodes \subseteq Nat \ {0}

(* The arguments of a call.                                              *)
ASSUME ArgsAssumption ==
    /\ Verbs \subseteq {"GET", "HEAD", "DEL", "POST", "PUT"} /\ Verbs # {}
    /\ FollowRedirects \in BOOLEAN /\ Compress \in BOOLEAN
    /\ ExtraHeaderChoices # {}
    /\ ExtraHeaderChoices \subseteq Seq(ExtraHeaderNames)

(* The special values are distinct and are not numbers.                  *)
ASSUME SpecialsAssumption ==
    /\ {Absent, Junk, Negative, Huge} \cap Nat = {}
    /\ Absent \notin {Junk, Negative, Huge} /\ Junk \notin {Negative, Huge}
    /\ Negative # Huge
    /\ LengthChoices \subseteq LengthValues

(* Names of the headers request() itself writes.                          *)
DefaultHeaderNames == {"Host", "Accept-Encoding", "Accept", "User-Agent",
                       "Content-Length", "Content-Type"}
RequestHeaderNames == DefaultHeaderNames \cup ExtraHeaderNames

(* A received header block, abstracted to what request() looks up in it. *)
Headers == [location: BOOLEAN, length: LengthChoices,
            chunked: BOOLEAN, gzip: BOOLEAN]
NoHeaders == [location |-> FALSE, length |-> Absent,
              chunked |-> FALSE, gzip |-> FALSE]

ErrorCodes == {"Ok", "UrlMalformed", "CannotCreateSocket", "CannotConnect",
               "SendError", "CannotReadStatusLine", "MissingStatus",
               "HeaderParsingError", "MissingLocation", "TooManyRedirects",
               "ChunkReadError", "CannotReadBody", "Gzip"}
(* A call that leaves request() by an exception instead of a response.    *)
Outcomes == ErrorCodes \cup {"Exception"}
Responses == [err: Outcomes, code: {0} \cup StatusCodes, down: Nat]
NoResponse == [err |-> "none", code |-> 0, down |-> 0]

PCs == {"idle", "lock", "parse", "create", "connect", "write", "status",
        "headers", "frame", "body", "chunkSize", "chunkData", "chunkEnd",
        "gzip"}
(* Steps that run while the thread holds _mutex, and those that use       *)
(* the _socket field.                                                     *)
Locked == PCs \ {"idle", "lock"}
UsesSocket == Locked \ {"parse", "create", "frame", "gzip"}

VARIABLES
    pc,       \* per thread: where it is in request()
    calls,    \* per thread: calls made so far
    verb,     \* per thread: the verb of its current call
    extra,    \* per thread: args->extraHeaders of its current call
    depth,    \* per thread: the `redirects` argument of the current frame
    code,     \* per thread: local `code`
    hdr,      \* per thread: local `headers`
    payload,  \* per thread: size of local `payload`
    nchunks,  \* per thread: chunks read in the current body
    last,     \* per thread: the last chunk-size line read (Absent before)
    sent,     \* per thread: header names of the request written ( <<>> before)
    resp,     \* per thread: response of its last call
    owner,    \* _mutex: the thread that holds it
    socket    \* _socket: the thread whose createSocket assigned it

reqVars == <<pc, calls, verb, extra, depth, code, hdr, payload, nchunks,
             last, sent, resp, owner, socket>>
frameVars == <<code, hdr, payload, nchunks, last, sent>>

-----------------------------------------------------------------------------
(* Conversions done inside request().                                     *)

(* `ss >> contentLength` into an ssize_t: a failed extraction stores 0.   *)
ParsedLength(v) == IF v = Junk THEN 0 ELSE v

(* `ss << std::hex << line; ss >> chunkSize`: a failed extraction stores  *)
(* 0, an out-of-range one the maximum uint64_t (Huge).                    *)
ParseHex(l) == IF l = Junk THEN 0 ELSE l

(* payload.reserve(payload.size() + (size_t) chunkSize) throws           *)
(* length_error iff the sum, modulo 2^64, exceeds max_size(): for a       *)
(* Huge size the sum wraps to payload.size() - 1, which only a still      *)
(* empty payload turns into SIZE_MAX.                                     *)
ReserveThrows(len, size) == size = Huge /\ len = 0

(* Names of the headers present in a received header block.              *)
HeaderNames(h) ==
    {n \in {"Location", "Content-Length", "Transfer-Encoding",
            "Content-Encoding"} :
        \/ n = "Location" /\ h.location
        \/ n = "Content-Length" /\ h.length # Absent
        \/ n = "Transfer-Encoding" /\ h.chunked
        \/ n = "Content-Encoding" /\ h.gzip}

(* The header names of the request string built at lines 146-188, in      *)
(* order.  The defaults for Accept and User-Agent are guarded by a lookup *)
(* in `headers`, the local response map, which is still empty there.      *)
BuildRequest(v, x, respHdr) ==
    <<"Host">>
    \o (IF Compress THEN <<"Accept-Encoding">> ELSE <<>>)
    \o x
    \o (IF "Accept" \notin HeaderNames(respHdr) THEN <<"Accept">> ELSE <<>>)
    \o (IF "User-Agent" \notin HeaderNames(respHdr)
        THEN <<"User-Agent">> ELSE <<>>)
    \o (IF v \in {"POST", "PUT"}
        THEN <<"Content-Length">>
             \o (IF "Content-Type" \notin Range(x)
                 THEN <<"Content-Type">> ELSE <<>>)
        ELSE <<>>)

IsRedirect(c) == c >= 301 /\ c <= 308 /\ FollowRedirects

-----------------------------------------------------------------------------
(* The locals of a fresh frame of request(): code, headers, payload and   *)
(* the request string.                                                    *)
FreshFrame(t) ==
    /\ code' = [code EXCEPT ![t] = 0]
    /\ hdr' = [hdr EXCEPT ![t] = NoHeaders]
    /\ payload' = [payload EXCEPT ![t] = 0]
    /\ nchunks' = [nchunks EXCEPT ![t] = 0]
    /\ last' = [last EXCEPT ![t] = Absent]
    /\ sent' = [sent EXCEPT ![t] = <<>>]

(* Entering request() with a verb and args.                               *)
Enter(t, v, x) ==
    /\ pc' = [pc EXCEPT ![t] = "lock"]
    /\ verb' = [verb EXCEPT ![t] = v]
    /\ extra' = [extra EXCEPT ![t] = x]
    /\ depth' = [depth EXCEPT ![t] = 0]
    /\ resp' = [resp EXCEPT ![t] = NoResponse]
    /\ FreshFrame(t)

(* Mutant of Return: a return path that leaves _mutex locked (a manual    *)
(* lock() in place of the lock_guard, missing one unlock()).              *)
ReturnKeepsLock(t, err, down) ==
    /\ resp' = [resp EXCEPT ![t] = [err |-> err, code |-> code[t],
                                     down |-> down]]
    /\ pc' = [pc EXCEPT ![t] = "idle"]
    /\ owner' = owner
    /\ depth' = [depth EXCEPT ![t] = 0]
    /\ FreshFrame(t)

(* A return statement of request(): the response is built from `code`    *)
(* and downloadSize, the lock_guard releases _mutex, the frame's locals   *)
(* die.                                                                    *)
Return(t, err, down) ==
    /\ resp' = [resp EXCEPT ![t] = [err |-> err, code |-> code[t],
                                     down |-> down]]
    /\ pc' = [pc EXCEPT ![t] = "idle"]
    /\ owner' = NoOwner
    /\ depth' = [depth EXCEPT ![t] = 0]
    /\ FreshFrame(t)

(* A step that stays inside request(), to p.                              *)
Goto(t, p) ==
    /\ pc' = [pc EXCEPT ![t] = p]
    /\ UNCHANGED <<resp, owner, depth>>

(* HttpClient::get/head/del/post/put: a thread calls request().           *)
Call(t) ==
    /\ pc[t] = "idle"
    /\ calls[t] < MaxCalls
    /\ calls' = [calls EXCEPT ![t] = @ + 1]
    /\ \E v \in Verbs, x \in ExtraHeaderChoices : Enter(t, v, x)
    /\ UNCHANGED <<owner, socket>>

(* Mutant of Lock: request() without its lock_guard.                      *)
LockUnguarded(t) ==
    /\ pc[t] = "lock"
    /\ pc' = [pc EXCEPT ![t] = "parse"]
    /\ owner' = t
    /\ UNCHANGED <<calls, verb, extra, depth, frameVars, resp, socket>>

(* std::lock_guard<std::mutex> lock(_mutex): blocks while any thread,    *)
(* this one included, holds it.                                           *)
Lock(t) ==
    /\ pc[t] = "lock"
    /\ owner = NoOwner
    /\ pc' = [pc EXCEPT ![t] = "parse"]
    /\ owner' = t
    /\ UNCHANGED <<calls, verb, extra, depth, frameVars, resp, socket>>

(* UrlParser::parse of the url or of the redirect Location.               *)
ParseUrl(t) ==
    /\ pc[t] = "parse"
    /\ \/ Goto(t, "create") /\ UNCHANGED frameVars
       \/ Return(t, "UrlMalformed", 0)
    /\ UNCHANGED <<calls, verb, extra, socket>>

(* _socket = createSocket(tls, errorMsg): nullptr on failure.             *)
CreateSocket(t) ==
    /\ pc[t] = "create"
    /\ \/ socket' = t /\ Goto(t, "connect") /\ UNCHANGED frameVars
       \/ socket' = NoSocket /\ Return(t, "CannotCreateSocket", 0)
    /\ UNCHANGED <<calls, verb, extra>>

(* _socket->connect under the connect-timeout cancellation.               *)
Connect(t) ==
    /\ pc[t] = "connect"
    /\ \/ Goto(t, "write") /\ UNCHANGED frameVars
       \/ Return(t, "CannotConnect", 0)
    /\ UNCHANGED <<calls, verb, extra, socket>>

(* Lines 145-234: the request string is built, then                       *)
(* _socket->writeBytes(req) under the transfer-timeout cancellation.      *)
Write(t) ==
    /\ pc[t] = "write"
    /\ \/ /\ sent' = [sent EXCEPT ![t] = BuildRequest(verb[t], extra[t], hdr[t])]
          /\ Goto(t, "status")
          /\ UNCHANGED <<code, hdr, payload, nchunks, last>>
       \/ Return(t, "SendError", 0)
    /\ UNCHANGED <<calls, verb, extra, socket>>

(* readLine, then sscanf(line, "HTTP/1.1 %d", &code).                     *)
ReadStatus(t) ==
    /\ pc[t] = "status"
    /\ \/ /\ \E c \in StatusCodes : code' = [code EXCEPT ![t] = c]
          /\ Goto(t, "headers")
          /\ UNCHANGED <<hdr, payload, nchunks, last, sent>>
       \/ Return(t, "CannotReadStatusLine", 0)
       \/ Return(t, "MissingStatus", 0)
    /\ UNCHANGED <<calls, verb, extra, socket>>

(* parseHttpHeaders(_socket, ...).                                        *)
ReadHeaders(t) ==
    /\ pc[t] = "headers"
    /\ \/ /\ \E h \in Headers : hdr' = [hdr EXCEPT ![t] = h]
          /\ Goto(t, "frame")
          /\ UNCHANGED <<code, payload, nchunks, last, sent>>
       \/ Return(t, "HeaderParsingError", 0)
    /\ UNCHANGED <<calls, verb, extra, socket>>

(* Mutant of Redirect: `redirects > args->maxRedirects`.                  *)
RedirectOffByOne(t) ==
    /\ pc[t] = "frame"
    /\ IsRedirect(code[t])
    /\ \/ ~hdr[t].location /\ Return(t, "MissingLocation", 0)
       \/ /\ hdr[t].location /\ depth[t] > MaxRedirects
          /\ Return(t, "TooManyRedirects", 0)
       \/ /\ hdr[t].location /\ depth[t] <= MaxRedirects
          /\ pc' = [pc EXCEPT ![t] = "lock"]
          /\ depth' = [depth EXCEPT ![t] = @ + 1]
          /\ FreshFrame(t)
          /\ UNCHANGED <<resp, owner>>
    /\ UNCHANGED <<calls, verb, extra, socket>>

(* Mutant of Redirect: the outer frame gives up _mutex before the nested  *)
(* request() (an unlock-then-recurse fix of the self-deadlock).           *)
RedirectUnlocks(t) ==
    /\ pc[t] = "frame"
    /\ IsRedirect(code[t])
    /\ \/ ~hdr[t].location /\ Return(t, "MissingLocation", 0)
       \/ /\ hdr[t].location /\ depth[t] >= MaxRedirects
          /\ Return(t, "TooManyRedirects", 0)
       \/ /\ hdr[t].location /\ depth[t] < MaxRedirects
          /\ pc' = [pc EXCEPT ![t] = "lock"]
          /\ depth' = [depth EXCEPT ![t] = @ + 1]
          /\ FreshFrame(t)
          /\ owner' = NoOwner
          /\ UNCHANGED resp
    /\ UNCHANGED <<calls, verb, extra, socket>>

(* Lines 276-298: a 301..308 with followRedirects.  The recursive call    *)
(* request(location, ..., redirects+1) is a tail call: a fresh frame      *)
(* whose first statement takes _mutex, which this thread still holds.     *)
Redirect(t) ==
    /\ pc[t] = "frame"
    /\ IsRedirect(code[t])
    /\ \/ ~hdr[t].location /\ Return(t, "MissingLocation", 0)
       \/ /\ hdr[t].location /\ depth[t] >= MaxRedirects
          /\ Return(t, "TooManyRedirects", 0)
       \/ /\ hdr[t].location /\ depth[t] < MaxRedirects
          /\ pc' = [pc EXCEPT ![t] = "lock"]
          /\ depth' = [depth EXCEPT ![t] = @ + 1]
          /\ FreshFrame(t)
          /\ UNCHANGED <<resp, owner>>
    /\ UNCHANGED <<calls, verb, extra, socket>>

(* Lines 300-397: HEAD returns at once; otherwise the body framing is    *)
(* chosen by Content-Length, then chunked, then 204, else an error.  A   *)
(* Negative Content-Length makes payload.reserve throw.                   *)
SelectBody(t) ==
    /\ pc[t] = "frame"
    /\ ~IsRedirect(code[t])
    /\ LET len == hdr[t].length
           body == verb[t] # "HEAD"
       IN \/ ~body /\ Return(t, "Ok", 0)
          \/ body /\ len \notin {Absent, Negative}
             /\ Goto(t, "body") /\ UNCHANGED frameVars
          \/ body /\ len = Negative /\ Return(t, "Exception", 0)
          \/ body /\ len = Absent /\ hdr[t].chunked
             /\ Goto(t, "chunkSize") /\ UNCHANGED frameVars
          \/ body /\ len = Absent /\ ~hdr[t].chunked /\ code[t] = 204
             /\ Goto(t, "gzip") /\ UNCHANGED frameVars
          \/ body /\ len = Absent /\ ~hdr[t].chunked /\ code[t] # 204
             /\ Return(t, "CannotReadBody", 0)
    /\ UNCHANGED <<calls, verb, extra, socket>>

(* _socket->readBytes(contentLength, ...).                                *)
ReadBody(t) ==
    /\ pc[t] = "body"
    /\ \/ /\ payload' = [payload EXCEPT ![t] = @ + ParsedLength(hdr[t].length)]
          /\ Goto(t, "gzip")
          /\ UNCHANGED <<code, hdr, nchunks, last, sent>>
       \/ Return(t, "ChunkReadError", 0)
    /\ UNCHANGED <<calls, verb, extra, socket>>

(* Chunked loop, first part: readLine, parse as hex, payload.reserve.  A  *)
(* server sends at most MaxChunks non-final chunks.                       *)
ChunkSize(t) ==
    /\ pc[t] = "chunkSize"
    /\ \/ \E l \in ChunkLines :
          /\ nchunks[t] < MaxChunks \/ ParseHex(l) = 0
          /\ IF ReserveThrows(payload[t], ParseHex(l))
             THEN Return(t, "Exception", 0)
             ELSE /\ last' = [last EXCEPT ![t] = l]
                  /\ Goto(t, "chunkData")
                  /\ UNCHANGED <<code, hdr, payload, nchunks, sent>>
       \/ Return(t, "ChunkReadError", 0)
    /\ UNCHANGED <<calls, verb, extra, socket>>

(* readBytes(chunkSize): a Huge chunk is never delivered in full.         *)
ChunkData(t) ==
    /\ pc[t] = "chunkData"
    /\ \/ /\ ParseHex(last[t]) # Huge
          /\ payload' = [payload EXCEPT ![t] = @ + ParseHex(last[t])]
          /\ Goto(t, "chunkEnd")
          /\ UNCHANGED <<code, hdr, nchunks, last, sent>>
       \/ Return(t, "ChunkReadError", 0)
    /\ UNCHANGED <<calls, verb, extra, socket>>

(* Mutant of ChunkEnd: the `if (chunkSize == 0) break;` is missing.      *)
ChunkEndNoBreak(t) ==
    /\ pc[t] = "chunkEnd"
    /\ \/ /\ ParseHex(last[t]) = 0
          /\ Goto(t, "chunkSize") /\ UNCHANGED frameVars
       \/ /\ ParseHex(last[t]) # 0
          /\ nchunks' = [nchunks EXCEPT ![t] = @ + 1]
          /\ Goto(t, "chunkSize")
          /\ UNCHANGED <<code, hdr, payload, last, sent>>
       \/ Return(t, "ChunkReadError", 0)
    /\ UNCHANGED <<calls, verb, extra, socket>>

(* readLine of the chunk's line terminator; `if (chunkSize == 0) break;`. *)
ChunkEnd(t) ==
    /\ pc[t] = "chunkEnd"
    /\ \/ /\ ParseHex(last[t]) = 0
          /\ Goto(t, "gzip") /\ UNCHANGED frameVars
       \/ /\ ParseHex(last[t]) # 0
          /\ nchunks' = [nchunks EXCEPT ![t] = @ + 1]
          /\ Goto(t, "chunkSize")
          /\ UNCHANGED <<code, hdr, payload, last, sent>>
       \/ Return(t, "ChunkReadError", 0)
    /\ UNCHANGED <<calls, verb, extra, socket>>

(* Lines 399-417: downloadSize = payload.size(); gzipInflate when the     *)
(* response says Content-Encoding: gzip (its result depends on the data). *)
Finish(t) ==
    /\ pc[t] = "gzip"
    /\ \/ ~hdr[t].gzip /\ Return(t, "Ok", payload[t])
       \/ hdr[t].gzip /\ Return(t, "Ok", payload[t])
       \/ hdr[t].gzip /\ Return(t, "Gzip", payload[t])
    /\ UNCHANGED <<calls, verb, extra, socket>>

(* Every step a thread takes inside request().                            *)
RequestStep(t) ==
    \/ Lock(t) \/ ParseUrl(t) \/ CreateSocket(t) \/ Connect(t) \/ Write(t)
    \/ ReadStatus(t) \/ ReadHeaders(t) \/ Redirect(t) \/ SelectBody(t)
    \/ ReadBody(t) \/ ChunkSize(t) \/ ChunkData(t) \/ ChunkEnd(t)
    \/ Finish(t)

-----------------------------------------------------------------------------
Init ==
    /\ pc = [t \in Threads |-> "idle"]
    /\ calls = [t \in Threads |-> 0]
    /\ verb = [t \in Threads |-> CHOOSE v \in Verbs : TRUE]
    /\ extra = [t \in Threads |-> <<>>]
    /\ depth = [t \in Threads |-> 0]
    /\ code = [t \in Threads |-> 0]
    /\ hdr = [t \in Threads |-> NoHeaders]
    /\ payload = [t \in Threads |-> 0]
    /\ nchunks = [t \in Threads |-> 0]
    /\ last = [t \in Threads |-> Absent]
    /\ sent = [t \in Threads |-> <<>>]
    /\ resp = [t \in Threads |-> NoResponse]
    /\ owner = NoOwner
    /\ socket = NoSocket

(* Every thread has made its calls and returned: the program ends.        *)
Finished ==
    /\ \A t \in Threads : pc[t] = "idle" /\ calls[t] = MaxCalls
    /\ UNCHANGED reqVars

Next ==
    \/ \E t \in Threads : Call(t) \/ RequestStep(t)
    \/ Finished

(* A thread inside request() keeps running: every blocking transport     *)
(* call returns, at the latest when its timeout cancels it.  Calling is   *)
(* the caller's choice and is not fair.                                   *)
Fairness == \A t \in Threads : WF_reqVars(RequestStep(t))

Spec == Init /\ [][Next]_reqVars /\ Fairness

-----------------------------------------------------------------------------
(* Type of every variable.                                                *)
TypeOK ==
    /\ pc \in [Threads -> PCs]
    /\ calls \in [Threads -> 0..MaxCalls]
    /\ verb \in [Threads -> Verbs]
    /\ extra \in [Threads -> ExtraHeaderChoices \cup {<<>>}]
    /\ depth \in [Threads -> 0..MaxRedirects]
    /\ code \in [Threads -> {0} \cup StatusCodes]
    /\ hdr \in [Threads -> Headers \cup {NoHeaders}]
    /\ payload \in [Threads -> Nat]
    /\ nchunks \in [Threads -> 0..MaxChunks]
    /\ last \in [Threads -> ChunkLines \cup {Absent}]
    /\ sent \in [Threads -> Seq(RequestHeaderNames)]
    /\ resp \in [Threads -> Responses \cup {NoResponse}]
    /\ owner \in Threads \cup {NoOwner}
    /\ socket \in Threads \cup {NoSocket}

(* Calls never interleave on the transport (spec section 8): a thread     *)
(* that connects, writes or reads through _socket is the only thread      *)
(* past the lock, and _socket is the socket its own createSocket made.    *)
TransportExclusive ==
    \A t \in Threads : pc[t] \in UsesSocket =>
        /\ socket = t
        /\ \A u \in Threads \ {t} : pc[u] \notin Locked

(* Every call returns: a thread inside request() eventually leaves it     *)
(* with a response (spec section 8: a redirect chain no longer than       *)
(* maxRedirects yields the final response).                               *)
CallsReturn == \A t \in Threads : pc[t] # "idle" ~> pc[t] = "idle"

(* A chunked body is complete when it is handed on (spec section 4.3):   *)
(* the chunk loop of lines 334-385 only leaves for the gzip/success step  *)
(* after reading a chunk-size line that is the number 0.                  *)
ChunkedBodyComplete ==
    \A t \in Threads : pc[t] = "gzip" /\ last[t] # Absent => last[t] = 0

(* The request written on the wire names each header once (spec 4.1: the *)
(* defaults for Accept, User-Agent and Content-Type are added only when   *)
(* the caller did not supply them).                                       *)
NoDuplicateRequestHeaders == \A t \in Threads : IsInjective(sent[t])

(* Failures are returned as a response, never raised (spec section 7):    *)
(* no call of request() leaves by an exception.                           *)
NoExceptionEscapes == \A t \in Threads : resp[t].err # "Exception"


-----------------------------------------------------------------------------
(* The refinement mapping onto HttpCall: a thread is waiting while it is  *)
(* blocked on _mutex for its first frame, and its call is active from the *)
(* lock until the return, the frames of its redirects included.           *)
CallState(t) ==
    IF pc[t] = "idle" THEN "idle"
    ELSE IF pc[t] = "lock" /\ owner # t THEN "waiting"
    ELSE "active"

(* The responses as the abstraction sees them: downloadSize is at most a  *)
(* Content-Length body or MaxChunks chunks of MaxBody bytes each.          *)
MaxDownload == MaxBody * (MaxChunks + 1)
CallResults == [err : Outcomes, code : {0} \cup StatusCodes, down : 0..MaxDownload]

AbstractCall == INSTANCE HttpCall
    WITH apc <- [t \in Threads |-> CallState(t)], acalls <- calls,
         holder <- owner, aresp <- resp,
         Results <- CallResults, NoHolder <- NoOwner, NoResult <- NoResponse

(* request() implements what a call promises: calls of several threads    *)
(* run one at a time in the order the mutex grants them, each started     *)
(* call returns exactly one response, and nothing else changes what the   *)
(* callers see.                                                            *)
ImplementsCall == AbstractCall!CallSpec

(* Calls serialise end to end, redirect chains included (spec 4.6 and 8:  *)
(* one call completes, with any redirect chain, before the next begins): *)
(* the safety part of HttpCall, which holds whatever the redirect bound.  *)
(* The nested request() of a followed redirect is the same abstract call, *)
(* because its frame runs while the outer frame's lock_guard holds _mutex.*)
CallsSerialized == AbstractCall!CallSafety

=============================================================================
