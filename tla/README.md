# TLA+ models of IXWebSocket's HTTP client

This directory holds TLA+ models of the HTTP client in
`src/ixwebsocket/IXHttpClient.cpp` and of the `ws curl` command in
`src/ws/ws_http_client.cpp`, the TLC configurations that check them, and TLAPS
proofs of their main safety properties and of a refinement. `PROJECT.json` lists the
components, the runs, the mutants, the map from every definition to the source
lines it models, the findings and the hazards.

## The system

`HttpClient` (IXHttpClient.cpp) has the following parts:

| Part | Source | What it does |
|---|---|---|
| Protocol engine | `request()`, lines 105-418 | Takes the instance-wide `_mutex` with a `std::lock_guard` and parses the URL. It (re)assigns the instance-wide `_socket`, builds the request string, and connects and writes. It then reads the status line and headers. It follows a 301..308 redirect by calling itself (lines 276-298) and reads the body in one of three ways: by Content-Length, by chunked encoding, or nothing for 204. Finally it inflates gzip. Every failure is a `return` of a response with an error code. |
| Request builder | lines 145-190 | Writes the Host header and the optional Accept-Encoding, then the caller's extra headers. It adds the Accept, User-Agent and (for POST/PUT) Content-Type defaults. |
| Chunked decoder | lines 329-386 | Loop: read a size line, parse it as hex, `reserve`, read the chunk, read the CRLF, and break on size 0. |
| Verb wrappers | lines 420-464 | `get/head/del/post/put` call `request()`. |
| Async dispatcher | lines 27-103 | In async mode the constructor starts a worker thread (`run`). `performRequest` pushes a task under `_queueMutex` and then calls `notify_one`. The worker waits on `_condition`, pops the front task, runs `request()` and then the callback. `~HttpClient` sets `_stop`, calls `notify_one` and joins. |
| gzipInflate, urlEncode, serializeHttpParameters | lines 466-560 | Pure conversions. |
| CLI | `src/ws/ws_http_client.cpp` | Parses `-H` headers and POST parameters from text, makes one call, and prints or saves the response. |

The parts interact in two places:
- Synchronous callers and the async worker run `request()` on the same instance. They share `_mutex` and `_socket`.
- The destructor and `performRequest` talk to the worker only through `_queue`, `_queueMutex`, `_condition` and `_stop`.

## Modules

| Module | Models | Notes |
|---|---|---|
| `HttpRequest` | `request()` and the verb wrappers, run by a set of `Threads` | One action per statement group of `request()`. Also holds the refinement mapping onto `HttpCall`. |
| `HttpCall` | What a call promises: begin, start once no other call runs, complete with one response | Abstract specification; no code. |
| `HttpClient` | The async dispatcher composed with `HttpRequest` | Callers make synchronous calls or enqueue tasks; one worker; the destructor. Also holds the refinement mapping `PendingIds` onto `HttpQueue`. |
| `HttpQueue` | What the async client promises: a FIFO of submitted tasks, answered oldest first, given up only after shutdown began | Abstract specification (spec 4.6); no code. |
| `GzipInflate` | `gzipInflate`, lines 513-560 | The pump loop over zlib's contract. |
| `HttpParams` | `parseHeaders`, `parsePostParameters`, `extractFilename` (CLI); `urlEncode`, `serializeHttpParameters` | Operators on byte sequences, with reference definitions. Uses RECURSIVE, so it is TLC-only. |
| `WsHttpClient` | `ws_http_client_main` | The CLI as a sequential state machine. |
| `HttpRequestProofs`, `HttpRequestRefinement`, `HttpClientProofs`, `HttpClientRefinement`, `GzipInflateProofs` | TLAPS proofs | |
| `MC_HttpRequest`, `MC_HttpClient`, `MC_GzipInflate`, `MC_WsHttpClient` | Model values and small sets for TLC | |

### HttpRequest

**State.** Per thread, the model keeps:
- `pc`: the place in `request()`;
- `calls`: calls made so far;
- `verb` and `extra`: the call's verb and `args->extraHeaders`;
- `depth`: the `redirects` argument;
- the locals of the current frame: `code`, `hdr`, `payload` (its size), `nchunks`, `last` (the last chunk-size line) and `sent` (the header names written);
- `resp`: the response of its last call.

Two fields are shared between threads:
- `owner`: the thread holding `_mutex`;
- `socket`: the thread whose `createSocket` last assigned `_socket`.

**Actions.** Each step of `request()` is one action. Its disjuncts are the step's exits:

| Action | Exits |
|---|---|
| `Lock` | Take `_mutex` (blocks while any thread holds it). |
| `ParseUrl` | Continue, or return `UrlMalformed`. |
| `CreateSocket` | Assign `_socket`, or return `CannotCreateSocket` (`_socket` becomes null). |
| `Connect` | Continue, or return `CannotConnect`. |
| `Write` | Write the string `BuildRequest` gives, or return `SendError`. |
| `ReadStatus` | Read a status code, or return `CannotReadStatusLine` or `MissingStatus`. |
| `ReadHeaders` | Read a header block, or return `HeaderParsingError`. |
| `Redirect` | Return `MissingLocation` or `TooManyRedirects`, or make the recursive call. |
| `SelectBody` | HEAD, Content-Length, Negative length (an exception), chunked, 204, or `CannotReadBody`. |
| `ReadBody` | Read the Content-Length body, or return `ChunkReadError`. |
| `ChunkSize`, `ChunkData`, `ChunkEnd` | The chunk loop. |
| `Finish` | Set the download size, then gzip: `Ok` or `Gzip`. |

`Return(t, err, down)` is every `return` statement: it builds the response, releases `_mutex` (the lock guard's destructor) and kills the frame. The recursive redirect call is modelled as a tail call: a fresh frame whose first step is `Lock`, with `_mutex` still held by the same thread.

**Abstractions.** The transport, URL parser and header parser are not in these sources. Each call to them succeeds or fails as a free choice, and a read returns a member of a small constant set. A cancelled read (connect or transfer timeout) is a failed read. A response header block is reduced to the four lookups `request()` makes on it: Location, Content-Length, chunked Transfer-Encoding and gzip Content-Encoding.

**Special values.** Four model values stand for the conversions the code performs:

| Value | Meaning |
|---|---|
| `Junk` | Text that stream extraction cannot parse. It reads as 0, as C++11 `operator>>` stores. |
| `Negative` | A Content-Length that `payload.reserve` rejects. |
| `Huge` | A chunk size that saturates `uint64_t`. `payload.size() + chunkSize` wraps modulo 2^64, so `reserve` throws only while the payload is empty (`ReserveThrows`). |
| `Absent` | No such header, or no chunk line read yet. |

### HttpClient

**State.** The model adds:
- `queue` and `qowner`: `_queue` and `_queueMutex`;
- `stop`: `_stop`;
- `wpc` and `cur`: the worker's place and the task it popped;
- `cpc`: each caller's place between its push and its `notify_one`;
- `dpc`: the destructor's place;
- `aborted`: `std::terminate` ran;
- history variables `enqueued` and `delivered`.

**Actions.**
- `PerformRequest` and `PerformNotify` model `performRequest`.
- `WorkerLock`, `WorkerCheck`, `WorkerWait`, `SpuriousWakeup`, `WorkerStart` and `WorkerDeliver` model `run()`.
- `Destroy`, `DestroyNotify` and `DestroyJoin` model the destructor.
- `SyncCall` is a direct verb call.

Callers and the worker use `HttpRequest`'s actions for their calls. The destructor is taken to run on a thread that is done with the client: every caller has made its calls and is back in `ready`.

### GzipInflate

**State.**
- `kind` and `total`: what the input holds (complete, truncated or corrupt) and how many plaintext units inflate can produce from it.
- `out` and `availOut`: units appended and `avail_out`.
- `ret` and `gpc`: the last code and the place in the loop.
- `result`: the return value.

**Actions.**
- `InflateInit`: `inflateInit2` and its failure.
- `Pump`: one iteration of the `do ... while`. It calls inflate, bails out on `Z_NEED_DICT`/`Z_DATA_ERROR`/`Z_MEM_ERROR`, appends `kBufferSize - avail_out`, and loops while `avail_out == 0`.

zlib is not code of this repository. `InflateResults` is its contract, stated in units.

### HttpParams and WsHttpClient

A `std::string` is a sequence of one-byte strings, and a `std::map` is a function on its keys. The operators follow the code:
- `ParseLines`: the shared getline/rfind/substr loop, with the last line winning.
- `HeadersThrow`: the condition under which `substr` throws.
- `UrlEncode`: `isalnum`, with the build's outcome for a high byte as the variable `hiAlnum`.
- `HexField`: `setw(2)`, fill `'0'`, uppercase hex.
- `SerializeHttpParameters`: the map order is `KeyLess`.

The reference definitions they are checked against are `RefHeaders` (how HTTP reads a header line), `FormDecode` (how a server reads a form body) and `SpecUrlEncode` (the spec's rule).

`WsHttpClient` has four actions:
- `ParseArgs`: lines 98-118, which may end in `thrown`;
- `Request`: lines 120-148, choosing the verb and body. The outcome of the call is any response `request()` can give, and a HEAD never has a body;
- `SavePayload`: lines 152-165, which may end in `aborted` on an empty payload;
- `PrintPayload`: lines 166-181.

## Properties and runs

| Run | Expect | Checks | What it shows |
|---|---|---|---|
| `request_serial` | pass | `TypeOK`, `TransportExclusive`, `CallsReturn`, `ImplementsCall` | 2 threads, 1 call each, any of GET/HEAD/POST. Status 200/204/301, Content-Length absent/1/junk/negative, chunked bodies of at most 1 non-final chunk, gzip on or off, maxRedirects 0. Calls serialise on `_mutex`, a thread using `_socket` is alone past the lock and owns the socket, and every call returns. About 393k states. |
| `request_redirect` | pass | `CallsSerialized` | Redirects followed with maxRedirects 1 and two threads. Seen through `CallState`, the behaviour is one of `HttpCall`'s safety part: a redirect's nested frame is the same call, and no other call starts between the frames of one chain (spec 4.6 and 8). The nested frame then blocks on its own lock (`request_redirect_hang`), so deadlock is not checked. |
| `request_redirect_hang` | violation | `CallsReturn` | A followed redirect never returns: the inner lock guard blocks on the thread's own `_mutex`. |
| `request_chunk_junk` | violation | `ChunkedBodyComplete` | A non-hex chunk-size line ends the chunked body as if it were the final chunk. |
| `request_exception` | violation | `NoExceptionEscapes` | A negative Content-Length throws `length_error` out of `request()`. |
| `client_async` | pass | `ClientTypeOK`, `TransportExclusive`, `FifoDelivery`, `ImplementsQueue`, `EnqueuedHandled` | Async mode, 2 callers with 1 task each, plus the worker; the owner may destroy the client at any point after the callers are done. The server's Content-Length may be one that `payload.reserve` rejects, so a request on the worker may throw and end the program through `std::terminate`. Callbacks run in enqueue order, none twice, also when the worker dies. Seen through `PendingIds`, the client is a behaviour of `HttpQueue`. Each enqueued task is handled unless shutdown began or the program ended. |
| `client_shutdown_hang` | violation | `ShutdownCompletes` | The lost wakeup of `~HttpClient`: `_stop` and `notify_one` land between the worker's predicate check and its `wait`, and `join` never returns. |
| `request_serial` (`ImplementsCall`) | | | The same instance, seen through `CallState`, is a behaviour of `HttpCall` with its fairness: calls begin, start one at a time, and complete with one response. |
| `gzip_pump` | pass | `InflateFaithful`, `InflateTerminates` | Plaintexts of 0..5 units with a 2-unit buffer, so less than one buffer, exactly one and several; zlib may report `Z_MEM_ERROR`. A complete body is inflated in full and accepted unless memory runs out, a corrupt one is never accepted, and the loop ends. |
| `gzip_truncated` | violation | `AcceptsOnlyWholeStream` | An empty or cut-short body is accepted: the loop ends on a partly filled buffer and never checks `Z_STREAM_END`. |
| `cli_parse` | pass | `HeadersAgreeWithReference`, `ParamsRoundTrip` | Every `-H` text of up to 3 bytes over `k`, `:`, space and newline, and every `-d` text of up to 3 bytes over `a`, `=`, `&`, `%`, byte 0xC3 and newline, with either `isalnum` outcome for 0xC3. Lines written as `Name: value` give the headers HTTP reads, and the POST body decodes back to exactly the parsed parameters. About 1.8M states. |
| `cli_header_throw` | violation | `HeadersNeverThrow` | A line ending in `:` makes `substr(pos+2)` throw `std::out_of_range` out of the program. |

**Bounds.**
- Two threads are the least that can interleave on `_mutex` and `_socket`.
- One call each covers every exit of `request()`.
- A body of size 1 and one non-final chunk reach the chunk loop's back edge.
- maxRedirects 0 and 1 reach both sides of the `redirects >= maxRedirects` test.
- The client's sync mode has no run of its own. A sync caller's steps are steps of `request()`, which `request_serial` and `request_redirect` check with two direct callers. `performRequest` refuses there without touching the queue, and the `HttpClientProofs` theorems hold in both modes.
- `GzipInflate`: a 2-unit buffer and plaintexts of up to 5 units cover an empty output, a partial buffer, an exact fill (the loop goes round once more) and several fills. The three kinds of input (complete, truncated, corrupt) are all zlib can tell `gzipInflate`.
- `WsHttpClient`: all strings up to 3 bytes over alphabets that hold every separator the parsers and encoders test for: `:`, space, newline, `=`, `&`, `%`, and one byte above 0x7F. `cli_parse` uses one URL and no `--output`, because neither affects parsing; the configurations below use two URLs, one ending in `/`, and an `--output` present or absent.

Every passing run finishes in under a minute.

**Mutants.** Each property of a passing run is broken by a mutant of the code it is about (`PROJECT.json`, "mutants"):

| Mutant | Change | Property it breaks |
|---|---|---|
| `LockUnguarded` | No lock guard | `TransportExclusive` |
| `RedirectUnlocks` | The outer frame releases `_mutex` before the nested `request()` (an unlock-then-recurse fix of the deadlock) | `CallsSerialized` |
| `RedirectOffByOne` | `redirects > maxRedirects` | `TypeOK` (the depth bound) |
| `ChunkEndNoBreak` | The `chunkSize == 0` break is missing | `CallsReturn` |
| `WorkerCheckLifo` | Pop the back of the queue | `FifoDelivery` |
| `WorkerDeliverOnlyOk` | The callback runs only for an `Ok` response | `ImplementsQueue` |
| `PerformNotifyLost` | No `notify_one` after the push | `EnqueuedHandled` |
| `ReturnKeepsLock` | A return path that leaves `_mutex` locked | `ImplementsCall` |
| `InflateFailedNoData` | `Z_DATA_ERROR` missing from the bail-out test | `InflateFaithful` |
| `LoopUntilEnd` | Loop until `Z_STREAM_END` instead of while the buffer fills | `InflateTerminates` |
| `ParseHeadersSkip1` | `substr(pos+1)` | `HeadersAgreeWithReference` |
| `EncodedByteSigned` | `int(c)` without the `unsigned char` cast | `ParamsRoundTrip` |

**Fairness.**
- `HttpRequest`: weak fairness on each thread's steps inside `request()`. Every blocking transport call ends, at the latest when its timeout fires. Making a call is the caller's choice and is not fair.
- `HttpClient`: weak fairness on the worker's steps, on each caller's `notify_one`, and on the destructor's notify and join once it has started. Whether the owner ever destroys the client is not fair, and neither is a spurious wakeup. So `EnqueuedHandled` cannot be satisfied by a shutdown that never has to come, nor by a wakeup the code does not cause.
- `GzipInflate`: weak fairness on the init and pump steps that do not fail with `Z_MEM_ERROR`. The loop runs on the caller's thread and waits on nothing, so it keeps stepping. Fairness never forces zlib to fail.
- `HttpCall`: weak fairness on `Complete` only. A running call finishes, but `std::mutex` promises no order among waiters, so `Acquire` carries no fairness. `ImplementsCall` checks it under `HttpRequest`'s fairness with maxRedirects 0; with a followed redirect the self-deadlock breaks it, as `request_redirect_hang` shows.
- `WsHttpClient`: none. Every run is about safety, and the program stops in `done`, `thrown` or `aborted` (deadlock is not checked).

## Proofs (HttpRequestProofs)

| Theorem | Statement | Assumptions |
|---|---|---|
| `TypeCorrect` | `Spec => []TypeOK` | For every set of threads and every bound, under the named assumptions of `HttpRequest`: `ThreadsAssumption`, `BoundsAssumption`, `ArgsAssumption`, `SpecialsAssumption`. |
| `TransportExclusiveThm` | `Spec => []TransportExclusive` | The same assumptions. |

**Why TypeOK needs strengthening.** `TypeOK` is not inductive. A body read adds to `payload` a length that only `SelectBody` checked, and a chunk read adds a size that only `ChunkSize` checked. `FrameInv` carries those checks forward per thread:
- in `body`, the length is a number or `Junk`;
- in `chunkData` and `chunkEnd`, the last line is a chunk line, a non-zero size was read under the chunk bound, and it is not `Huge` once read.

`TypeInv == TypeOK /\ FrameInv` is inductive. The proof has one lemma per action, split along the action's exits. It rests on three shared lemmas:
- `ReturnTypeInv`: every return statement;
- `GotoTypeInv`: a step that only changes pc;
- `FrameOthers`: one thread's step leaves the other threads' frame facts.

**Why TransportExclusive needs strengthening.** The exclusion proof uses `ExclInv == LockInv /\ SocketInv`:
- `LockInv`: a thread past the lock holds `_mutex`.
- `SocketInv`: a thread past `createSocket` owns `_socket`.

`SocketInv` covers the `frame` and `gzip` statements too, not only the ones that use the socket, so that it survives the step from `frame` into a body read. The only writer of `_socket` runs under `_mutex`, so `LockInv` makes `SocketInv` inductive. `IInv == TypeInv /\ ExclInv` was checked with TLC as an invariant of the serial configuration before it was proved.


## Proofs (HttpRequestRefinement)

`CallRefinement` proves `Spec => CallsSerialized`, where `CallsSerialized == AbstractCall!CallSafety`, under the same four assumptions. `AbstractCall` is `HttpCall` instantiated with this mapping:
- `apc`: `CallState(t)`. It is `idle` outside `request()` and `waiting` while blocked on `_mutex` for the first frame. Otherwise it is `active`, including a redirect's new frame, whose thread still holds `_mutex`.
- `holder`: `owner`.
- `aresp`: `resp`.
- `acalls`: `calls`.

The argument has three parts:
1. Initial states map to `CallInit`.
2. `Call` is `Begin`, the first `Lock` is `Acquire`, and every return statement is `Complete`.
3. Every other step, the redirect's included, leaves the mapped state unchanged.

`CallState` of a thread's own return step needs `LockInv` (the returning thread holds `_mutex`). It also needs two new invariants:
- `OwnerInv`: the holder of `_mutex` is inside `request()`, so `Call` always maps to `Begin` (`waiting`, not `active`).
- `PayloadInv`: the body read so far is at most `MaxBody` per counted chunk, plus one more `MaxBody` after a body read. The response's `downloadSize` must lie in the abstract result set `CallResults`, which is finite so that TLC can evaluate `ENABLED Complete`. `PayloadInv` bounds it by `MaxBody * (MaxChunks + 1)`.

`RInv == IInv /\ OwnerInv /\ PayloadInv` is inductive. The proof has one lemma per action, on top of two shared lemmas, `StutterStep` and `ReturnStep`. The fairness part of `ImplementsCall` is liveness and stays with TLC.

## Proofs (GzipInflateProofs)

`InflateFaithfulThm` proves `GzipSpec => []InflateFaithful` for every `Buf > 0` and plaintext bound. It holds under `GzipAssumption`. `InflateFaithful` alone is not inductive. `GzipInv` adds four facts:
- `Z_STREAM_END` is only reached on a complete stream that is fully drained;
- the result is only set on exit;
- a corrupt stream is never accepted;
- a complete stream that ends without a memory fault has ended and been accepted.

The proof's key lemma, `InflateResultsFacts`, is zlib's contract as the invariant needs it: how much one call may produce, and which codes each kind of stream can give.

## Proofs (HttpClientProofs)

| Theorem | Statement |
|---|---|
| `ClientTypeCorrect` | `ClientSpec => []ClientTypeOK` |
| `ClientTransportExclusive` | `ClientSpec => []TransportExclusive` |
| `FifoDeliveryThm` | `ClientSpec => []FifoDelivery` |

They hold for every set of callers, every bound and both modes. The assumptions are `HttpRequest`'s four and `ClientAssumption`.

**The inductive invariant.** `CInv == TypeInv /\ ExclInv /\ ClientVarsOK /\ QueueOrder`. TLC checked it as an invariant of the `client_async` configuration (and of a sync-mode configuration, since removed from the runs) before it was proved.
- `TypeInv` and `ExclInv` are reused from `HttpRequestProofs`. A client step changes the request state in one of four ways: a step of `Next`, no change, the `calls` increment of `performRequest`, or the worker entering `request()` with a task's verb and headers. Lemmas `CallsBumpInv` and `WorkerEnterInv` cover the last two.
- `ClientVarsOK` adds that the task the worker holds after popping is a task callers built. This lets the worker's request satisfy `Enter`'s preconditions.
- `QueueOrder` is why `FifoDelivery` needs strengthening. `FifoDelivery` says nothing of the queue or of the popped task, so one step from a state that satisfies it can break it. `QueueOrder` states the exact decomposition of the enqueued ids:
  - while the worker holds a popped task: delivered, then that task, then the queue;
  - otherwise: delivered, then the queue.
  
  After `_stop`, `run()` may drop a popped task unanswered (line 96). At `exit`, only the prefix property is kept.

The proof is one lemma per group of steps (`CallerStepCInv`, `WorkerStepCInv`, `OtherStepCInv`) and their union, `CInvStep`. It uses lemmas on `Ids`, `\o`, `Append` and `SubSeq`, stated once for task ids and resting on `SequenceTheorems`.

## Proofs (HttpClientRefinement)

`QueueRefinement` proves `ClientSpec => ImplementsQueue`, the safety specification of `HttpQueue`. It holds for every set of callers, every bound and both modes. `HttpQueue` is instantiated with this mapping:
- `pending`: `PendingIds`, the task the worker has popped (in `check2` or `request`), then the ids in `_queue`;
- `submitted`: `enqueued`;
- `answered`: `delivered`;
- `closed`: `_stop`.

Under this mapping, each client step is one of these:
- an async `performRequest` is `Submit`;
- the worker's callback is `Answer` of the head;
- the destructor's store of `_stop` is `Close`;
- the worker's return at line 96 with a popped task is `GiveUp`;
- any other step is a stutter. This includes the pop itself (`IdsPop`: the pending list is the same) and `std::terminate`.

`Submit` requires the client not to be closed. That needs `StopInv`: `_stop` is set only once every caller has made all its calls, and no step changes `calls` except one whose count is below `MaxCalls` (`KeepsStop`). `QInv == CInv /\ StopInv` is inductive. TLC checked it on `client_async` before it was proved.

`HttpQueue` promises no liveness. An exception on the worker ends the program, so no task is promised an answer. `EnqueuedHandled` is the liveness TLC checks.

**Out of the prover's reach.** These stay with TLC:
- liveness (`CallsReturn`, `EnqueuedHandled`, `ShutdownCompletes`, `InflateTerminates`, the fairness of `ImplementsCall`), which needs fairness and ENABLED;
- the string properties of `HttpParams`/`WsHttpClient`, which rest on recursive operators (`HexOf`, `PercentDecode`) and on induction over strings.

## Findings

| Source | Run | What |
|---|---|---|
| IXHttpClient.cpp:297 | `request_redirect_hang` | A followed redirect re-locks the non-recursive `_mutex`. |
| IXHttpClient.cpp:38 | `client_shutdown_hang` | Lost wakeup in `~HttpClient`. |
| IXHttpClient.cpp:349 | `request_chunk_junk` | A non-hex chunk size ends the body. |
| IXHttpClient.cpp:315 | `request_exception` | A negative Content-Length throws out of `request()`. |
| IXHttpClient.cpp:556 | `gzip_truncated` | A truncated or empty gzip body is accepted. |
| ws_http_client.cpp:47 | `cli_header_throw` | `substr(pos+2)` throws on a line ending in `:`. |

**Further checks outside the run list.** The run list keeps the hangs, crashes and silent data loss. Five lesser findings have their own property and configuration, and TLC finds each property violated (`tlc -config <cfg> <module>`). They are listed as hazards in `PROJECT.json`:

| Source | Configuration (module) | Property | What |
|---|---|---|---|
| IXHttpClient.cpp:162 | `HttpRequest_accept_dup.cfg` (`MC_HttpRequest`) | `NoDuplicateRequestHeaders` | A caller-supplied Accept is followed by the default Accept (line 162 looks in the response map). |
| IXHttpClient.cpp:478 | `WsHttpClient_urlencode.cfg` (`MC_WsHttpClient`) | `UrlEncodeAsSpecified` | Where `isalnum` accepts byte 0xC3 (undefined behaviour on a signed char), the byte is sent unencoded, against the spec's rule. |
| ws_http_client.cpp:41 | `WsHttpClient_header_value.cfg` (`MC_WsHttpClient`) | `HeaderValueKept` | Lines not written as `Name: value` are mangled by the split at the last `:` and the fixed 2-byte skip: `:k` gives `""`. |
| ws_http_client.cpp:163 | `WsHttpClient_save_empty.cfg` (`MC_WsHttpClient`) | `SaveNeverAborts` | Saving an empty successful payload takes `payload.front()` of an empty string. |
| ws_http_client.cpp:155 | `WsHttpClient_save_name.cfg` (`MC_WsHttpClient`) | `SavedFileNamed` | `-O` with a URL ending in `/` gives an empty file name, so nothing is written. |

## Not modelled

- `log`, which is output only.
- The transport, URL and header parsers, which are outside these sources. zlib is present only as its contract in `GzipInflate`.
- Inside `request()`, the result of `gzipInflate` is still a free choice in `Finish`. `GzipInflate` models the function on its own.
- Header values, the request line and the body text of the request string. `BuildRequest` keeps only the header names.
- Cancellation. `requestInitCancellation` is never set, so `_stop` does not cancel a request in flight. The timeouts are folded into read failures.
- The CLI's printing of headers and sizes, which is output only.

## Plan

1. Compose `GzipInflate` into `Finish` so that a truncated body reaches the caller as `Ok`.
2. Prove an action property for `_mutex`: only a free mutex is taken, and only its holder releases it.
3. Feed `ParseHeaders` of the CLI into `extra` of `HttpRequest`, so that CLI header text reaches `BuildRequest`.
