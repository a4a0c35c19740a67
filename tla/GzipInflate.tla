---------------------------- MODULE GzipInflate ----------------------------
(***************************************************************************)
(* HttpClient::gzipInflate (IXHttpClient.cpp 513-560): the pump loop that  *)
(* feeds the whole compressed payload to zlib's inflate and drains it into *)
(* a kBufferSize scratch buffer until a call leaves the buffer not full.   *)
(*                                                                         *)
(* Sizes are counted in abstract units; Buf is kBufferSize.  The payload   *)
(* is described by what inflate can get out of it: "complete" (a whole    *)
(* gzip member, ends in Z_STREAM_END), "truncated" (a prefix of one: no    *)
(* end, Z_BUF_ERROR once nothing more can be produced), "corrupt" (fails   *)
(* with Z_DATA_ERROR after `total` good units), and `total` units of       *)
(* plaintext.  An empty payload is a truncated one with total = 0.         *)
(***************************************************************************)
EXTENDS Naturals

CONSTANTS
    Buf,        \* kBufferSize, in units
    MaxOut,     \* largest plaintext, in units
    MemFaults   \* whether zlib may report Z_MEM_ERROR

ASSUME GzipAssumption ==
    /\ Buf \in Nat \ {0}
    /\ MaxOut \in Nat
    /\ MemFaults \in BOOLEAN

Kinds == {"complete", "truncated", "corrupt"}

VARIABLES
    kind,       \* what the compressed payload `in` holds
    total,      \* plaintext units inflate can produce from it
    gpc,        \* "init" | "pump" | "done"
    out,        \* units appended to `out` so far
    availOut,   \* inflateState.avail_out after the last inflate call
    ret,        \* the code the last inflate (or inflateInit2) returned
    result      \* gzipInflate's return value, once gpc = "done"

gvars == <<kind, total, gpc, out, availOut, ret, result>>

(* inflate has reached the end of the member and checked its trailer.   *)
Ended == ret = "Z_STREAM_END"

(***************************************************************************)
(* zlib's contract for one inflate(&s, Z_SYNC_FLUSH) call with a fresh     *)
(* buffer of Buf units: the set of <<return code, units produced>> it may  *)
(* give when `r` plaintext units remain.  This is the library, not code of *)
(* the repository.  A complete stream whose last units exactly fill the    *)
(* buffer may stop before reading the trailer (Z_OK) and report the end on *)
(* the next call.                                                          *)
(***************************************************************************)
InflateResults(r) ==
    LET fill == IF r >= Buf THEN Buf ELSE r
        cases ==
          CASE kind = "complete" ->
                 (IF r > Buf THEN {} ELSE {<<"Z_STREAM_END", r>>})
                 \cup (IF r >= Buf THEN {<<"Z_OK", Buf>>} ELSE {})
            [] kind = "truncated" ->
                 IF r = 0 THEN {<<"Z_BUF_ERROR", 0>>} ELSE {<<"Z_OK", fill>>}
            [] kind = "corrupt" ->
                 IF r >= Buf THEN {<<"Z_OK", Buf>>} ELSE {<<"Z_DATA_ERROR", r>>}
    IN  IF Ended THEN {<<"Z_STREAM_END", 0>>}
        ELSE cases \cup (IF MemFaults THEN {<<"Z_MEM_ERROR", 0>>} ELSE {})

GzipInit ==
    /\ kind \in Kinds
    /\ total \in 0..MaxOut
    /\ gpc = "init"
    /\ out = 0
    /\ availOut = 0
    /\ ret = "none"
    /\ result = FALSE

(* inflateInit2(&s, 16+MAX_WBITS); on failure return false (result is    *)
(* still FALSE).                                                           *)
InflateInit ==
    /\ gpc = "init"
    /\ \/ gpc' = "pump" /\ ret' = "Z_OK"
       \/ MemFaults /\ gpc' = "done" /\ ret' = "Z_MEM_ERROR"
    /\ UNCHANGED <<kind, total, out, availOut, result>>

(* The return codes after which gzipInflate gives up and returns false.   *)
InflateFailedNoData(code) == code \in {"Z_NEED_DICT", "Z_MEM_ERROR"}
InflateFailed(code) == code \in {"Z_NEED_DICT", "Z_DATA_ERROR", "Z_MEM_ERROR"}

(* The loop condition: go round again while the buffer was filled.        *)
LoopUntilEnd(code, n) == code # "Z_STREAM_END"
LoopAgain(code, n) == Buf - n = 0

(* One iteration of the do { ... } while loop: reset avail_out, call      *)
(* inflate, bail out with inflateEnd on a fatal code, else append what    *)
(* the buffer got and either go round again or return true.               *)
Pump ==
    /\ gpc = "pump"
    /\ \E res \in InflateResults(total - out) :
         LET code == res[1]
             n    == res[2]
         IN  /\ ret' = code
             /\ \/ /\ InflateFailed(code)
                   /\ gpc' = "done"
                   /\ UNCHANGED <<out, availOut, result>>
                \/ /\ ~InflateFailed(code)
                   /\ out' = out + n
                   /\ availOut' = Buf - n
                   /\ gpc' = IF LoopAgain(code, n) THEN "pump" ELSE "done"
                   /\ result' = ~LoopAgain(code, n)
    /\ UNCHANGED <<kind, total>>

(* gzipInflate returns once gpc = "done"; nothing follows.               *)
GzipNext == InflateInit \/ Pump

(* The loop runs on the calling thread without waiting on anything, so  *)
(* it keeps taking steps; fairness never forces zlib to fail, only the    *)
(* steps that do not run out of memory are required to happen.            *)
GzipFairness ==
    /\ WF_gvars(InflateInit /\ ret' # "Z_MEM_ERROR")
    /\ WF_gvars(Pump /\ ret' # "Z_MEM_ERROR")

GzipSpec == GzipInit /\ [][GzipNext]_gvars /\ GzipFairness

-----------------------------------------------------------------------------

GzipTypeOK ==
    /\ kind \in Kinds
    /\ total \in 0..MaxOut
    /\ gpc \in {"init", "pump", "done"}
    /\ out \in 0..total
    /\ availOut \in 0..Buf
    /\ ret \in {"none", "Z_OK", "Z_STREAM_END", "Z_BUF_ERROR", "Z_DATA_ERROR",
               "Z_MEM_ERROR"}
    /\ result \in BOOLEAN

(* gzipInflate decodes faithfully: when it returns, a complete gzip body   *)
(* has been inflated in full and accepted unless zlib ran out of memory,  *)
(* whatever its size relative to kBufferSize (one buffer, exactly one, a  *)
(* multiple of it), and a corrupt one is never accepted.                  *)
InflateFaithful ==
    gpc = "done" =>
        /\ kind = "complete" /\ ret # "Z_MEM_ERROR" => result /\ out = total
        /\ kind = "corrupt" => ~result

(* The pump loop always ends: every payload, whole, cut short or corrupt, *)
(* eventually makes gzipInflate return.                                    *)
InflateTerminates == <>(gpc = "done")

(* The spec (4.5, 8) says the body decompresses to the original bytes and *)
(* bad gzip input yields the Gzip error: gzipInflate returns true only     *)
(* after inflate has reached the end of the gzip member and checked its   *)
(* trailer.                                                                *)
AcceptsOnlyWholeStream ==
    gpc = "done" /\ result => Ended
=============================================================================
