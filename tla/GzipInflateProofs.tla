------------------------- MODULE GzipInflateProofs -------------------------
(***************************************************************************)
(* Proofs about the gzipInflate pump loop for every kBufferSize and every *)
(* plaintext size.                                                         *)
(***************************************************************************)
EXTENDS GzipInflate, TLAPS

(* The strengthening of InflateFaithful: reaching Z_STREAM_END means a    *)
(* complete stream has been drained in full, the loop only returns true   *)
(* through the end of a complete stream or a short buffer, and a corrupt  *)
(* stream never gets past its bad data.                                    *)
GzipInv ==
    /\ GzipTypeOK
    /\ Ended => kind = "complete" /\ out = total
    /\ result => gpc = "done"
    /\ kind = "corrupt" => ~result
    /\ gpc = "done" /\ kind = "complete" /\ ret # "Z_MEM_ERROR" =>
           result /\ Ended

LEMMA GzipInitInv == GzipInit => GzipInv
<1> SUFFICES ASSUME GzipInit PROVE GzipInv
  OBVIOUS
<1>1. GzipTypeOK
  <2>1. kind \in Kinds /\ total \in 0..MaxOut /\ gpc \in {"init", "pump", "done"}
    BY DEF GzipInit
  <2>2. out \in 0..total /\ availOut \in 0..Buf
    BY GzipAssumption DEF GzipInit
  <2>3. ret \in {"none", "Z_OK", "Z_STREAM_END", "Z_BUF_ERROR", "Z_DATA_ERROR",
                 "Z_MEM_ERROR"} /\ result \in BOOLEAN
    BY DEF GzipInit
  <2>4. QED
    BY <2>1, <2>2, <2>3 DEF GzipTypeOK
<1>2. ~Ended /\ ~result /\ gpc = "init"
  BY DEF GzipInit, Ended
<1>3. QED
  BY <1>1, <1>2 DEF GzipInv

LEMMA InflateInitInv == GzipInv /\ InflateInit => GzipInv'
BY GzipAssumption DEF GzipInv, GzipTypeOK, InflateInit, Ended

(* What one inflate call may return, as far as the invariant needs it.    *)
LEMMA InflateResultsFacts ==
    ASSUME GzipInv, gpc = "pump", NEW res \in InflateResults(total - out)
    PROVE  /\ res[2] \in 0..(total - out)
           /\ res[2] <= Buf
           /\ res[1] \in {"Z_OK", "Z_STREAM_END", "Z_BUF_ERROR",
                          "Z_DATA_ERROR", "Z_MEM_ERROR"}
           /\ res[1] = "Z_STREAM_END" => kind = "complete" /\ res[2] = total - out
           /\ kind = "complete" =>
                  /\ res[1] \in {"Z_OK", "Z_STREAM_END", "Z_MEM_ERROR"}
                  /\ res[1] = "Z_OK" => res[2] = Buf
           /\ kind = "corrupt" /\ res[1] # "Z_DATA_ERROR" /\ res[1] # "Z_MEM_ERROR" =>
                  res[2] = Buf
BY GzipAssumption DEF GzipInv, GzipTypeOK, InflateResults, Ended, Kinds

LEMMA PumpInv == GzipInv /\ Pump => GzipInv'
<1> SUFFICES ASSUME GzipInv, Pump PROVE GzipInv'
  OBVIOUS
<1>1. PICK res \in InflateResults(total - out) :
        /\ ret' = res[1]
        /\ \/ /\ InflateFailed(res[1])
              /\ gpc' = "done"
              /\ UNCHANGED <<out, availOut, result>>
           \/ /\ ~InflateFailed(res[1])
              /\ out' = out + res[2]
              /\ availOut' = Buf - res[2]
              /\ gpc' = IF LoopAgain(res[1], res[2]) THEN "pump" ELSE "done"
              /\ result' = ~LoopAgain(res[1], res[2])
  BY DEF Pump
<1>2. /\ gpc = "pump"
      /\ UNCHANGED <<kind, total>>
  BY DEF Pump
<1>3. /\ res[2] \in 0..(total - out)
      /\ res[2] <= Buf
      /\ res[1] \in {"Z_OK", "Z_STREAM_END", "Z_BUF_ERROR",
                     "Z_DATA_ERROR", "Z_MEM_ERROR"}
      /\ res[1] = "Z_STREAM_END" => kind = "complete" /\ res[2] = total - out
      /\ kind = "complete" =>
             /\ res[1] \in {"Z_OK", "Z_STREAM_END", "Z_MEM_ERROR"}
             /\ res[1] = "Z_OK" => res[2] = Buf
      /\ kind = "corrupt" /\ res[1] # "Z_DATA_ERROR" /\ res[1] # "Z_MEM_ERROR" =>
             res[2] = Buf
  BY <1>1, <1>2, InflateResultsFacts
<1>4. CASE InflateFailed(res[1])
  <2>1. ret' = "Z_DATA_ERROR" \/ ret' = "Z_MEM_ERROR" \/ ret' = "Z_NEED_DICT"
    BY <1>1, <1>4 DEF InflateFailed
  <2>2. ret' \in {"Z_DATA_ERROR", "Z_MEM_ERROR"}
    BY <1>1, <1>3, <2>1
  <2>3. gpc' = "done" /\ UNCHANGED <<out, availOut, result, kind, total>>
    BY <1>1, <1>2, <1>4 DEF InflateFailed
  <2>4. GzipTypeOK'
    BY <2>2, <2>3 DEF GzipInv, GzipTypeOK
  <2>5. kind = "complete" => ret' = "Z_MEM_ERROR"
    BY <1>1, <1>3, <2>2
  <2>6. ~Ended'
    BY <2>2 DEF Ended
  <2>7. QED
    BY <2>3, <2>4, <2>5, <2>6 DEF GzipInv
<1>5. CASE ~InflateFailed(res[1])
  <2> DEFINE n == res[2]
  <2>1. /\ out' = out + n
        /\ availOut' = Buf - n
        /\ gpc' = IF n = Buf THEN "pump" ELSE "done"
        /\ result' = (n # Buf)
    BY <1>1, <1>3, <1>5, GzipAssumption DEF InflateFailed, LoopAgain
  <2>2. res[1] \in {"Z_OK", "Z_STREAM_END", "Z_BUF_ERROR"}
    BY <1>3, <1>5 DEF InflateFailed
  <2>3. GzipTypeOK'
    <3>1. out' \in 0..total' /\ availOut' \in 0..Buf
      BY <1>2, <1>3, <2>1, GzipAssumption DEF GzipInv, GzipTypeOK
    <3>2. gpc' \in {"init", "pump", "done"} /\ result' \in BOOLEAN
      BY <2>1
    <3>3. QED
      BY <1>1, <1>2, <2>2, <3>1, <3>2 DEF GzipInv, GzipTypeOK
  <2>4. Ended' => kind' = "complete" /\ out' = total'
    BY <1>1, <1>2, <1>3, <2>1, GzipAssumption DEF GzipInv, GzipTypeOK, Ended
  <2>5. result' => gpc' = "done"
    BY <2>1
  <2>6. kind' = "corrupt" => ~result'
    BY <1>1, <1>2, <1>3, <2>1, <2>2
  <2>7. gpc' = "done" /\ kind' = "complete" /\ ret' # "Z_MEM_ERROR" =>
            result' /\ Ended'
    BY <1>1, <1>2, <1>3, <2>1 DEF Ended
  <2>8. QED
    BY <2>3, <2>4, <2>5, <2>6, <2>7 DEF GzipInv
<1>6. QED
  BY <1>4, <1>5

LEMMA GzipStepInv == GzipInv /\ [GzipNext]_gvars => GzipInv'
<1> SUFFICES ASSUME GzipInv, [GzipNext]_gvars PROVE GzipInv'
  OBVIOUS
<1>1. CASE InflateInit
  BY <1>1, InflateInitInv
<1>2. CASE Pump
  BY <1>2, PumpInv
<1>3. CASE UNCHANGED gvars
  BY <1>3 DEF GzipInv, GzipTypeOK, Ended, gvars
<1>4. QED
  BY <1>1, <1>2, <1>3 DEF GzipNext

(* For every kBufferSize and payload, gzipInflate accepts a complete gzip *)
(* body only after draining all of it, accepts it unless zlib runs out of *)
(* memory, and never accepts a corrupt one.                               *)
THEOREM InflateFaithfulThm == GzipSpec => []InflateFaithful
<1>1. GzipInv => InflateFaithful
  BY DEF GzipInv, InflateFaithful, Ended
<1>2. QED
  BY <1>1, GzipInitInv, GzipStepInv, PTL DEF GzipSpec
=============================================================================
