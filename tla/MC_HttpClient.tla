---------------------------- MODULE MC_HttpClient ----------------------------
(* Instances of HttpClient for TLC: two callers and the worker.           *)
EXTENDS HttpClient, TLC

CONSTANTS c1, c2, w

MCCallers == {c1, c2}
MCThreads == {c1, c2, w}
MCExtra == {<<>>}
(* Server answers: a 200 whose body is one byte, by Content-Length or     *)
(* chunked; with a Negative length the worker's request throws.           *)
MCLengths == {1}
MCLengthsThrow == {1, Negative}
(* Content-Length or no length header (a chunked body, a 204, or none).  *)
MCLengthsSync == {Absent, 1}
=============================================================================
