--------------------------- MODULE MC_HttpRequest ---------------------------
(* Instances of HttpRequest for TLC: two threads sharing one client.      *)
EXTENDS HttpRequest, TLC

CONSTANTS t1, t2

MCThreads == {t1, t2}
(* One call per thread with no extra headers, or with a Content-Type (so  *)
(* that the POST default is suppressed), or with an Accept header.        *)
MCExtraNone == {<<>>, <<"Content-Type">>}
MCExtraAccept == {<<"Accept">>}
MCExtraEmpty == {<<>>}
(* Content-Length values: none, a number, text that does not parse, and  *)
(* a value payload.reserve rejects.                                       *)
MCLengths == {Absent, 1, Junk, Negative}
MCOneThread == {t1}
=============================================================================
