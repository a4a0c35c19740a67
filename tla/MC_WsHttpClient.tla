-------------------------- MODULE MC_WsHttpClient --------------------------
EXTENDS WsHttpClient

(* "a://k/v" and "a://k/", the latter with an empty last segment.         *)
MCUrls == {<<"a", ":", "/", "/", "k", "/", "v">>, <<"a", ":", "/", "/", "k", "/">>}
MCUrl == {<<"a", ":", "/", "/", "k", "/", "v">>}
MCOutputs == {<<>>, <<"v">>}
MCNoOutput == {<<>>}

(* -H data: every string of up to 4 bytes over name, ':', ' ', newline.   *)
MCHeaderAll == SeqOf({"k", ":", " ", "\n"}, 4)
(* -H data: the strings of up to 3 of those bytes.                        *)
MCHeaderShort == SeqOf({"k", ":", " ", "\n"}, 3)
MCHeaderFew == {<<>>, <<"k", ":", " ", "v">>, <<"k", ":", "v">>}
MCHeaderNone == {<<>>}
(* -d data: every string of up to 3 bytes over a name, '=', '&', '%',     *)
(* a byte above 0x7F and newline.                                          *)
MCDataAll == SeqOf({"a", "=", "&", "%", "0xC3", "\n"}, 3)
MCDataFew == {<<>>, <<"a", "=", "a">>, <<"a", "=", "0xC3">>}
MCDataNone == {<<>>}
=============================================================================
