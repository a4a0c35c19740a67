----------------------------- MODULE HttpParams -----------------------------
(***************************************************************************)
(* The string conversions between the command line and the wire:          *)
(* ws_http_client.cpp's parseHeaders / parsePostParameters / extract-     *)
(* Filename and IXHttpClient.cpp's urlEncode / serializeHttpParameters,   *)
(* with the reference definitions they are checked against.               *)
(*                                                                         *)
(* A std::string is a sequence of bytes; a byte is a one-character string *)
(* (or "0xC3", one byte above 0x7F) drawn from Bytes.  A std::map is a     *)
(* function whose domain is its set of keys.                               *)
(***************************************************************************)
EXTENDS Integers, Sequences, SequencesExt

(* The bytes the inputs are made of, with their values.                   *)
ByteValue ==
    [b \in {"a", "k", "v", "-", "=", "&", "%", ":", " ", "/", "\n", "0xC3"} |->
        CASE b = "a" -> 97 [] b = "k" -> 107 [] b = "v" -> 118 [] b = "-" -> 45
          [] b = "=" -> 61 [] b = "&" -> 38 [] b = "%" -> 37 [] b = ":" -> 58
          [] b = " " -> 32 [] b = "/" -> 47 [] b = "\n" -> 10 [] b = "0xC3" -> 195]
Bytes == DOMAIN ByteValue

HexDigits == <<"0", "1", "2", "3", "4", "5", "6", "7",
               "8", "9", "A", "B", "C", "D", "E", "F">>

(* std::string::rfind(c): the 1-based index of the last c, 0 for npos.    *)
RFind(s, c) == SelectLastInSeq(s, LAMBDA x : x = c)

(* The pieces of s between the separators c (n separators, n+1 pieces).   *)
Split(s, c) ==
    LET seps   == SetToSortSeq({i \in 1..Len(s) : s[i] = c}, LAMBDA x, y : x < y)
        bounds == <<0>> \o seps \o <<Len(s) + 1>>
    IN  [k \in 1..Len(seps) + 1 |-> SubSeq(s, bounds[k] + 1, bounds[k + 1] - 1)]

(* The tokens std::getline(stream, token) yields: the lines of s, the     *)
(* empty piece after a final '\n' (or of an empty s) not being one.       *)
Lines(s) ==
    LET p == Split(s, "\n")
    IN  IF p[Len(p)] = <<>> THEN Front(p) ELSE p

(* extractFilename: what follows the last '/', or the whole path.         *)
ExtractFilename(path) ==
    LET idx == RFind(path, "/")
    IN  IF idx # 0 THEN SubSeq(path, idx + 1, Len(path)) ELSE path

(* The loop shared by parseHeaders and parsePostParameters: for each line *)
(* with a separator sep at its last occurrence pos, map[substr(0, pos)] = *)
(* substr(pos + skip); later lines overwrite earlier ones.                 *)
ParseLines(data, sep, skip) ==
    LET L    == Lines(data)
        pos  == [i \in 1..Len(L) |-> RFind(L[i], sep)]
        used == {i \in 1..Len(L) : pos[i] # 0}
        key  == [i \in used |-> SubSeq(L[i], 1, pos[i] - 1)]
        val  == [i \in used |-> SubSeq(L[i], pos[i] + skip, Len(L[i]))]
        last(k) == Max({i \in used : key[i] = k})
    IN  [k \in {key[i] : i \in used} |-> val[last(k)]]

(* std::string::substr(pos) throws std::out_of_range when pos > size():   *)
(* parseHeaders' substr(pos+2) does on a line whose last ':' ends it.     *)
HeadersThrow(data) ==
    \E i \in 1..Len(Lines(data)) :
        LET line == Lines(data)[i]
        IN  RFind(line, ":") # 0 /\ RFind(line, ":") = Len(line)

ParseHeadersSkip1(data) == ParseLines(data, ":", 1)
ParseHeaders(data) == ParseLines(data, ":", 2)

ParsePostParameters(data) == ParseLines(data, "=", 1)

(* The ostream formatting of int(x) with std::hex, std::uppercase,        *)
(* setw(2) and fill('0').                                                  *)
RECURSIVE HexOf(_)
HexOf(n) == IF n < 16 THEN <<HexDigits[n + 1]>>
            ELSE HexOf(n \div 16) \o <<HexDigits[(n % 16) + 1]>>
HexField(n) == IF n < 16 THEN <<"0">> \o HexOf(n) ELSE HexOf(n)

(* isalnum(c) for the plain char c: well defined for ASCII; for a byte    *)
(* above 0x7F a signed char is negative, which is undefined behaviour:    *)
(* hiAlnum is what the build's isalnum gives for it.                      *)
IsAlnum(b, hiAlnum) ==
    IF ByteValue[b] > 127 THEN hiAlnum ELSE b \in {"a", "k", "v"}

(* The percent-encoding of one byte: '%' then int((unsigned char) c), or  *)
(* the bug the cast prevents: int(c) of a negative char, which std::hex   *)
(* prints as its 32-bit two's complement (FFFFFF then the byte).          *)
EncodedByteSigned(b) ==
    <<"%">> \o (IF ByteValue[b] > 127 THEN <<"F", "F", "F", "F", "F", "F">> ELSE <<>>)
            \o HexField(ByteValue[b])
EncodedByte(b) == <<"%">> \o HexField(ByteValue[b])

(* urlEncode: keep alphanumerics and -_.~, percent-encode the rest.       *)
UrlEncode(s, hiAlnum) ==
    FlattenSeq([i \in 1..Len(s) |->
        IF IsAlnum(s[i], hiAlnum) \/ s[i] \in {"-", "_", ".", "~"}
        THEN <<s[i]>> ELSE EncodedByte(s[i])])

(* std::map's iteration order: keys by lexicographic byte order.          *)
KeyLess(x, y) ==
    \/ Len(x) < Len(y) /\ x = SubSeq(y, 1, Len(x))
    \/ \E i \in 1..Len(x) :
          /\ i <= Len(y)
          /\ SubSeq(x, 1, i - 1) = SubSeq(y, 1, i - 1)
          /\ ByteValue[x[i]] < ByteValue[y[i]]

(* serializeHttpParameters: key=value pairs in map order, joined by '&'   *)
(* (the "i++ < count-1" test puts none after the last).                    *)
SerializeHttpParameters(params, hiAlnum) ==
    LET keys == SetToSortSeq(DOMAIN params, KeyLess)
        n    == Len(keys)
    IN  FlattenSeq([i \in 1..n |->
            UrlEncode(keys[i], hiAlnum) \o <<"=">> \o
            UrlEncode(params[keys[i]], hiAlnum) \o
            (IF i - 1 < n - 1 THEN <<"&">> ELSE <<>>)])

-----------------------------------------------------------------------------
(* Reference definitions, from the spec and from the formats themselves.  *)

(* The spec's URL-encoding rule (4.4): alphanumerics and -_.~ unchanged,  *)
(* every other byte as '%' and two uppercase hex digits.                  *)
SpecUrlEncode(s) ==
    FlattenSeq([i \in 1..Len(s) |->
        IF s[i] \in {"a", "k", "v", "-", "_", ".", "~"}
        THEN <<s[i]>> ELSE <<"%">> \o HexField(ByteValue[s[i]])])

HexValue(d) == CHOOSE v \in 0..15 : HexDigits[v + 1] = d

(* The byte of value v (its number when it is none of Bytes).              *)
ByteOf(v) == IF \E b \in Bytes : ByteValue[b] = v
             THEN CHOOSE b \in Bytes : ByteValue[b] = v ELSE v

(* Percent-decoding: %XX becomes the byte XX, anything else is itself.    *)
RECURSIVE PercentDecode(_)
PercentDecode(s) ==
    IF s = <<>> THEN <<>>
    ELSE IF s[1] = "%" /\ Len(s) >= 3
            /\ s[2] \in ToSet(HexDigits) /\ s[3] \in ToSet(HexDigits)
         THEN LET v == 16 * HexValue(s[2]) + HexValue(s[3])
              IN  <<ByteOf(v)>>
                  \o PercentDecode(SubSeq(s, 4, Len(s)))
         ELSE <<s[1]>> \o PercentDecode(Tail(s))

(* An application/x-www-form-urlencoded body as a server reads it: split  *)
(* on '&', skip empty pieces, name and value split at the first '=',      *)
(* both percent-decoded; a later name wins.                                *)
FormDecode(body) ==
    LET P    == Split(body, "&")
        used == {i \in 1..Len(P) : P[i] # <<>>}
        eq(i) == SelectInSeq(P[i], LAMBDA x : x = "=")
        name(i) == PercentDecode(IF eq(i) = 0 THEN P[i] ELSE SubSeq(P[i], 1, eq(i) - 1))
        value(i) == IF eq(i) = 0 THEN <<>>
                    ELSE PercentDecode(SubSeq(P[i], eq(i) + 1, Len(P[i])))
    IN  [k \in {name(i) : i \in used} |->
            value(Max({i \in used : name(i) = k}))]
=============================================================================
