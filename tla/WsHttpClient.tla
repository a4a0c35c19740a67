---------------------------- MODULE WsHttpClient ----------------------------
(***************************************************************************)
(* ws_http_client_main (ws_http_client.cpp 85-182), the `ws curl` command: *)
(* parse the -H headers and the -d parameters, pick HEAD, GET or POST,     *)
(* make one synchronous HttpClient call and print or save its response.   *)
(*                                                                         *)
(* The call itself is modelled in HttpRequest; here its outcome is any of *)
(* those request() can return for the verb: Ok or an error, an empty or a *)
(* non-empty payload (always empty for HEAD, which returns before the     *)
(* body), with or without Content-Type: application/octet-stream.          *)
(***************************************************************************)
EXTENDS HttpParams

CONSTANTS
    HeaderInputs,    \* the strings tried as -H data
    DataInputs,      \* the strings tried as -d data
    Urls,            \* the URLs tried
    Outputs,         \* the --output values tried (<<>> when absent)
    HiAlnumChoices,  \* what isalnum may give for a byte above 0x7F
    FrontOnEmpty     \* what payload.front() on an empty string may do

ASSUME CliAssumption ==
    /\ HiAlnumChoices \subseteq BOOLEAN /\ HiAlnumChoices # {}
    /\ FrontOnEmpty \subseteq {"done", "aborted"} /\ FrontOnEmpty # {}

NoMap == [k \in {} |-> <<>>]

VARIABLES
    args,     \* the command line: url, -H data, -d data, flags, --output
    hiAlnum,  \* this build's isalnum on a byte above 0x7F
    cpc,      \* "parse" | "request" | "output" | "done" | "thrown" | "aborted"
    headers,  \* args->extraHeaders
    params,   \* httpParameters
    verb,     \* the HttpClient entry point called
    body,     \* the request body that call sends
    resp,     \* what it returned
    file      \* {the file name opened for the payload}, {} if none

cliVars == <<args, hiAlnum, cpc, headers, params, verb, body, resp, file>>

Args == [url : Urls, headersData : HeaderInputs, data : DataInputs,
         headersOnly : BOOLEAN, save : BOOLEAN, output : Outputs]

(* What request() can return for each verb, as far as main looks at it.   *)
Responses(v) ==
    [err : {"Ok", "Fail"}, empty : IF v = "HEAD" THEN {TRUE} ELSE BOOLEAN,
     octet : BOOLEAN]

CliInit ==
    /\ args \in Args
    /\ hiAlnum \in HiAlnumChoices
    /\ cpc = "parse"
    /\ headers = NoMap
    /\ params = NoMap
    /\ verb = "none"
    /\ body = <<>>
    /\ resp = [err |-> "none", empty |-> TRUE, octet |-> FALSE]
    /\ file = {}

(* Lines 98-118: extraHeaders = parseHeaders(headersData), whose          *)
(* std::out_of_range nobody catches, then parsePostParameters(data).      *)
ParseArgs ==
    /\ cpc = "parse"
    /\ \/ /\ HeadersThrow(args.headersData)
          /\ cpc' = "thrown"
          /\ UNCHANGED <<headers, params>>
       \/ /\ ~HeadersThrow(args.headersData)
          /\ headers' = ParseHeaders(args.headersData)
          /\ params' = ParsePostParameters(args.data)
          /\ cpc' = "request"
    /\ UNCHANGED <<args, hiAlnum, verb, body, resp, file>>

(* Lines 120-148: head() with -I, get() without data, else post() with    *)
(* the parameters, which request() sends as serializeHttpParameters.      *)
Request ==
    /\ cpc = "request"
    /\ verb' = CASE args.headersOnly   -> "HEAD"
                 [] args.data = <<>>  -> "GET"
                 [] OTHER             -> "POST"
    /\ body' = IF verb' = "POST" THEN SerializeHttpParameters(params, hiAlnum)
               ELSE <<>>
    /\ resp' \in Responses(verb')
    /\ cpc' = "output"
    /\ UNCHANGED <<args, hiAlnum, headers, params, file>>

(* Lines 150-152: a successful GET or POST is saved with -O or --output.  *)
Saves == ~args.headersOnly /\ resp.err = "Ok" /\ (args.save \/ args.output # <<>>)

(* Lines 152-165: open --output, or the URL's last segment, and write     *)
(* payload.size() bytes from &payload.front(), which on an empty payload  *)
(* is undefined behaviour (an assertion failure in checked builds).       *)
SavePayload ==
    /\ cpc = "output"
    /\ Saves
    /\ file' = {IF args.output # <<>> THEN args.output ELSE ExtractFilename(args.url)}
    /\ cpc' \in IF resp.empty THEN FrontOnEmpty ELSE {"done"}
    /\ UNCHANGED <<args, hiAlnum, headers, params, verb, body, resp>>

(* Lines 166-181: print the payload (or a warning for binary content),    *)
(* or nothing after HEAD or an error, and return 0.                       *)
PrintPayload ==
    /\ cpc = "output"
    /\ ~Saves
    /\ cpc' = "done"
    /\ UNCHANGED <<args, hiAlnum, headers, params, verb, body, resp, file>>

(* The process exits in "done", "thrown" or "aborted".                    *)
CliNext == ParseArgs \/ Request \/ SavePayload \/ PrintPayload

CliSpec == CliInit /\ [][CliNext]_cliVars

-----------------------------------------------------------------------------

CliTypeOK ==
    /\ args \in Args
    /\ cpc \in {"parse", "request", "output", "done", "thrown", "aborted"}
    /\ verb \in {"none", "HEAD", "GET", "POST"}
    /\ resp \in Responses(verb) \cup {[err |-> "none", empty |-> TRUE, octet |-> FALSE]}
    /\ file \subseteq Outputs \cup {ExtractFilename(u) : u \in Urls}

Parsed == cpc \notin {"parse", "thrown"}

(* s without its leading spaces.                                          *)
LeftTrim(s) ==
    LET f == SelectInSeq(s, LAMBDA x : x # " ")
    IN  IF f = 0 THEN <<>> ELSE SubSeq(s, f, Len(s))

(* A header line as HTTP reads it: the name up to the first ':', the      *)
(* value after it with leading spaces dropped; lines without ':' skipped, *)
(* a later name wins.                                                      *)
RefHeaders(data) ==
    LET L    == Lines(data)
        used == {i \in 1..Len(L) : Contains(L[i], ":")}
        col(i)   == SelectInSeq(L[i], LAMBDA x : x = ":")
        name(i)  == SubSeq(L[i], 1, col(i) - 1)
        value(i) == LeftTrim(SubSeq(L[i], col(i) + 1, Len(L[i])))
    IN  [k \in {name(i) : i \in used} |-> value(Max({i \in used : name(i) = k}))]

(* Every header line has at most one ':', followed by exactly one space.   *)
CanonicalHeaders(data) ==
    \A i \in 1..Len(Lines(data)) :
        LET line == Lines(data)[i]
            c == SelectInSeq(line, LAMBDA x : x = ":")
        IN  c # 0 => /\ c < Len(line) /\ line[c + 1] = " "
                     /\ c + 2 <= Len(line) => line[c + 2] # " "
                     /\ RFind(line, ":") = c

(* parseHeaders turns `-H "Name: value"` lines, one header per line (the  *)
(* last of a name winning), into exactly the headers HTTP would read from *)
(* them, whenever every line is written with one ':' and one space.       *)
HeadersAgreeWithReference ==
    Parsed /\ CanonicalHeaders(args.headersData) =>
        headers = RefHeaders(args.headersData)

(* The same for every header line: a value holding a ':' (a URL, a       *)
(* host:port) or written without one space after the name's ':' is sent  *)
(* under its name, as the user wrote it.                                  *)
HeaderValueKept ==
    Parsed => headers = RefHeaders(args.headersData)

(* A -H line without the value (ending in ':') is skipped or rejected,    *)
(* like a line without ':' (the "Bail out" test at line 44), instead of   *)
(* ending the program with an uncaught exception.                         *)
HeadersNeverThrow == cpc # "thrown"

(* The -d parameters reach the server intact: decoding the POST body the  *)
(* way a form server does gives back exactly the map parsePostParameters  *)
(* built, whatever bytes the keys and values hold ('&', '=', '%', bytes   *)
(* above 0x7F) and whatever isalnum does with the latter.                 *)
ParamsRoundTrip ==
    verb = "POST" => FormDecode(body) = params

(* The spec's URL-encoding rule: every key and value is encoded with      *)
(* alphanumerics and -_.~ kept and every other byte as %XX.                *)
UrlEncodeAsSpecified ==
    verb = "POST" =>
        \A k \in DOMAIN params :
            /\ UrlEncode(k, hiAlnum) = SpecUrlEncode(k)
            /\ UrlEncode(params[k], hiAlnum) = SpecUrlEncode(params[k])

(* Saving a successful response never crashes the program, whatever the   *)
(* payload's size.                                                        *)
SaveNeverAborts == cpc # "aborted"

(* A saved response goes to a file with a name: with -O and no --output   *)
(* the URL's last path segment is never empty.                            *)
SavedFileNamed == <<>> \notin file
=============================================================================
