------------------------------ MODULE HttpBody -------------------------------
(***************************************************************************)
(* One HttpTransport::request from the response's status line on           *)
(* (src/mcp/transport/http.rs:96-167): the size checks, the body read      *)
(* chunk by chunk, and the JSON-RPC response found in it, by parse_sse or  *)
(* as one document.  A body is a sequence of lines of size 1; a line is    *)
(* whether it begins with "data:", and the text after it.  "open" and      *)
(* "close" are the halves of a response, "bare" parses as a response with  *)
(* neither result nor error, "bytes" is not UTF-8, "noise" anything else.  *)
(***************************************************************************)
EXTENDS Naturals, Sequences, FiniteSets

CONSTANTS
  Responses,  \* what the server may send: [ok, sse, declared, lines];
              \* declared is {} or the set of its Content-Length
  Limits      \* the values of max_response_bytes

Text == {"", "one", "two", "open", "close", "bare", "bytes", "noise"}
Line == [data : BOOLEAN, text : Text]
Failure == {"status", "large", "read", "decode"}

ASSUME LimitsAssumption == Limits \subseteq Nat

ASSUME ResponsesAssumption ==
  \A r \in Responses : r.lines \in Seq(Line) /\ r.declared \subseteq Nat

VARIABLES
  sent,     \* the member of Responses the server sends
  max,      \* max_response_bytes
  step,     \* "headers", "body", "done"
  rest,     \* lines still on their way
  total,    \* the size counted so far
  body,     \* body_bytes
  outcome   \* {} until request() returns: its result

vars == <<sent, max, step, rest, total, body, outcome>>

Init ==
  /\ sent \in Responses /\ max \in Limits
  /\ step = "headers"
  /\ rest = sent.lines
  /\ total = 0
  /\ body = <<>>
  /\ outcome = {}

-----------------------------------------------------------------------------
(* Decoding.                                                               *)

\* serde_json on the texts joined by newlines: {} or the response.
FromJson(texts) ==
  LET said == {i \in DOMAIN texts : texts[i] # ""}
  IN  CASE \E i, j \in said : /\ i < j /\ said = {i, j}
                              /\ texts[i] = "open" /\ texts[j] = "close" -> {"one"}
        [] \E i \in said : said = {i} -> {texts[i] : i \in said} \cap {"one", "two", "bare"}
        [] OTHER -> {}

\* try_parse: a response with a result or an error.
TryParse(event) == FromJson(event) \ {"bare"}

\* Mutated form: the lines of an event that did not parse are kept.
SseLineKeeps(state, line) ==
  IF state.found # {} THEN state
  ELSE IF line.data THEN [state EXCEPT !.event = Append(@, line.text)]
  ELSE IF line.text = "" THEN [state EXCEPT !.found = TryParse(state.event)]
  ELSE state

\* One line of parse_sse's loop; other fields and comments are skipped.
SseLine(state, line) ==
  IF state.found # {} THEN state
  ELSE IF line.data THEN [state EXCEPT !.event = Append(@, line.text)]
  ELSE IF line.text = "" THEN [event |-> <<>>, found |-> TryParse(state.event)]
  ELSE state

\* The loop: the data of the event being read and the response found, after i lines.
SseLoop(lines) ==
  LET state[i \in 0 .. Len(lines)] ==
        IF i = 0 THEN [event |-> <<>>, found |-> {}] ELSE SseLine(state[i - 1], lines[i])
  IN  state

\* An event that the end of the body cuts short counts too.
ParseSse(lines) ==
  LET end == SseLoop(lines)[Len(lines)]
  IN  IF end.found # {} THEN end.found ELSE TryParse(end.event)

\* The document of a body that is not SSE; "data:" is no JSON.
Document(lines) ==
  [i \in DOMAIN lines |-> IF lines[i].data THEN "noise" ELSE lines[i].text]

Utf8(lines) == \A i \in DOMAIN lines : lines[i].text # "bytes"

Decoded(lines) ==
  LET found == IF sent.sse THEN ParseSse(lines) ELSE FromJson(Document(lines))
  IN  IF Utf8(lines) /\ found # {} THEN found ELSE {"decode"}

-----------------------------------------------------------------------------
(* Receiving.                                                              *)

Return(result) == step' = "done" /\ outcome' = result

\* The status, and the fast path on Content-Length.
HeadersArrive ==
  /\ step = "headers"
  /\ IF ~sent.ok THEN Return({"status"})
     ELSE IF \E n \in sent.declared : n > max THEN Return({"large"})
     ELSE step' = "body" /\ outcome' = outcome
  /\ UNCHANGED <<sent, max, rest, total, body>>

\* Mutated form: each chunk is measured by itself.
CountedAlone(n) == n

Counted(n) == total + n

\* A chunk of n lines, which need not be whole events.
ChunkArrives(n) ==
  /\ step = "body" /\ n \in 1 .. Len(rest)
  /\ rest' = SubSeq(rest, n + 1, Len(rest))
  /\ total' = Counted(n)
  /\ IF total' > max
     THEN Return({"large"}) /\ body' = body
     ELSE body' = body \o SubSeq(rest, 1, n) /\ UNCHANGED <<step, outcome>>
  /\ UNCHANGED <<sent, max>>

BodyEnds ==
  /\ step = "body" /\ rest = <<>>
  /\ \A n \in sent.declared : n = Len(sent.lines)
  /\ Return(Decoded(body))
  /\ UNCHANGED <<sent, max, rest, total, body>>

\* Mutated form: a body that breaks off is no error.
BodyBreaksQuietly ==
  /\ step = "body"
  /\ step' = "done"
  /\ UNCHANGED <<sent, max, rest, total, body, outcome>>

\* The connection breaks, the body is shorter than declared, or REQUEST_TIMEOUT.
BodyBreaks ==
  /\ step = "body"
  /\ Return({"read"})
  /\ UNCHANGED <<sent, max, rest, total, body>>

Next == HeadersArrive \/ (\E n \in 1 .. Len(rest) : ChunkArrives(n)) \/ BodyEnds \/ BodyBreaks

Spec == Init /\ [][Next]_vars

-----------------------------------------------------------------------------
(* Properties.                                                             *)

\* The shape of a request under way (http.rs:131-145).
TypeOK ==
  /\ sent.lines \in Seq(Line) /\ max \in Limits
  /\ step \in {"headers", "body", "done"}
  /\ rest \in Seq(Line) /\ body \in Seq(Line) /\ total \in Nat
  /\ outcome \subseteq {"one", "two", "bare"} \cup Failure
  /\ Cardinality(outcome) = IF step = "done" THEN 1 ELSE 0

\* "accumulating with a size cap" (http.rs:131): however the server cuts
\* the body, no more than max_response_bytes of it is ever kept.
KeepsAtMostMax == Len(body) <= max

Blank(lines, i) == ~lines[i].data /\ lines[i].text = ""

\* The events of a body as the stretches between its blank lines, found
\* without reading it line by line.
Stretches(lines) ==
  {s \in (1 .. Len(lines)) \X (1 .. Len(lines)) :
     /\ s[1] <= s[2] /\ \A i \in s[1] .. s[2] : ~Blank(lines, i)
     /\ s[1] = 1 \/ Blank(lines, s[1] - 1)
     /\ s[2] = Len(lines) \/ Blank(lines, s[2] + 1)}

\* The texts of the data lines of a stretch: the k-th is the one with k of them
\* up to it.
DataOf(lines, s) ==
  LET upTo(i) == {j \in s[1] .. i : lines[j].data}
  IN  [k \in 1 .. Cardinality(upTo(s[2])) |->
         lines[CHOOSE i \in upTo(s[2]) : Cardinality(upTo(i)) = k].text]

FirstResponse(lines) ==
  LET good == {s \in Stretches(lines) : TryParse(DataOf(lines, s)) # {}}
  IN  IF good = {} THEN {}
      ELSE TryParse(DataOf(lines, CHOOSE s \in good : \A t \in good : s[1] <= t[1]))

\* "returns the first that parses to a response carrying a result or error"
\* (http.rs:180-182): what request() returns of an SSE body is the response of
\* its first event that holds one, however the body was cut into chunks; it
\* fails to decode only a whole body without one, and calls one too large only
\* if it is, or says it is, larger than the limit.
FirstResponseReturned ==
  step = "done" /\ sent.ok =>
    /\ outcome = {"large"} <=> \/ \E n \in sent.declared : n > max
                               \/ Len(sent.lines) - Len(rest) > max
    /\ sent.sse /\ outcome \cap {"one", "two", "bare", "decode"} # {} =>
         /\ rest = <<>>
         /\ outcome = IF Utf8(sent.lines) /\ FirstResponse(sent.lines) # {}
                      THEN FirstResponse(sent.lines) ELSE {"decode"}
=============================================================================
