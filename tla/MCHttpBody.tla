----------------------------- MODULE MCHttpBody ------------------------------
(* A small instance of HttpBody for TLC.                                   *)
EXTENDS HttpBody, SequencesExt

Data(text)  == [data |-> TRUE, text |-> text]
Plain(text) == [data |-> FALSE, text |-> text]
SseLines == {Data(t) : t \in {"", "one", "two", "open", "close", "bare"}}
            \cup {Plain(t) : t \in {"", "noise"}}

\* Every SSE body of up to five lines; some of other kinds.
SomeResponses ==
  [ok : {TRUE}, sse : {TRUE}, declared : {{}}, lines : BoundedSeq(SseLines, 5)]
  \cup [ok : BOOLEAN, sse : BOOLEAN, declared : {{}, {2}, {4}},
        lines : BoundedSeq({Plain("one"), Plain("open"), Plain("close"), Plain("bare"),
                            Plain(""), Data("one"), Plain("bytes")}, 2)]
SomeLimits == {2, 5}
=============================================================================
