------------------------------ MODULE NativeCalls ------------------------------
(*********************************************************************************)
(* Tool calls a model writes into its text, between <tool_call> and </tool_call>, *)
(* found in a stream of chunks (OpenAIProvider._stream_request) and in a whole    *)
(* text (_batch_request).  A text is a sequence of symbols: "o" and "p" stand for *)
(* the two halves of the opening tag, "c" and "d" for those of the closing tag,   *)
(* "b" for a body that names a function, any other symbol for other text.         *)
(*********************************************************************************)
EXTENDS Naturals, Sequences, SequencesExt, FiniteSetsExt

CONSTANT Symbols   \* what texts are made of

ASSUME SymbolsAssumption == {"o", "p", "c", "d", "b"} \subseteq Symbols

Texts == Seq(Symbols)

OpenTag == <<"o", "p">>
CloseTag == <<"c", "d">>

\* The places where tag stands in s, as the number of symbols before it.
Places(s, tag) ==
  {i \in 0 .. Len(s) : i + Len(tag) <= Len(s) /\ SubSeq(s, i + 1, i + Len(tag)) = tag}
Has(s, tag) == Places(s, tag) # {}
BeforeTag(s, tag) == SubSeq(s, 1, Min(Places(s, tag)))
AfterTag(s, tag) == SubSeq(s, Min(Places(s, tag)) + Len(tag) + 1, Len(s))

\* _parse_native_tool_call finds a function in body.
Parsable(body) == "b" \in ToSet(body)

\* The events of a provider: text, a call found in the text, or call i of the server's
\* own with n fragments of arguments.
Event(kind, body, i, n) == [kind |-> kind, body |-> body, call |-> i, n |-> n]
Text(body) == Event("text", body, 0, 0)
Native(body) == Event("native", body, 0, 0)
Call(i, n) == Event("call", <<>>, i, n)

\* A body between two tags, or behind an opening tag that nothing closed.
Between(body) == IF Parsable(body) THEN Native(body) ELSE Text(OpenTag \o body \o CloseTag)
Unclosed(body) == IF Parsable(body) THEN Native(body) ELSE Text(OpenTag \o body)

--------------------------------------------------------------------------------
(* The parser of a stream: text_buf, in_tool_call, tool_buf, and what it yielded *)

Fresh == [text |-> <<>>, inside |-> FALSE, tool |-> <<>>, out |-> <<>>]

Closing(p) ==
  IF ~Has(p.tool, CloseTag) THEN p
  ELSE [text |-> p.text \o AfterTag(p.tool, CloseTag), inside |-> FALSE, tool |-> <<>>,
        out |-> Append(p.out, Between(BeforeTag(p.tool, CloseTag)))]

Opening(p) ==
  LET before == BeforeTag(p.text, OpenTag)
  IN Closing([text |-> <<>>, inside |-> TRUE, tool |-> AfterTag(p.text, OpenTag),
              out |-> IF before = <<>> THEN p.out ELSE Append(p.out, Text(before))])

\* All but as many symbols as an opening tag has, which may be the beginning of one.
FlushMutant(p) ==
  IF Len(p.text) <= 1 THEN p
  ELSE LET k == Len(p.text) - 1
       IN [p EXCEPT !.text = SubSeq(@, k + 1, Len(@)),
                    !.out = Append(@, Text(SubSeq(p.text, 1, k - 1)))]

Flush(p) ==
  IF Len(p.text) <= Len(OpenTag) THEN p
  ELSE LET k == Len(p.text) - Len(OpenTag)
       IN [p EXCEPT !.text = SubSeq(@, k + 1, Len(@)),
                    !.out = Append(@, Text(SubSeq(p.text, 1, k)))]

ChunkMutant(p, c) ==
  IF p.inside THEN Closing([p EXCEPT !.tool = @ \o c])
  ELSE LET q == [p EXCEPT !.text = @ \o c]
       IN IF Has(c, OpenTag) THEN Opening(q) ELSE Flush(q)

Chunk(p, c) ==
  IF p.inside THEN Closing([p EXCEPT !.tool = @ \o c])
  ELSE LET q == [p EXCEPT !.text = @ \o c]
       IN IF Has(q.text, OpenTag) THEN Opening(q) ELSE Flush(q)

\* The reason to finish arrives: the buffers are emptied.
Finished(p) ==
  [Fresh EXCEPT !.out =
     CASE p.inside /\ p.tool # <<>> -> Append(p.out, Unclosed(p.tool))
       [] p.text # <<>> -> Append(p.out, Text(p.text))
       [] OTHER -> p.out]

TextOf(events) ==
  FlattenSeq([i \in DOMAIN events |-> IF events[i].kind = "text" THEN events[i].body ELSE <<>>])
NativesOf(events) ==
  FlattenSeq([i \in DOMAIN events |->
    IF events[i].kind = "native" THEN <<events[i].body>> ELSE <<>>])

\* What the server wrote to make the parser yield events.
Written(events) ==
  FlattenSeq([i \in DOMAIN events |->
    IF events[i].kind = "native" THEN OpenTag \o events[i].body \o CloseTag ELSE events[i].body])

--------------------------------------------------------------------------------
(* The whole text at once *)

Batch(s) ==
  LET from[i \in 0 .. Len(s)] ==
        LET r == SubSeq(s, i + 1, Len(s)) IN
        IF ~Has(r, OpenTag) \/ ~Has(AfterTag(r, OpenTag), CloseTag)
          THEN [text |-> r, natives |-> <<>>]
          ELSE LET before == BeforeTag(r, OpenTag)
                   body == BeforeTag(AfterTag(r, OpenTag), CloseTag)
                   raw == OpenTag \o body \o CloseTag
                   rest == from[i + Len(before) + Len(raw)]
               IN IF Parsable(body)
                    THEN [text |-> before \o rest.text, natives |-> <<body>> \o rest.natives]
                    ELSE [rest EXCEPT !.text = before \o raw \o @]
  IN from[0]
================================================================================
