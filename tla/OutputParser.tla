------------------------------ MODULE OutputParser ------------------------------
(***************************************************************************)
(* The streaming parser of a model's answer (llm/output_parser.py), as     *)
(* stream_response of llm/claude.py drives it: deltas of any length come,  *)
(* each is fed, and every iteration of _process is a step, since the       *)
(* generator may be suspended at a block it yields.                        *)
(*                                                                         *)
(* A character tells what it belongs to: the i-th of the opening or of the *)
(* closing tag of a type, a blank, or the i-th of the answer.  A tag's     *)
(* attributes are part of its length.  The parsing of JSON in a block is   *)
(* a function of its stripped content and left out, and so is a `<` that   *)
(* begins no tag.                                                          *)
(***************************************************************************)
EXTENDS Naturals, Sequences, SequencesExt, FiniteSetsExt

CONSTANTS
  Tag,        \* the types of block
  NoTag,
  OpenLen,    \* Tag -> the length of its opening tag, attributes included
  CloseLen,   \* Tag -> len("</TAG>")
  Keep,       \* 50, what is kept of the buffer while no tag is open
  Answers     \* what the model may say

ASSUME ParserAssumption ==
  /\ OpenLen \in [Tag -> Nat \ {0}] /\ CloseLen \in [Tag -> Nat \ {0}]
  /\ NoTag \notin Tag /\ Keep \in Nat

VARIABLES
  answer,   \* the whole answer
  fed,      \* how much of it came
  stage,    \* "reading", "processing", "flushed", "done"
  buf,      \* _buf
  tag,      \* _in_tag
  content,  \* _tag_content
  text,     \* _text_buf
  out,      \* the blocks yielded from the text
  last      \* what follows them: tool calls, or a text that tells the error

parserVars == <<answer, fed, stage, buf, tag, content, text, out, last>>

Open(t) == [i \in 1..OpenLen[t] |-> <<"open", t, i>>]
Close(t) == [i \in 1..CloseLen[t] |-> <<"close", t, i>>]

From(s, i) == SubSeq(s, i, Len(s))

\* where w is found in s, and the first opening tag in s
Places(s, w) == {i \in 1..Len(s) : IsPrefix(w, From(s, i))}
Opens(s) == UNION {{[at |-> i, tag |-> t] : i \in Places(s, Open(t))} : t \in Tag}
FirstOpen(s) == CHOOSE o \in Opens(s) : \A q \in Opens(s) : o.at <= q.at

\* strip(), and the text block of what is not blank
Inked(s) == {i \in DOMAIN s : s[i][1] # "blank"}
Strip(s) == IF Inked(s) = {} THEN <<>> ELSE SubSeq(s, Min(Inked(s)), Max(Inked(s)))
ParsedBlock(type, s) == [type |-> type, content |-> Strip(s)]
TextBlocks(s) == IF Inked(s) = {} THEN <<>> ELSE <<ParsedBlock("text", s)>>

\* parse_blocks: a whole answer at once, from each position of it
Blocks(s) ==
  LET rest[p \in 1..Len(s) + 1] ==
        LET after == From(s, p)
            o == FirstOpen(after)
            body == From(after, o.at + OpenLen[o.tag])
            closes == Places(body, Close(o.tag))
        IN  IF Opens(after) = {} THEN TextBlocks(after)
            ELSE TextBlocks(SubSeq(after, 1, o.at - 1))
                   \o IF closes = {} THEN TextBlocks(From(after, o.at))
                      ELSE <<ParsedBlock(o.tag, SubSeq(body, 1, Min(closes) - 1))>>
                             \o rest[p + o.at + OpenLen[o.tag] + Min(closes) + CloseLen[o.tag] - 2]
  IN  rest[1]

ParserInit ==
  /\ answer \in Answers /\ fed = 0 /\ stage = "reading"
  /\ buf = <<>> /\ tag = NoTag /\ content = <<>> /\ text = <<>>
  /\ out = <<>> /\ last = "none"

\* the next delta of the stream
Feed(n) ==
  /\ stage = "reading" /\ stage' = "processing"
  /\ fed' = fed + n /\ fed' <= Len(answer)
  /\ buf' = buf \o SubSeq(answer, fed + 1, fed + n)
  /\ UNCHANGED <<answer, tag, content, text, out, last>>

\* no tag opens in the buffer: all but the last Keep characters are text
KeepText ==
  /\ stage = "processing" /\ tag = NoTag /\ Opens(buf) = {}
  /\ LET safe == Max({0, Len(buf) - Keep}) IN
       text' = text \o SubSeq(buf, 1, safe) /\ buf' = From(buf, safe + 1)
  /\ stage' = "reading"
  /\ UNCHANGED <<answer, fed, tag, content, out, last>>

\* the text before the tag is yielded
OpenBlock ==
  /\ stage = "processing" /\ tag = NoTag /\ Opens(buf) # {}
  /\ LET o == FirstOpen(buf) IN
       /\ out' = out \o TextBlocks(text \o SubSeq(buf, 1, o.at - 1))
       /\ tag' = o.tag /\ buf' = From(buf, o.at + OpenLen[o.tag])
  /\ text' = <<>> /\ content' = <<>>
  /\ UNCHANGED <<answer, fed, stage, last>>

\* what may belong to the closing tag stays in the buffer
Hold(n) ==
  /\ stage = "processing" /\ tag # NoTag /\ Places(buf, Close(tag)) = {}
  /\ LET safe == Max({0, Len(buf) - n}) IN
       content' = content \o SubSeq(buf, 1, safe) /\ buf' = From(buf, safe + 1)
  /\ stage' = "reading"
  /\ UNCHANGED <<answer, fed, tag, text, out, last>>

\* mutant: the lookahead is as long as the tag's name
KeepContentShort == Hold(CloseLen[tag] - 3)

KeepContent == Hold(CloseLen[tag])

\* the block is complete
CloseBlock ==
  /\ stage = "processing" /\ tag # NoTag /\ Places(buf, Close(tag)) # {}
  /\ LET c == Min(Places(buf, Close(tag))) IN
       /\ out' = Append(out, ParsedBlock(tag, content \o SubSeq(buf, 1, c - 1)))
       /\ buf' = From(buf, c + CloseLen[tag])
  /\ tag' = NoTag /\ content' = <<>>
  /\ UNCHANGED <<answer, fed, stage, text, last>>

\* flush: what is left over, the buffer first; an open block is not looked at
Flush ==
  /\ stage = "reading" /\ fed = Len(answer) /\ stage' = "flushed"
  /\ out' = out \o TextBlocks(buf \o text)
  /\ buf' = <<>> /\ text' = <<>>
  /\ UNCHANGED <<answer, fed, tag, content, last>>

\* the tool calls of the final message
ToolCalls ==
  /\ stage = "flushed" /\ stage' = "done" /\ last' \in {"none", "tool calls"}
  /\ UNCHANGED <<answer, fed, buf, tag, content, text, out>>

\* the service fails, before the end or at the final message: the error is
\* told, and what the parser holds is never flushed
ServiceFails ==
  /\ stage \in {"reading", "flushed"} /\ stage' = "done" /\ last' = "error"
  /\ UNCHANGED <<answer, fed, buf, tag, content, text, out>>

ParserNext ==
  \/ \E n \in 1..Len(answer) : Feed(n)
  \/ KeepText \/ OpenBlock \/ KeepContent \/ CloseBlock
  \/ Flush \/ ToolCalls \/ ServiceFails

-------------------------------------------------------------------------------
(* Properties *)

\* An opening tag that is longer than what is kept may be cut by a delta and
\* then goes unseen.
Found(s) == \A i \in DOMAIN s : s[i][1] = "open" => OpenLen[s[i][2]] <= Keep + 1

\* What the parser holds, in the order it came.
Held == text \o (IF tag = NoTag THEN <<>> ELSE Open(tag)) \o content \o buf

\* However an answer is cut into deltas, through its tags or in its blanks, the
\* blocks yielded so far and what is held are what parse_blocks finds in the
\* part that came: no block is missed, doubled, mixed up or ended too soon.
CutsDoNotMatter ==
  stage = "reading" /\ Found(answer) =>
    out \o TextBlocks(Held) = Blocks(SubSeq(answer, 1, fed))

\* What output_parser.py says of an answer without tags: "Content outside any
\* tag is treated as plain text and emitted as type="text"."
TextIsEmitted ==
  stage = "flushed" /\ (\A i \in Inked(answer) : answer[i][1] = "text") =>
    out = TextBlocks(answer)
===============================================================================
