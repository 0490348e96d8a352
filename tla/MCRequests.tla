------------------------------- MODULE MCRequests -------------------------------
(* Two chats with three tool calls of which two need confirmation; answers of up *)
(* to four pieces; one worker process, as systemd starts it.                     *)
EXTENDS Requests

CONSTANTS s1, s2, c1, c2, c3, code, chart, form, w1, ok, risky

MCParts == {"approval", "parser", "queue"}
MCParser == {"parser"}

MCStreams == {s1, s2}
MCCalls == {c1, c2, c3}
MCConfirm == {c1, c2}

\* The opening tag of chart is as long as can be seen across a cut, that of
\* form longer.
MCTag == {code, chart, form}
MCOpenLen == [t \in MCTag |-> CASE t = code -> 2 [] t = chart -> 4 [] t = form -> 5]
MCCloseLen == [t \in MCTag |-> IF t = code THEN 4 ELSE 5]

Char(kind) == <<kind, NoTag, 0>>

Pieces ==
  {<<Char("text")>>, <<Char("blank")>>}
    \cup {Open(t) : t \in MCTag} \cup {Close(t) : t \in {code, chart}}

\* the text of an answer is numbered, so that its order can be seen
Numbered(s) == [i \in DOMAIN s |-> IF s[i][2] = NoTag THEN <<s[i][1], NoTag, i>> ELSE s[i]]

MCAnswers == {Numbered(FlattenSeq(p)) : p \in UNION {[1..n -> Pieces] : n \in 0..4}}

MCOneWorker == {w1}
MCTasks == {ok, risky}
MCRaising == {risky}
===============================================================================
