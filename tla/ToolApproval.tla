----------------------------- MODULE ToolApproval -----------------------------
(***************************************************************************)
(* The tool-call half of POST /api/chat (backend/main.py): one             *)
(* event_stream generator per open chat, the approve and deny endpoints,   *)
(* and the two module-level dictionaries they share.  All of it runs on    *)
(* one asyncio loop, so a step of the model is the code between two        *)
(* suspension points (an await, or a yield to the SSE response).           *)
(*                                                                         *)
(* asyncio.wait_for(event.wait(), 300) resumes in one of three ways: the   *)
(* event was set (Wake), the timer fired first (Expire, then               *)
(* ResumeExpired a loop turn later), or the response task was cancelled    *)
(* because the client went away (Abort).  The timer may also fire after    *)
(* the event was set but before the waiter ran: Expire does not look at    *)
(* the event.                                                              *)
(*                                                                         *)
(* Text, code and chart blocks only pass through the generator and are     *)
(* not modelled.  Tool-call ids come from the model provider and are       *)
(* unique.                                                                 *)
(***************************************************************************)
EXTENDS FiniteSets

CONSTANTS
  Streams,    \* open POST /api/chat responses
  Calls,      \* tool-call ids the model may emit; bounds the model
  Confirm,    \* the calls the classifier marks requires_confirmation
  NoCall

ASSUME CallsAssumption == Confirm \subseteq Calls /\ NoCall \notin Calls

VARIABLES
  at,         \* at[s]: where the generator s is suspended
  cur,        \* cur[s]: tool_call_id the generator is handling
  emitted,    \* calls the model has emitted so far
  pending,    \* keys of _pending_approvals
  signalled,  \* pending calls whose asyncio.Event is set
  results,    \* _approval_results; "none" when the key is absent
  blocks,     \* blocks[s]: assistant_blocks, as <<kind, call>> pairs
  saved,      \* streams whose assistant message add_message stored
  executed,   \* history: calls handed to cap.execute
  word        \* history: last status an endpoint answered with 200

chatVars == <<at, cur, emitted, pending, signalled, results, blocks, saved,
              executed, word>>

Verdicts == {"approved", "denied"}

Live == {"reading", "confirming", "waiting", "expiring", "denying", "running",
         "reporting", "saving"}

Outcomes == {"result", "error"}

BlockKinds == {"confirm"} \cup Outcomes

ChatTypeOK ==
  /\ at \in [Streams -> Live \cup {"closed", "aborted"}]
  /\ cur \in [Streams -> Calls \cup {NoCall}]
  /\ emitted \subseteq Calls
  /\ pending \subseteq Calls
  /\ signalled \subseteq Calls
  /\ results \in [Calls -> Verdicts \cup {"none"}]
  /\ blocks \in [Streams -> SUBSET (BlockKinds \X Calls)]
  /\ saved \subseteq Streams
  /\ executed \subseteq Calls
  /\ word \in [Calls -> Verdicts \cup {"none"}]

ChatInit ==
  /\ at = [s \in Streams |-> "reading"]
  /\ cur = [s \in Streams |-> NoCall]
  /\ emitted = {}
  /\ pending = {}
  /\ signalled = {}
  /\ results = [c \in Calls |-> "none"]
  /\ blocks = [s \in Streams |-> {}]
  /\ saved = {}
  /\ executed = {}
  /\ word = [c \in Calls |-> "none"]

Resume(s, from, to) ==
  /\ at[s] = from
  /\ at' = [at EXCEPT ![s] = to]

\* The calls some generator is still asking the user about.
Asked == {c \in Calls : \E s \in Streams :
            cur[s] = c /\ at[s] \in {"confirming", "waiting", "expiring"}}

-------------------------------------------------------------------------------
(* event_stream *)

\* A Tier 2/3 tool_call block: the action_confirm block is yielded, and the
\* generator is suspended in that yield before anything is registered.
EmitForConfirmation(s, c) ==
  /\ c \in Confirm \ emitted
  /\ Resume(s, "reading", "confirming")
  /\ cur' = [cur EXCEPT ![s] = c]
  /\ emitted' = emitted \cup {c}
  /\ UNCHANGED <<pending, signalled, results, blocks, saved, executed, word>>

\* A Tier 1 tool_call block goes straight to cap.execute.
EmitDirect(s, c) ==
  /\ c \in Calls \ (Confirm \cup emitted)
  /\ Resume(s, "reading", "running")
  /\ cur' = [cur EXCEPT ![s] = c]
  /\ emitted' = emitted \cup {c}
  /\ executed' = executed \cup {c}
  /\ UNCHANGED <<pending, signalled, results, blocks, saved, word>>

\* The yield returned: a fresh Event enters _pending_approvals.
Register(s) ==
  /\ Resume(s, "confirming", "waiting")
  /\ blocks' = [blocks EXCEPT ![s] = @ \cup {<<"confirm", cur[s]>>}]
  /\ pending' = pending \cup {cur[s]}
  /\ signalled' = signalled \ {cur[s]}
  /\ UNCHANGED <<cur, emitted, results, saved, executed, word>>

\* Faulty Wake: takes any answer for a yes.
WakeOnAnyAnswer(s) ==
  /\ cur[s] \in signalled
  /\ Resume(s, "waiting", "running")
  /\ results' = [results EXCEPT ![cur[s]] = "none"]
  /\ pending' = pending \ {cur[s]}
  /\ executed' = executed \cup {cur[s]}
  /\ UNCHANGED <<cur, emitted, signalled, blocks, saved, word>>

\* event.wait() returned: the verdict is popped, the finally clause removes
\* the pending entry, and an approved call is executed in the same turn.
Wake(s) ==
  LET c == cur[s] IN
  /\ at[s] = "waiting"
  /\ c \in signalled
  /\ results' = [results EXCEPT ![c] = "none"]
  /\ pending' = pending \ {c}
  /\ \/ /\ results[c] = "approved"
        /\ Resume(s, "waiting", "running")
        /\ executed' = executed \cup {c}
     \/ /\ results[c] # "approved"
        /\ Resume(s, "waiting", "denying")
        /\ UNCHANGED executed
  /\ UNCHANGED <<cur, emitted, signalled, blocks, saved, word>>

\* The 300 s timer fires and cancels the wait; the generator has not run yet.
Expire(s) ==
  /\ Resume(s, "waiting", "expiring")
  /\ UNCHANGED <<cur, emitted, pending, signalled, results, blocks, saved,
                 executed, word>>

\* Faulty ResumeExpired: the pending entry is removed on success only.
ResumeExpiredKeepsPending(s) ==
  /\ Resume(s, "expiring", "denying")
  /\ UNCHANGED <<cur, emitted, pending, signalled, results, blocks, saved,
                 executed, word>>

\* except asyncio.TimeoutError: not approved, whatever _approval_results says.
ResumeExpired(s) ==
  /\ Resume(s, "expiring", "denying")
  /\ pending' = pending \ {cur[s]}
  /\ UNCHANGED <<cur, emitted, signalled, results, blocks, saved, executed,
                 word>>

\* Faulty DenialSent: keeps a block of a kind the transcript does not have.
DenialKept(s) ==
  /\ Resume(s, "denying", "reading")
  /\ blocks' = [blocks EXCEPT ![s] = @ \cup {<<"denied", cur[s]>>}]
  /\ cur' = [cur EXCEPT ![s] = NoCall]
  /\ UNCHANGED <<emitted, pending, signalled, results, saved, executed, word>>

\* The "was denied" block has been yielded; it is not kept in
\* assistant_blocks.
DenialSent(s) ==
  /\ Resume(s, "denying", "reading")
  /\ cur' = [cur EXCEPT ![s] = NoCall]
  /\ UNCHANGED <<emitted, pending, signalled, results, blocks, saved,
                 executed, word>>

\* cap.execute returned or raised.
ToolEnds(s) ==
  /\ Resume(s, "running", "reporting")
  /\ UNCHANGED <<cur, emitted, pending, signalled, results, blocks, saved,
                 executed, word>>

\* Faulty Report: the block is yielded but not kept.
ReportUnlisted(s, outcome) ==
  /\ Resume(s, "reporting", "reading")
  /\ outcome = "result"
  /\ cur' = [cur EXCEPT ![s] = NoCall]
  /\ UNCHANGED <<emitted, pending, signalled, results, blocks, saved, executed,
                 word>>

\* The result (or the "Tool error" block) was yielded and is kept.
Report(s, outcome) ==
  /\ Resume(s, "reporting", "reading")
  /\ blocks' = [blocks EXCEPT ![s] = @ \cup {<<outcome, cur[s]>>}]
  /\ cur' = [cur EXCEPT ![s] = NoCall]
  /\ UNCHANGED <<emitted, pending, signalled, results, saved, executed, word>>

\* The provider's stream is exhausted.
EndOfStream(s) ==
  /\ Resume(s, "reading", "saving")
  /\ UNCHANGED <<cur, emitted, pending, signalled, results, blocks, saved,
                 executed, word>>

Save(s) ==
  /\ Resume(s, "saving", "closed")
  /\ saved' = saved \cup {s}
  /\ UNCHANGED <<cur, emitted, pending, signalled, results, blocks, executed,
                 word>>

\* Faulty Abort: no finally clause around the wait.
AbortKeepsPending(s) ==
  /\ at[s] \in Live
  /\ at' = [at EXCEPT ![s] = "aborted"]
  /\ UNCHANGED <<cur, emitted, pending, signalled, results, blocks, saved,
                 executed, word>>

\* The client disconnected (or the provider's stream raised): the exception
\* leaves through the suspension point, past the finally clause if the
\* generator is inside the try.
Abort(s) ==
  /\ at[s] \in Live
  /\ at' = [at EXCEPT ![s] = "aborted"]
  /\ pending' = IF at[s] \in {"waiting", "expiring"} THEN pending \ {cur[s]}
                                                     ELSE pending
  /\ UNCHANGED <<cur, emitted, signalled, results, blocks, saved, executed,
                 word>>

-------------------------------------------------------------------------------
(* The endpoints.  An id that is not pending gets a 404 and changes         *)
(* nothing.                                                                 *)

Decide(c, verdict) ==
  /\ c \in pending
  /\ results' = [results EXCEPT ![c] = verdict]
  /\ signalled' = signalled \cup {c}
  /\ word' = [word EXCEPT ![c] = verdict]
  /\ UNCHANGED <<at, cur, emitted, pending, blocks, saved, executed>>

ApproveTool(c) == Decide(c, "approved")

DenyTool(c) == Decide(c, "denied")

-------------------------------------------------------------------------------

StreamStep(s) ==
  \/ Register(s)
  \/ Wake(s)
  \/ Expire(s)
  \/ ResumeExpired(s)
  \/ DenialSent(s)
  \/ \E o \in Outcomes : Report(s, o)
  \/ Save(s)

ChatNext ==
  \/ \E s \in Streams :
       \/ \E c \in Calls : EmitForConfirmation(s, c) \/ EmitDirect(s, c)
       \/ StreamStep(s)
       \/ ToolEnds(s)
       \/ EndOfStream(s)
       \/ Abort(s)
  \/ \E c \in Calls : ApproveTool(c) \/ DenyTool(c)

ChatSafety == ChatInit /\ [][ChatNext]_chatVars

(***************************************************************************)
(* The loop runs what is ready and the timer of wait_for fires: weak       *)
(* fairness on the generator's own steps.  Nothing obliges the user to     *)
(* answer, a tool to return, the model to stop emitting or a client to     *)
(* leave.                                                                  *)
(***************************************************************************)
ChatFairness == \A s \in Streams : WF_chatVars(StreamStep(s))

ChatSpec == ChatSafety /\ ChatFairness

-------------------------------------------------------------------------------
(* Properties *)

\* A call that needs confirmation is executed only if the last thing an
\* endpoint told the user about it was "approved" (main.py, event_stream and
\* approve_tool/deny_tool: with several clicks the last one counts).
NoUnapprovedExecution ==
  \A c \in executed \cap Confirm : word[c] = "approved"

\* _pending_approvals holds exactly the calls some generator is waiting on:
\* no timeout, denial or disconnect leaves an entry behind.
PendingOwned ==
  pending = {c \in Calls : \E s \in Streams :
               cur[s] = c /\ at[s] \in {"waiting", "expiring"}}

\* A stored assistant message tells what happened to the calls it mentions
\* (main.py, event_stream): a result is shown only of a call that ran, after
\* its confirmation if it needed one, and a call that was put to the user and
\* ran has its result shown, however the other waits ended.
TranscriptTellsAll ==
  \A s \in saved : \A b \in blocks[s] :
    /\ b[1] \in Outcomes => b[2] \in executed
    /\ b[1] = "confirm" /\ b[2] \in executed => \E o \in Outcomes : <<o, b[2]>> \in blocks[s]
    /\ b[1] \in Outcomes /\ b[2] \in Confirm => <<"confirm", b[2]>> \in blocks[s]

\* What the endpoints' answer promises (main.py, approve_tool: "Approve a
\* pending Tier 2/3 tool call"): a call of a surviving stream that the user
\* was told is approved is executed.
ApprovedRuns ==
  \A s \in Streams : at[s] = "denying" => word[cur[s]] # "approved"

PhaseOf(c) ==
  IF c \notin emitted THEN "new"
  ELSE IF c \in executed THEN "ran"
  ELSE IF c \in Asked THEN "asked"
  ELSE "refused"

Phase == [c \in Calls |-> PhaseOf(c)]

Gate == INSTANCE ConfirmationGate WITH
  phase <- Phase,
  word <- word

\* The streams and endpoints implement ConfirmationGate: the user's word on a
\* call is fixed once the call is closed, it runs only on "approved", and
\* every question put to the user is settled by an answer, the timer or the
\* client's departure, even if nobody answers.
GateSpec == Gate!Spec
===============================================================================
