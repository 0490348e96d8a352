--------------------------- MODULE ToolCalls_proofs ---------------------------
(***************************************************************************)
(* Theorems about the two ends of a tool call: the approval it waits for   *)
(* in the chat (ToolApproval), for any streams and calls, and the breaker, *)
(* the tiers and the firewall its result goes through (Pipeline), for any  *)
(* tools, threshold, configurations and contents.                          *)
(***************************************************************************)
EXTENDS ToolApproval, Pipeline, TLAPS

-------------------------------------------------------------------------------
(* Approval.  NoUnapprovedExecution is not inductive: nothing in it says that *)
(* the verdict a woken generator pops is the last one an endpoint wrote.      *)
(* ChatInv adds that a call is held by one generator at a time (OneHolder),   *)
(* that it is pending exactly while that generator waits (PendingOwned), and  *)
(* that meanwhile _approval_results agrees with what the user was told        *)
(* (ResultIsWord).                                                            *)

Asking == {"confirming", "waiting", "expiring"}

\* A generator that asks holds a call that needs an answer and has not run.
AskingHolds ==
  \A s \in Streams : at[s] \in Asking =>
    cur[s] \in (Confirm \cap emitted) \ executed

\* A generator in the middle of a call knows which one.
BusyHolds ==
  \A s \in Streams :
    at[s] \in Asking \cup {"denying", "running", "reporting"} => cur[s] \in Calls

OneHolder ==
  \A s, t \in Streams :
    at[s] \in Asking /\ at[t] \in Asking /\ cur[s] = cur[t] => s = t

NothingBeforeEmission ==
  /\ executed \subseteq emitted
  /\ \A c \in Calls \ emitted : results[c] = "none" /\ word[c] = "none"

ResultIsWord ==
  /\ \A c \in pending : results[c] = word[c]
  /\ \A s \in Streams : at[s] = "confirming" =>
       results[cur[s]] = "none" /\ word[cur[s]] = "none"

ChatInv ==
  /\ ChatTypeOK
  /\ AskingHolds
  /\ BusyHolds
  /\ OneHolder
  /\ NothingBeforeEmission
  /\ ResultIsWord
  /\ PendingOwned
  /\ NoUnapprovedExecution

-------------------------------------------------------------------------------

LEMMA InitChat == ChatInit => ChatInv
  BY DEF ChatInit, ChatInv, ChatTypeOK, Live, Verdicts, AskingHolds, BusyHolds, OneHolder,
         NothingBeforeEmission, ResultIsWord, PendingOwned,
         NoUnapprovedExecution, Asking

LEMMA NextChat == ChatInv /\ [ChatNext]_chatVars => ChatInv'
<1> SUFFICES ASSUME ChatInv, [ChatNext]_chatVars PROVE ChatInv'
  OBVIOUS
<1> USE CallsAssumption DEF ChatInv, ChatTypeOK, Live, Verdicts, Outcomes, BlockKinds,
        AskingHolds, BusyHolds, OneHolder, NothingBeforeEmission, ResultIsWord,
        PendingOwned, NoUnapprovedExecution, Asking
<1>1. ASSUME NEW s \in Streams, NEW c \in Calls, EmitForConfirmation(s, c)
      PROVE ChatInv'
  BY <1>1 DEF EmitForConfirmation, Resume
<1>2. ASSUME NEW s \in Streams, NEW c \in Calls, EmitDirect(s, c)
      PROVE ChatInv'
  BY <1>2 DEF EmitDirect, Resume
<1>3. ASSUME NEW s \in Streams, Register(s)
      PROVE ChatInv'
  BY <1>3 DEF Register, Resume
<1>4. ASSUME NEW s \in Streams, Wake(s)
      PROVE ChatInv'
  BY <1>4 DEF Wake, Resume
<1>5. ASSUME NEW s \in Streams, Expire(s)
      PROVE ChatInv'
  BY <1>5 DEF Expire, Resume
<1>6. ASSUME NEW s \in Streams, ResumeExpired(s)
      PROVE ChatInv'
  BY <1>6 DEF ResumeExpired, Resume
<1>7. ASSUME NEW s \in Streams, DenialSent(s)
      PROVE ChatInv'
  BY <1>7 DEF DenialSent, Resume
<1>8. ASSUME NEW s \in Streams, NEW o \in Outcomes, Report(s, o)
      PROVE ChatInv'
  BY <1>8 DEF Report, Resume
<1>9. ASSUME NEW s \in Streams, Save(s) \/ ToolEnds(s) \/ EndOfStream(s)
      PROVE ChatInv'
  BY <1>9 DEF Save, ToolEnds, EndOfStream, Resume
<1>10. ASSUME NEW s \in Streams, Abort(s)
       PROVE ChatInv'
  BY <1>10 DEF Abort
<1>11. ASSUME NEW c \in Calls, ApproveTool(c) \/ DenyTool(c)
       PROVE ChatInv'
  BY <1>11 DEF ApproveTool, DenyTool, Decide
<1>12. CASE UNCHANGED chatVars
  BY <1>12 DEF chatVars
<1> QED
  BY <1>1, <1>2, <1>3, <1>4, <1>5, <1>6, <1>7, <1>8, <1>9, <1>10, <1>11,
     <1>12 DEF ChatNext, StreamStep

\* Type correctness of the model, for any streams and calls.
THEOREM ChatTypeCorrect == ChatSafety => []ChatTypeOK
<1>1. ChatInv => ChatTypeOK
  BY DEF ChatInv
<1> QED
  BY <1>1, InitChat, NextChat, PTL DEF ChatSafety

\* No call that needs confirmation is executed unless the last word the user
\* had from the endpoints was "approved" (main.py, event_stream).
THEOREM ApprovalRequired == ChatSafety => []NoUnapprovedExecution
<1>1. ChatInv => NoUnapprovedExecution
  BY DEF ChatInv
<1> QED
  BY <1>1, InitChat, NextChat, PTL DEF ChatSafety

\* _pending_approvals is exactly the set of calls being waited on.
THEOREM PendingIsOwned == ChatSafety => []PendingOwned
<1>1. ChatInv => PendingOwned
  BY DEF ChatInv
<1> QED
  BY <1>1, InitChat, NextChat, PTL DEF ChatSafety

-------------------------------------------------------------------------------
(* The transcript *)

Shown(s, c) == \E o \in Outcomes : <<o, c>> \in blocks[s]

\* The call a generator waits on, or has run, was put to the user in its own
\* transcript if it needed a confirmation.
AskedHere ==
  \A s \in Streams :
    /\ at[s] \in {"waiting", "expiring"} => <<"confirm", cur[s]>> \in blocks[s]
    /\ at[s] \in {"running", "reporting"} =>
         /\ cur[s] \in executed
         /\ cur[s] \in Confirm => <<"confirm", cur[s]>> \in blocks[s]

\* A question is in one transcript only, that of the generator asking it.
AskedOnce ==
  \A s, t \in Streams, c \in Calls : <<"confirm", c>> \in blocks[s] =>
    /\ c \in emitted
    /\ at[t] \in Asking /\ cur[t] = c => s = t

\* A call that ran is still being reported where its result is not shown,
\* or its generator was aborted while it ran.
TranscriptFollows ==
  \A s \in Streams, c \in Calls :
    /\ Shown(s, c) => c \in executed /\ (c \in Confirm => <<"confirm", c>> \in blocks[s])
    /\ <<"confirm", c>> \in blocks[s] /\ c \in executed =>
         \/ Shown(s, c)
         \/ cur[s] = c /\ at[s] \in {"running", "reporting", "aborted"}

SavedIsClosed == \A s \in saved : at[s] = "closed"

TranscriptInv == AskedHere /\ AskedOnce /\ TranscriptFollows /\ SavedIsClosed

LEMMA InitTranscript == ChatInit => TranscriptInv
BY DEF ChatInit, TranscriptInv, AskedHere, AskedOnce, TranscriptFollows, SavedIsClosed, Shown,
       Asking

LEMMA NextTranscript == ChatInv /\ TranscriptInv /\ [ChatNext]_chatVars => TranscriptInv'
<1> SUFFICES ASSUME ChatInv, TranscriptInv, [ChatNext]_chatVars PROVE TranscriptInv'
  OBVIOUS
<1> USE CallsAssumption DEF TranscriptInv, AskedHere, AskedOnce, TranscriptFollows,
        SavedIsClosed, Shown, Asking, Outcomes
<1>t. /\ at \in [Streams -> Live \cup {"closed", "aborted"}]
      /\ cur \in [Streams -> Calls \cup {NoCall}]
      /\ blocks \in [Streams -> SUBSET (BlockKinds \X Calls)]
      /\ saved \subseteq Streams
  BY DEF ChatInv, ChatTypeOK
<1>h. /\ \A s \in Streams : at[s] \in Asking => cur[s] \in (Confirm \cap emitted) \ executed
      /\ executed \subseteq emitted
      /\ \A s \in Streams : at[s] \in {"running", "reporting"} => cur[s] \in Calls
      /\ \A s, t \in Streams :
           at[s] \in Asking /\ at[t] \in Asking /\ cur[s] = cur[t] => s = t
  BY DEF ChatInv, AskingHolds, NothingBeforeEmission, BusyHolds, OneHolder
<1>1. ASSUME NEW s \in Streams, NEW c \in Calls, EmitForConfirmation(s, c)
      PROVE TranscriptInv'
  BY <1>t, <1>h, <1>1 DEF EmitForConfirmation, Resume
<1>2. ASSUME NEW s \in Streams, NEW c \in Calls, EmitDirect(s, c)
      PROVE TranscriptInv'
  BY <1>t, <1>h, <1>2 DEF EmitDirect, Resume
<1>3. ASSUME NEW s \in Streams, Register(s)
      PROVE TranscriptInv'
  BY <1>t, <1>h, <1>3 DEF Register, Resume
<1>4. ASSUME NEW s \in Streams, Wake(s)
      PROVE TranscriptInv'
  BY <1>t, <1>h, <1>4 DEF Wake, Resume
<1>5. ASSUME NEW s \in Streams, Expire(s) \/ ResumeExpired(s) \/ DenialSent(s)
      PROVE TranscriptInv'
  BY <1>t, <1>h, <1>5 DEF Expire, ResumeExpired, DenialSent, Resume
<1>6. ASSUME NEW s \in Streams, NEW o \in Outcomes, Report(s, o)
      PROVE TranscriptInv'
  BY <1>t, <1>h, <1>6 DEF Report, Resume
<1>7. ASSUME NEW s \in Streams, Save(s) \/ ToolEnds(s) \/ EndOfStream(s)
      PROVE TranscriptInv'
  BY <1>t, <1>h, <1>7 DEF Save, ToolEnds, EndOfStream, Resume
<1>8. ASSUME NEW s \in Streams, Abort(s)
      PROVE TranscriptInv'
  BY <1>t, <1>h, <1>8 DEF Abort, Live
<1>9. ASSUME NEW c \in Calls, ApproveTool(c) \/ DenyTool(c)
      PROVE TranscriptInv'
  BY <1>9 DEF ApproveTool, DenyTool, Decide
<1>10. CASE UNCHANGED chatVars
  BY <1>10 DEF chatVars
<1> QED
  BY <1>1, <1>2, <1>3, <1>4, <1>5, <1>6, <1>7, <1>8, <1>9, <1>10 DEF ChatNext, StreamStep

\* What add_message stored tells, of every call it mentions, whether it ran
\* and with what result, whatever the other streams and the user did.
THEOREM TranscriptIsWhole == ChatSafety => []TranscriptTellsAll
<1>1. ChatInv /\ TranscriptInv => TranscriptTellsAll
  <2> SUFFICES ASSUME ChatInv, TranscriptInv, NEW s \in saved, NEW b \in blocks[s]
               PROVE  /\ b[1] \in Outcomes => b[2] \in executed
                      /\ b[1] = "confirm" /\ b[2] \in executed =>
                           \E o \in Outcomes : <<o, b[2]>> \in blocks[s]
                      /\ b[1] \in Outcomes /\ b[2] \in Confirm =>
                           <<"confirm", b[2]>> \in blocks[s]
    BY DEF TranscriptTellsAll
  <2>1. s \in Streams /\ b \in BlockKinds \X Calls
    BY DEF ChatInv, ChatTypeOK
  <2>2. b[2] \in Calls /\ b = <<b[1], b[2]>> /\ at[s] = "closed"
    BY <2>1 DEF TranscriptInv, SavedIsClosed
  <2>3. /\ Shown(s, b[2]) =>
             /\ b[2] \in executed
             /\ b[2] \in Confirm => <<"confirm", b[2]>> \in blocks[s]
        /\ <<"confirm", b[2]>> \in blocks[s] /\ b[2] \in executed =>
             \/ Shown(s, b[2])
             \/ cur[s] = b[2] /\ at[s] \in {"running", "reporting", "aborted"}
    BY <2>1, <2>2 DEF TranscriptInv, TranscriptFollows
  <2>4. b[1] \in Outcomes => Shown(s, b[2])
    BY <2>2 DEF Shown
  <2>5. b[1] = "confirm" => <<"confirm", b[2]>> \in blocks[s]
    BY <2>2
  <2> QED
    BY <2>2, <2>3, <2>4, <2>5 DEF Shown
<1> QED
  BY <1>1, InitChat, NextChat, InitTranscript, NextTranscript, PTL DEF ChatSafety

-------------------------------------------------------------------------------
(* Refinement: every step of the streams and endpoints is a step of the     *)
(* gate or leaves phase and word alone.                                     *)

LEMMA InitRefines == ChatInit => Gate!Init
  BY DEF ChatInit, Gate!Init, Phase, PhaseOf

LEMMA StepRefines == ChatInv /\ [ChatNext]_chatVars => [Gate!Next]_(Gate!vars)
<1> SUFFICES ASSUME ChatInv, [ChatNext]_chatVars
             PROVE  [Gate!Next]_(Gate!vars)
  OBVIOUS
<1> USE CallsAssumption DEF ChatInv, ChatTypeOK, AskingHolds, BusyHolds, OneHolder,
        NothingBeforeEmission, ResultIsWord, PendingOwned, Asking
<1>1. ASSUME NEW s \in Streams, NEW c \in Calls, EmitForConfirmation(s, c)
      PROVE Gate!Ask(c)
  <2>1. Phase[c] = "new" /\ Phase' = [Phase EXCEPT ![c] = "asked"]
    BY ZenonT(30), <1>1 DEF EmitForConfirmation, Resume, Phase, PhaseOf, Asked
  <2>2. c \in Confirm /\ word' = word
    BY <1>1 DEF EmitForConfirmation
  <2> QED
    BY <2>1, <2>2 DEF Gate!Ask
<1>2. ASSUME NEW s \in Streams, NEW c \in Calls, EmitDirect(s, c)
      PROVE Gate!RunUnasked(c)
  <2>1. Phase[c] = "new" /\ Phase' = [Phase EXCEPT ![c] = "ran"]
    BY <1>2 DEF EmitDirect, Resume, Phase, PhaseOf, Asked
  <2>2. c \notin Confirm /\ word' = word
    BY <1>2 DEF EmitDirect
  <2> QED
    BY <2>1, <2>2 DEF Gate!RunUnasked
<1>3. ASSUME NEW s \in Streams, Wake(s)
      PROVE cur[s] \in Calls /\ Gate!Close(cur[s])
  <2> DEFINE c == cur[s]
  <2>1. c \in Calls /\ Phase[c] = "asked" /\ word' = word
    BY <1>3 DEF Wake, Resume, Phase, PhaseOf, Asked
  <2>2. CASE results[c] = "approved"
    <3>1. word[c] = "approved"
      BY <1>3, <2>2 DEF Wake, Resume
    <3>2. Phase' = [Phase EXCEPT ![c] = "ran"]
      BY ZenonT(30), <1>3, <2>2 DEF Wake, Resume, Phase, PhaseOf, Asked
    <3> QED
      BY <2>1, <3>1, <3>2 DEF Gate!RunApproved, Gate!Close
  <2>3. CASE results[c] # "approved"
    <3>1. Asked' = Asked \ {c}
      BY <1>3, <2>3 DEF Wake, Resume, Asked
    <3>2. emitted' = emitted /\ executed' = executed /\ c \in emitted \ executed
      BY <1>3, <2>3 DEF Wake, Resume
    <3>3. Phase' = [Phase EXCEPT ![c] = "refused"]
      BY ZenonT(30), <2>1, <3>1, <3>2 DEF Phase, PhaseOf
    <3> QED
      BY <2>1, <3>3 DEF Gate!Refuse, Gate!Close
  <2> QED
    BY <2>2, <2>3
<1>4. ASSUME NEW s \in Streams, ResumeExpired(s)
      PROVE cur[s] \in Calls /\ Gate!Close(cur[s])
  <2> DEFINE c == cur[s]
  <2>1. c \in Calls /\ Phase[c] = "asked" /\ word' = word
    BY <1>4 DEF ResumeExpired, Resume, Phase, PhaseOf, Asked
  <2>2. Asked' = Asked \ {c}
    BY <1>4 DEF ResumeExpired, Resume, Asked
  <2>3. emitted' = emitted /\ executed' = executed /\ c \in emitted \ executed
    BY <1>4 DEF ResumeExpired, Resume
  <2>4. Phase' = [Phase EXCEPT ![c] = "refused"]
    BY ZenonT(30), <2>1, <2>2, <2>3 DEF Phase, PhaseOf
  <2> QED
    BY <2>1, <2>4 DEF Gate!Refuse, Gate!Close
<1>5. ASSUME NEW s \in Streams, Abort(s)
      PROVE (cur[s] \in Calls /\ Gate!Close(cur[s])) \/ UNCHANGED Gate!vars
  <2> DEFINE c == cur[s]
  <2>1. word' = word
    BY <1>5 DEF Abort
  <2>2. CASE at[s] \in Asking
    <3>1. c \in Calls /\ Phase[c] = "asked"
      BY <2>2 DEF Phase, PhaseOf, Asked
    <3>2. Asked' = Asked \ {c}
      BY <1>5, <2>2 DEF Abort, Asked
    <3>3. emitted' = emitted /\ executed' = executed /\ c \in emitted \ executed
      BY <1>5, <2>2 DEF Abort
    <3>4. Phase' = [Phase EXCEPT ![c] = "refused"]
      BY ZenonT(30), <3>1, <3>2, <3>3 DEF Phase, PhaseOf
    <3> QED
      BY <2>1, <3>1, <3>4 DEF Gate!Refuse, Gate!Close
  <2>3. CASE at[s] \notin Asking
    <3>1. Phase' = Phase
      BY <1>5, <2>3 DEF Abort, Phase, PhaseOf, Asked
    <3> QED
      BY <2>1, <3>1 DEF Gate!vars
  <2> QED
    BY <2>2, <2>3
<1>6. ASSUME NEW c \in Calls, NEW v \in Verdicts, Decide(c, v)
      PROVE Gate!Speak(c, v)
  <2>1. Phase[c] = "asked" /\ Phase' = Phase
    BY <1>6 DEF Decide, Phase, PhaseOf, Asked
  <2> QED
    BY <1>6, <2>1 DEF Decide, Gate!Speak
<1>7. ASSUME NEW s \in Streams,
             \/ Register(s) \/ Expire(s) \/ DenialSent(s) \/ ToolEnds(s)
             \/ EndOfStream(s) \/ Save(s)
             \/ \E o \in Outcomes : Report(s, o)
      PROVE UNCHANGED Gate!vars
  <2>1. word' = word /\ Asked' = Asked
    BY <1>7 DEF Register, Expire, DenialSent, ToolEnds, EndOfStream, Save,
                Report, Resume, Asked
  <2>2. emitted' = emitted /\ executed' = executed
    BY <1>7 DEF Register, Expire, DenialSent, ToolEnds, EndOfStream, Save,
                Report
  <2> QED
    BY <2>1, <2>2 DEF Gate!vars, Phase, PhaseOf
<1>8. CASE UNCHANGED chatVars
  BY <1>8 DEF chatVars, Gate!vars, Phase, PhaseOf, Asked
<1> QED
  BY <1>1, <1>2, <1>3, <1>4, <1>5, <1>6, <1>7, <1>8
     DEF ChatNext, StreamStep, ApproveTool, DenyTool, Verdicts, Gate!Next,
         Gate!Words

\* The chat's streams and endpoints never do what the gate forbids.
THEOREM RefinesGate == ChatSafety => Gate!Safety
  BY InitChat, NextChat, InitRefines, StepRefines, PTL DEF ChatSafety, Gate!Safety

-------------------------------------------------------------------------------
(* The result *)

\* The tool whose output is processed is one of the tools.
OutputOfTool == held.kind = "output" => held.tool \in Tools

\* The counter is the length of the run of failures that ends the history:
\* the calls it counts failed, and the one before them, if any, did not.
CountsRun(n, s) ==
  /\ n <= Len(s)
  /\ \A i \in (Len(s) - n + 1)..Len(s) : s[i] = "failed"
  /\ n < Len(s) => s[Len(s) - n] = "ok"

BreakerInv ==
  /\ TypeOK
  /\ OutputOfTool
  /\ \A t \in Tools : CountsRun(failures[t], outcomes[t])
  /\ \A t \in Tools : tripped[t] <=> failures[t] = Threshold

\* Appending to the history keeps the counter right.
LEMMA CountFailure ==
  ASSUME NEW s \in Seq({"ok", "failed"}), NEW n \in Nat, CountsRun(n, s)
  PROVE  CountsRun(n + 1, Append(s, "failed"))
<1> DEFINE r == Append(s, "failed")
<1>1. Len(r) = Len(s) + 1 /\ r[Len(s) + 1] = "failed"
  OBVIOUS
<1>2. \A i \in 1..Len(s) : r[i] = s[i]
  OBVIOUS
<1>3. \A i \in (Len(r) - (n + 1) + 1)..Len(r) : r[i] = "failed"
  BY <1>1, <1>2 DEF CountsRun
<1>4. n + 1 < Len(r) => r[Len(r) - (n + 1)] = "ok"
  BY <1>1, <1>2 DEF CountsRun
<1> QED
  BY <1>1, <1>3, <1>4 DEF CountsRun

LEMMA CountSuccess ==
  ASSUME NEW s \in Seq({"ok", "failed"})
  PROVE  CountsRun(0, Append(s, "ok"))
  BY DEF CountsRun

LEMMA CountNothing == CountsRun(0, <<>>)
  BY DEF CountsRun

\* A run of n failures is at least Threshold long exactly if the last
\* Threshold calls failed.
LEMMA RunIsLong ==
  ASSUME NEW s \in Seq({"ok", "failed"}), NEW n \in 0..Threshold, CountsRun(n, s)
  PROVE  n = Threshold <=> AllFailed(s, Threshold)
<1>1. Threshold \in Nat
  BY PipelineAssumption
<1>2. ASSUME n = Threshold PROVE AllFailed(s, Threshold)
  BY <1>1, <1>2 DEF CountsRun, AllFailed
<1>3. ASSUME AllFailed(s, Threshold), n # Threshold PROVE FALSE
  <2>1. n < Threshold /\ Threshold <= Len(s)
    BY <1>1, <1>3 DEF AllFailed
  <2>2. s[Len(s) - n] = "ok"
    BY <1>1, <2>1 DEF CountsRun
  <2>3. s[Len(s) - n] = "failed"
    BY <1>1, <1>3, <2>1 DEF AllFailed
  <2> QED
    BY <2>2, <2>3
<1> QED
  BY <1>2, <1>3

LEMMA InitBreaker == PipelineInit => BreakerInv
<1> SUFFICES ASSUME PipelineInit PROVE BreakerInv
  OBVIOUS
<1> USE PipelineAssumption
<1>1. TypeOK
  BY DEF PipelineInit, TypeOK, Nothing, Tiers!Init, Tiers!TypeOK
<1>2. OutputOfTool
  BY DEF PipelineInit, OutputOfTool, Nothing
<1>3. \A t \in Tools : CountsRun(failures[t], outcomes[t])
  BY CountNothing DEF PipelineInit
<1>4. \A t \in Tools : tripped[t] <=> failures[t] = Threshold
  BY DEF PipelineInit
<1> QED
  BY <1>1, <1>2, <1>3, <1>4 DEF BreakerInv

\* The breaker's part of the invariant, which every step either leaves alone
\* or changes by one of its three operations.
Exact ==
  /\ failures \in [Tools -> 0..Threshold]
  /\ tripped \in [Tools -> BOOLEAN]
  /\ outcomes \in [Tools -> Seq({"ok", "failed"})]
  /\ \A t \in Tools : CountsRun(failures[t], outcomes[t])
  /\ \A t \in Tools : tripped[t] <=> failures[t] = Threshold

LEMMA FailureExact ==
  ASSUME Exact, NEW t \in Tools, ~IsTripped(t), RecordFailure(t)
  PROVE  Exact'
<1> USE PipelineAssumption
<1>1. failures[t] \in 0..Threshold /\ failures[t] # Threshold
  BY DEF Exact, IsTripped
<1>2. failures[t] + 1 \in 0..Threshold
  BY <1>1
<1>3. failures' = [failures EXCEPT ![t] = failures[t] + 1]
  BY DEF RecordFailure
<1>4. outcomes' = [outcomes EXCEPT ![t] = Append(outcomes[t], "failed")]
  BY DEF RecordFailure
<1>5. tripped' = [tripped EXCEPT ![t] =
                    IF failures[t] + 1 >= Threshold THEN TRUE ELSE tripped[t]]
  BY DEF RecordFailure
<1>6. failures' \in [Tools -> 0..Threshold] /\ tripped' \in [Tools -> BOOLEAN]
  BY <1>2, <1>3, <1>5 DEF Exact
<1>7. outcomes' \in [Tools -> Seq({"ok", "failed"})]
  BY <1>4 DEF Exact
<1>8. ASSUME NEW u \in Tools PROVE CountsRun(failures'[u], outcomes'[u])
  <2>1. CASE u = t
    <3>1. CountsRun(failures[t] + 1, Append(outcomes[t], "failed"))
      BY <1>1, CountFailure DEF Exact
    <3> QED
      BY <1>3, <1>4, <2>1, <3>1 DEF Exact
  <2>2. CASE u # t
    BY <1>3, <1>4, <2>2 DEF Exact
  <2> QED
    BY <2>1, <2>2
<1>9. ASSUME NEW u \in Tools PROVE tripped'[u] <=> failures'[u] = Threshold
  <2>1. CASE u = t /\ failures[t] + 1 = Threshold
    BY <1>3, <1>5, <2>1 DEF Exact
  <2>2. CASE u = t /\ failures[t] + 1 # Threshold
    <3>1. ~(failures[t] + 1 >= Threshold)
      BY <1>2, <2>2
    <3> QED
      BY <1>3, <1>5, <2>2, <3>1 DEF Exact, IsTripped
  <2>3. CASE u # t
    BY <1>3, <1>5, <2>3 DEF Exact
  <2> QED
    BY <2>1, <2>2, <2>3
<1> QED
  BY <1>6, <1>7, <1>8, <1>9 DEF Exact

\* A success, and a reset, set the counter to zero.
LEMMA ClearedExact ==
  ASSUME Exact, NEW t \in Tools, NEW s \in Seq({"ok", "failed"}),
         CountsRun(0, s),
         failures' = [failures EXCEPT ![t] = 0],
         tripped' = [tripped EXCEPT ![t] = FALSE],
         outcomes' = [outcomes EXCEPT ![t] = s]
  PROVE  Exact'
<1> USE PipelineAssumption
<1>1. failures' \in [Tools -> 0..Threshold] /\ tripped' \in [Tools -> BOOLEAN]
  BY DEF Exact
<1>2. outcomes' \in [Tools -> Seq({"ok", "failed"})]
  BY DEF Exact
<1>3. \A u \in Tools : CountsRun(failures'[u], outcomes'[u])
  BY DEF Exact
<1>4. \A u \in Tools : tripped'[u] <=> failures'[u] = Threshold
  BY DEF Exact
<1> QED
  BY <1>1, <1>2, <1>3, <1>4 DEF Exact

LEMMA SuccessExact ==
  ASSUME Exact, NEW t \in Tools, RecordSuccess(t)
  PROVE  Exact'
<1>1. Append(outcomes[t], "ok") \in Seq({"ok", "failed"})
  BY DEF Exact
<1>2. CountsRun(0, Append(outcomes[t], "ok"))
  BY CountSuccess DEF Exact
<1> QED
  BY <1>1, <1>2, ClearedExact DEF RecordSuccess

LEMMA ResetExact ==
  ASSUME Exact, NEW t \in Tools, Reset(t)
  PROVE  Exact'
<1>1. <<>> \in Seq({"ok", "failed"})
  OBVIOUS
<1> QED
  BY <1>1, CountNothing, ClearedExact DEF Reset

LEMMA NextExact ==
  ASSUME Exact, OutputOfTool, [PipelineNext]_pipelineVars
  PROVE  Exact'
<1>1. ASSUME Process PROVE Exact'
  <2>1. ASSUME RefuseTripped PROVE Exact'
    BY <2>1 DEF RefuseTripped, breaker, Exact
  <2>2. ASSUME ExtractRaises PROVE Exact'
    BY <2>2, FailureExact DEF ExtractRaises, Processing, OutputOfTool
  <2>3. ASSUME Block PROVE Exact'
    BY <2>3, SuccessExact DEF Block, Processing, OutputOfTool
  <2>4. ASSUME ClassifierRaises PROVE Exact'
    BY <2>4, FailureExact DEF ClassifierRaises, Processing, OutputOfTool
  <2>5. ASSUME Deliver PROVE Exact'
    BY <2>5, SuccessExact DEF Deliver, Processing, OutputOfTool
  <2> QED
    BY <1>1, <2>1, <2>2, <2>3, <2>4, <2>5 DEF Process
<1>2. ASSUME NEW t \in Tools, Reset(t) PROVE Exact'
  BY <1>2, ResetExact
<1>3. ASSUME UNCHANGED breaker PROVE Exact'
  BY <1>3 DEF breaker, Exact
<1> QED
  BY <1>1, <1>2, <1>3
     DEF PipelineNext, pipelineVars, breaker, ToolReturns, Take, RecordApproval, SetTierOverride,
         ClassifyCall

\* What the caller holds after process() is a result.
LEMMA ProcessReturns ==
  ASSUME Process
  PROVE  held'.kind \in {"refused", "error", "blocked", "passed"}
<1>1. ASSUME RefuseTripped PROVE held'.kind = "refused"
  BY <1>1 DEF RefuseTripped
<1>2. ASSUME ExtractRaises PROVE held'.kind = "error"
  BY <1>2 DEF ExtractRaises, Return
<1>3. ASSUME Block PROVE held'.kind = "blocked"
  BY <1>3 DEF Block, Return
<1>4. ASSUME ClassifierRaises PROVE held'.kind = "error"
  BY <1>4 DEF ClassifierRaises, Return
<1>5. ASSUME Deliver PROVE held'.kind = "passed"
  BY <1>5 DEF Deliver, Return
<1> QED
  BY <1>1, <1>2, <1>3, <1>4, <1>5 DEF Process

LEMMA NextOutput ==
  ASSUME OutputOfTool, [PipelineNext]_pipelineVars
  PROVE  OutputOfTool'
<1> USE DEF OutputOfTool
<1>1. ASSUME Process PROVE OutputOfTool'
  BY <1>1, ProcessReturns
<1>2. ASSUME NEW t \in Tools, NEW c, NEW technical, NEW source, NEW force,
             ToolReturns(t, c, technical, source, force)
      PROVE  OutputOfTool'
  BY <1>2 DEF ToolReturns
<1>3. ASSUME Take PROVE OutputOfTool'
  BY <1>3 DEF Take, Nothing
<1>4. ASSUME NEW t \in Tools, NEW call, ClassifyCall(t, call) PROVE OutputOfTool'
  BY <1>4 DEF ClassifyCall
<1>5. ASSUME UNCHANGED held PROVE OutputOfTool'
  BY <1>5
<1> QED
  BY <1>1, <1>2, <1>3, <1>4, <1>5 DEF PipelineNext, pipelineVars, Reset, RecordApproval, SetTierOverride

\* The parts of TypeOK that are not the breaker's.
Rest ==
  /\ config \in Configs
  /\ log \in [total : Nat, blocked : Nat]
  /\ Tiers!TypeOK
  /\ held.kind \in
       {"nothing", "output", "refused", "blocked", "error", "passed", "classified"}
  /\ ops \in 0..MaxOps

LEMMA CountType ==
  ASSUME NEW n \in [total : Nat, blocked : Nat], NEW b
  PROVE  Count(n, b) \in [total : Nat, blocked : Nat]
  BY DEF Count

LEMMA NextRest ==
  ASSUME Rest, [PipelineNext]_pipelineVars
  PROVE  Rest'
<1> USE PipelineAssumption, CountType DEF Rest
<1>1. ASSUME Process PROVE Rest'
  <2>1. config' = config /\ ops' = ops /\ approvals' = approvals /\ overrides' = overrides
    BY <1>1 DEF Process, RefuseTripped, ExtractRaises, Block, ClassifierRaises, Deliver, Processing
  <2>2. held'.kind \in {"refused", "error", "blocked", "passed"}
    BY <1>1, ProcessReturns
  <2>3. \E b \in BOOLEAN : log' \in {log, Count(log, b)}
    BY <1>1 DEF Process, RefuseTripped, ExtractRaises, Block, ClassifierRaises, Deliver, Return
  <2> QED
    BY <2>1, <2>2, <2>3 DEF Tiers!TypeOK
<1>2. ASSUME NEW t \in Tools, NEW c, NEW technical, NEW source, NEW force,
             ToolReturns(t, c, technical, source, force)
      PROVE  Rest'
  BY <1>2 DEF ToolReturns, Tiers!TypeOK
<1>3. ASSUME Take PROVE Rest'
  BY <1>3 DEF Take, Nothing, Tiers!TypeOK
<1>4. ASSUME NEW t \in Tools, Reset(t) PROVE Rest'
  BY <1>4 DEF Reset, Tiers!TypeOK
<1>5. ASSUME NEW t \in Tools, RecordApproval(t) PROVE Rest'
  BY <1>5 DEF RecordApproval, Tiers!RecordApproval, Tiers!TypeOK
<1>6. ASSUME NEW t \in Tools, NEW tier \in Tiers!Tier, SetTierOverride(t, tier) PROVE Rest'
  BY <1>6 DEF SetTierOverride, Tiers!SetTierOverride, Tiers!TypeOK
<1>7. ASSUME NEW t \in Tools, NEW call, ClassifyCall(t, call) PROVE Rest'
  BY <1>7 DEF ClassifyCall, Tiers!TypeOK
<1>8. ASSUME UNCHANGED pipelineVars PROVE Rest'
  BY <1>8 DEF pipelineVars, Tiers!TypeOK
<1> QED
  BY <1>1, <1>2, <1>3, <1>4, <1>5, <1>6, <1>7, <1>8 DEF PipelineNext

LEMMA NextBreaker == BreakerInv /\ [PipelineNext]_pipelineVars => BreakerInv'
<1> SUFFICES ASSUME BreakerInv, [PipelineNext]_pipelineVars PROVE BreakerInv'
  OBVIOUS
<1>1. Exact
  BY DEF BreakerInv, TypeOK, Exact
<1>2. Exact'
  BY <1>1, NextExact DEF BreakerInv
<1>3. OutputOfTool'
  BY NextOutput DEF BreakerInv
<1>4. Rest'
  BY NextRest DEF BreakerInv, TypeOK, Rest
<1>5. TypeOK'
  BY <1>2, <1>4 DEF TypeOK, Exact, Rest
<1> QED
  BY <1>2, <1>3, <1>5 DEF BreakerInv, Exact

LEMMA BreakerHolds == PipelineSpec => []BreakerInv
  BY InitBreaker, NextBreaker, PTL DEF PipelineSpec

\* The variables keep their types; in particular the failure counter never
\* passes the threshold, because a tripped tool is not processed.
THEOREM TypeCorrect == PipelineSpec => []TypeOK
<1>1. BreakerInv => TypeOK
  BY DEF BreakerInv
<1> QED
  BY <1>1, BreakerHolds, PTL

\* A tool is refused exactly after Threshold consecutive failures of its own.
THEOREM BreakerTrips == PipelineSpec => []BreakerIsExact
<1>1. BreakerInv => BreakerIsExact
  BY RunIsLong DEF BreakerInv, TypeOK, BreakerIsExact
<1> QED
  BY <1>1, BreakerHolds, PTL

\* The tier of a dangerous call: nothing but a trusted script lowers it from 3,
\* and that by one.
LEMMA DangerousTier ==
  ASSUME NEW t, NEW call, call.dangerous, call.force = None
  PROVE  /\ Tiers!Classify(t, call) \in {2, 3}
         /\ call.trusted \/ Tiers!Classify(t, call) = 3
<1>1. Tiers!ParamTier(Tiers!BaseTier(t), call) = 3
  BY DEF Tiers!ParamTier
<1> QED
  BY <1>1 DEF Tiers!Classify, Tiers!ContextTier, Tiers!Lower

LEMMA NextDangerous ==
  ASSUME DangerousCallsAsk, [PipelineNext]_pipelineVars
  PROVE  DangerousCallsAsk'
<1> USE DEF DangerousCallsAsk
<1>1. ASSUME Process PROVE DangerousCallsAsk'
  BY <1>1, ProcessReturns
<1>2. ASSUME NEW t \in Tools, NEW c, NEW technical, NEW source, NEW force,
             ToolReturns(t, c, technical, source, force)
      PROVE  DangerousCallsAsk'
  BY <1>2 DEF ToolReturns
<1>3. ASSUME Take PROVE DangerousCallsAsk'
  BY <1>3 DEF Take, Nothing
<1>4. ASSUME NEW t \in Tools, NEW call, ClassifyCall(t, call) PROVE DangerousCallsAsk'
  <2>1. held'.call = call /\ held'.tier = Tiers!Classify(t, call)
    BY <1>4 DEF ClassifyCall
  <2>2. ASSUME call.dangerous, call.force = None
        PROVE  /\ Tiers!Asks(Tiers!Classify(t, call))
               /\ call.trusted \/ Tiers!Classify(t, call) = 3
    BY <2>2, DangerousTier DEF Tiers!Asks
  <2> QED
    BY <2>1, <2>2
<1>5. ASSUME UNCHANGED held PROVE DangerousCallsAsk'
  BY <1>5
<1> QED
  BY <1>1, <1>2, <1>3, <1>4, <1>5 DEF PipelineNext, pipelineVars, Reset, RecordApproval, SetTierOverride

\* A dangerous call needs confirmation, for any tables, overrides and numbers
\* of approvals.
THEOREM DangerousIsConfirmed == PipelineSpec => []DangerousCallsAsk
<1>1. PipelineInit => DangerousCallsAsk
  BY DEF PipelineInit, Nothing, DangerousCallsAsk
<1>2. DangerousCallsAsk /\ [PipelineNext]_pipelineVars => DangerousCallsAsk'
  BY NextDangerous
<1> QED
  BY <1>1, <1>2, PTL DEF PipelineSpec

\* A critical pattern keeps its severity, in technical output too.
LEMMA CriticalSeverity ==
  ASSUME NEW c, c.patterns \subseteq 1..3, 3 \in c.patterns, NEW technical
  PROVE  Severity(c, technical) = 3
<1>1. \A p \in c.patterns : p <= 3
  OBVIOUS
<1>2. \A s \in c.patterns \cup {0} : (\A p \in c.patterns : p <= s) => s = 3
  OBVIOUS
<1>3. Worst(c) = 3
  BY <1>1, <1>2 DEF Worst
<1> QED
  BY <1>3 DEF Severity

\* Text with a critical pattern is untrusted, whatever its source and whatever
\* was redacted in it.
LEMMA CriticalIsUntrusted ==
  ASSUME NEW source \in DOMAIN SourceTrust, NEW kept
  PROVE  Tagged(source, 3, kept) = Untrusted
<1> DEFINE levels == {SourceTrust[source]}
                       \cup (IF 3 >= 2 THEN {Untrusted} ELSE {})
                       \cup (IF 3 = 1 THEN {SemiTrusted} ELSE {})
                       \cup (IF kept # <<>> THEN {Sanitized} ELSE {})
<1>1. SourceTrust[source] \in {Untrusted, SemiTrusted, Trusted}
  BY DEF SourceTrust
<1>2. Untrusted \in levels /\ levels \subseteq {1, 2, 3, 4}
  BY <1>1 DEF Untrusted, Sanitized, SemiTrusted, Trusted
<1>3. \A y \in levels : Untrusted <= y
  BY <1>2 DEF Untrusted
<1>4. \A x \in levels : (\A y \in levels : x <= y) => x = Untrusted
  BY <1>2, <1>3 DEF Untrusted
<1>5. Tagged(source, 3, kept) = CHOOSE x \in levels : \A y \in levels : x <= y
  BY DEF Tagged
<1> HIDE DEF levels
<1>6. (CHOOSE x \in levels : \A y \in levels : x <= y) \in levels
  BY <1>2, <1>3
<1>7. \A y \in levels : (CHOOSE x \in levels : \A z \in levels : x <= z) <= y
  BY <1>2, <1>3
<1> QED
  BY <1>4, <1>5, <1>6, <1>7

\* The output that is processed is one that tools return.
OutputIsKnown ==
  held.kind = "output" =>
    /\ held.content \in Contents \cup {Bad}
    /\ held.source \in Sources

CriticalInv == CriticalIsHeld /\ OutputIsKnown /\ config \in Configs

LEMMA DeliverHolds ==
  ASSUME OutputIsKnown, config \in Configs, Deliver
  PROVE  CriticalIsHeld'
<1> DEFINE c == held.content
           trust == Trust(held.tool, held.source, Scanned.severity, Secrets(held.tool, c))
<1>1. config' = config /\ held'.kind = "passed" /\ held'.tool = held.tool
        /\ held'.content = c
        /\ held'.wrapping = IF Discloses(trust) THEN Wrapping(trust) ELSE "none"
  BY DEF Deliver, Processing, Return
<1>2. c \in Contents /\ held.source \in Sources /\ ~Scanned.block
  BY DEF Deliver, Processing, OutputIsKnown
<1> SUFFICES ASSUME 3 \in c.patterns, held.tool \notin config.firewall
             PROVE  /\ config.mode = "permissive"
                    /\ held'.wrapping = "untrusted" \/ held.tool \in config.tagger
  BY <1>1 DEF CriticalIsHeld
<1>3. Severity(c, held.technical) = 3
  BY <1>2, CriticalSeverity, PipelineAssumption
<1>4. /\ Scanned.severity = 3
      /\ config.mode \in {"balanced", "strict"} => Scanned.block
  BY <1>3 DEF Scanned, Firewall, ShouldBlock
<1>5. config.mode = "permissive"
  <2>1. config.mode \in Modes
    BY PipelineAssumption
  <2> QED
    BY <1>2, <1>4, <2>1 DEF Modes
<1>6. ASSUME held.tool \notin config.tagger PROVE held'.wrapping = "untrusted"
  <2>1. trust = Untrusted
    BY <1>2, <1>4, <1>6, CriticalIsUntrusted, PipelineAssumption DEF Trust
  <2> QED
    BY <1>1, <2>1 DEF Discloses, Wrapping, Untrusted, Sanitized, SemiTrusted, Trusted
<1> QED
  BY <1>5, <1>6

LEMMA NextCritical ==
  ASSUME CriticalInv, [PipelineNext]_pipelineVars
  PROVE  CriticalInv'
<1> USE DEF CriticalInv, CriticalIsHeld, OutputIsKnown
<1>1. ASSUME Process PROVE CriticalInv'
  <2>1. config' = config
    BY <1>1 DEF Process, RefuseTripped, ExtractRaises, Block, ClassifierRaises, Deliver, Processing
  <2>2. OutputIsKnown'
    BY <1>1, ProcessReturns
  <2>3. CASE Deliver
    BY <2>1, <2>2, <2>3, DeliverHolds
  <2>4. CASE RefuseTripped
    BY <2>1, <2>2, <2>4 DEF RefuseTripped
  <2>5. CASE ExtractRaises
    BY <2>1, <2>2, <2>5 DEF ExtractRaises, Return
  <2>6. CASE Block
    BY <2>1, <2>2, <2>6 DEF Block, Return
  <2>7. CASE ClassifierRaises
    BY <2>1, <2>2, <2>7 DEF ClassifierRaises, Return
  <2> QED
    BY <1>1, <2>3, <2>4, <2>5, <2>6, <2>7 DEF Process
<1>2. ASSUME NEW t \in Tools, NEW c \in Contents \cup {Bad}, NEW technical,
             NEW source \in Sources, NEW force,
             ToolReturns(t, c, technical, source, force)
      PROVE  CriticalInv'
  BY <1>2 DEF ToolReturns
<1>3. ASSUME Take PROVE CriticalInv'
  BY <1>3 DEF Take, Nothing
<1>4. ASSUME NEW t \in Tools, NEW call, ClassifyCall(t, call) PROVE CriticalInv'
  BY <1>4 DEF ClassifyCall
<1>5. ASSUME UNCHANGED <<held, config>> PROVE CriticalInv'
  BY <1>5
<1> QED
  BY <1>1, <1>2, <1>3, <1>4, <1>5 DEF PipelineNext, pipelineVars, Reset, RecordApproval, SetTierOverride

\* Content with a critical pattern passes only in permissive mode or past a
\* bypass, and then wrapped as untrusted: for any sources, contents and secrets.
THEOREM CriticalContentIsHeld == PipelineSpec => []CriticalIsHeld
<1>1. PipelineInit => CriticalInv
  BY DEF PipelineInit, Nothing, CriticalInv, CriticalIsHeld, OutputIsKnown
<1>2. CriticalInv /\ [PipelineNext]_pipelineVars => CriticalInv'
  BY NextCritical
<1>3. CriticalInv => CriticalIsHeld
  BY DEF CriticalInv
<1> QED
  BY <1>1, <1>2, <1>3, PTL DEF PipelineSpec
===============================================================================
