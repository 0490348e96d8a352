--------------------------- MODULE ConfirmationGate ---------------------------
(***************************************************************************)
(* What the chat endpoint promises about tool calls, without the event     *)
(* loop: a call that the classifier places in Tier 2 or 3 is put to the    *)
(* user, the user may speak any number of times while it is open, and when *)
(* it closes it has either run, on the user's standing word "approved", or *)
(* been refused.  A call in Tier 1 runs without being put to anybody.      *)
(***************************************************************************)

CONSTANTS
  Calls,      \* tool-call ids
  Confirm     \* those whose classification requires confirmation

VARIABLES
  phase,      \* phase[c]: "new", "asked", "ran" or "refused"
  word        \* word[c]: what the user was last told of c, "none" at first

vars == <<phase, word>>

Words == {"approved", "denied"}

TypeOK ==
  /\ phase \in [Calls -> {"new", "asked", "ran", "refused"}]
  /\ word \in [Calls -> Words \cup {"none"}]

Init ==
  /\ phase = [c \in Calls |-> "new"]
  /\ word = [c \in Calls |-> "none"]

Ask(c) ==
  /\ c \in Confirm
  /\ phase[c] = "new"
  /\ phase' = [phase EXCEPT ![c] = "asked"]
  /\ UNCHANGED word

Speak(c, w) ==
  /\ phase[c] = "asked"
  /\ word' = [word EXCEPT ![c] = w]
  /\ UNCHANGED phase

RunUnasked(c) ==
  /\ c \notin Confirm
  /\ phase[c] = "new"
  /\ phase' = [phase EXCEPT ![c] = "ran"]
  /\ UNCHANGED word

RunApproved(c) ==
  /\ phase[c] = "asked"
  /\ word[c] = "approved"
  /\ phase' = [phase EXCEPT ![c] = "ran"]
  /\ UNCHANGED word

Refuse(c) ==
  /\ phase[c] = "asked"
  /\ phase' = [phase EXCEPT ![c] = "refused"]
  /\ UNCHANGED word

Close(c) == RunApproved(c) \/ Refuse(c)

Next ==
  \E c \in Calls :
    \/ Ask(c)
    \/ \E w \in Words : Speak(c, w)
    \/ RunUnasked(c)
    \/ Close(c)

Safety == Init /\ [][Next]_vars

Spec == Safety /\ \A c \in Calls : WF_vars(Close(c))
===============================================================================
