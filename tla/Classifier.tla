------------------------------- MODULE Classifier -------------------------------
(***************************************************************************)
(* ActionClassifier (pipeline/action_classifier.py): the tier of a tool    *)
(* call from the tool's entry in the tables or the user's override, raised *)
(* by the parameters, and then adjusted by what the user approved before,  *)
(* by the trusted script directory and by the caller.  Tiers are 1, 2, 3.  *)
(* A call is abstracted to                                                 *)
(*   dangerous  the parameters hold a dangerous flag, a system path or a   *)
(*              destructive SQL keyword,                                   *)
(*   trusted    its script lies in trusted_scripts_dir,                    *)
(*   force      context["force_tier"], None if absent; Bad is no tier.     *)
(***************************************************************************)
EXTENDS Naturals

CONSTANTS
  Tools,
  Tables,           \* the tier of a tool in the lookup tables, 2 if in none
  ApprovalsNeeded,  \* approvals that lower a tier, 3
  MaxApprovals,     \* bounds the approvals recorded for a tool
  None, Bad

VARIABLES
  approvals,        \* _approval_history
  overrides         \* _overrides, None for a tool that has none

vars == <<approvals, overrides>>

Tier == 1..3

TypeOK ==
  /\ approvals \in [Tools -> 0..MaxApprovals]
  /\ overrides \in [Tools -> Tier \cup {None}]

Init ==
  /\ approvals = [t \in Tools |-> 0]
  /\ overrides = [t \in Tools |-> None]

RecordApproval(t) ==
  /\ approvals[t] < MaxApprovals
  /\ approvals' = [approvals EXCEPT ![t] = @ + 1]
  /\ UNCHANGED overrides

SetTierOverride(t, tier) ==
  /\ overrides' = [overrides EXCEPT ![t] = tier]
  /\ UNCHANGED approvals

BaseTier(t) == IF overrides[t] = None THEN Tables[t] ELSE overrides[t]

\* _apply_param_modifiers
ParamTier(tier, call) == IF call.dangerous THEN 3 ELSE tier

Lower(tier) == IF tier = 1 THEN 1 ELSE tier - 1

\* Faulty ContextTier: approvals lower a destructive action as well.
ContextTierAny(t, tier, call) ==
  LET repeated == IF approvals[t] >= ApprovalsNeeded THEN Lower(tier) ELSE tier
      trusted == IF call.trusted /\ tier # 1 THEN Lower(repeated) ELSE repeated
  IN  IF call.force = None THEN trusted ELSE call.force

\* _apply_context_modifiers: both tests read the tier the function was given,
\* both adjustments apply to tier_idx.
ContextTier(t, tier, call) ==
  LET repeated == IF approvals[t] >= ApprovalsNeeded /\ tier = 2
                  THEN Lower(tier) ELSE tier
      trusted == IF call.trusted /\ tier # 1 THEN Lower(repeated) ELSE repeated
  IN  IF call.force = None THEN trusted ELSE call.force

\* ActionTier(context["force_tier"]) raises ValueError.
Raises(call) == call.force = Bad

\* classify(); requires_confirmation is Asks of the result.
Classify(t, call) == ContextTier(t, ParamTier(BaseTier(t), call), call)

Asks(tier) == tier # 1
=================================================================================
