-------------------------------- MODULE Pipeline --------------------------------
(***************************************************************************)
(* ToolResultPipeline (pipeline/pipeline.py): what the assistant makes of  *)
(* the output of a tool.  The firewall, the scrubber, the tagger and the   *)
(* classifier run in this order; each but the last can be bypassed per     *)
(* tool; a stage that raises counts against the tool, and a circuit        *)
(* breaker refuses the tool after Threshold such failures in a row.        *)
(*                                                                         *)
(* process() has no suspension point, so a call of it is one step, and one *)
(* caller is enough: it holds nothing, a tool's output, or the pipeline's  *)
(* result.  Two inputs make a stage raise: content json.dumps cannot       *)
(* encode, and a force_tier that is no tier.  What the patterns match is   *)
(* data: a content is the severities of the patterns in it and its secrets.*)
(* Tags, reasons and wording are left out, and with them should_tag and    *)
(* the confidence it depends on.                                           *)
(***************************************************************************)
EXTENDS Integers, Sequences, FiniteSets

CONSTANTS
  Tools, Tables, ApprovalsNeeded, MaxApprovals, None, Bad,
  Threshold,        \* of the breaker, 5
  PlaceholderLen,
  Configs,          \* the configurations to consider
  Contents,         \* the contents tools return
  Length,           \* length of a content
  Sources,          \* the content sources to consider
  Forces,           \* the values of force_tier to consider
  MaxOps            \* bounds the calls that change the pipeline's state

VARIABLES
  config,           \* PipelineConfig: the mode and the tools bypassed per stage
  failures,         \* _failures
  tripped,          \* _tripped
  log,              \* _metrics_log: how many entries, how many of them blocked
  approvals,
  overrides,
  held,             \* what the caller holds
  outcomes,         \* history: how the calls of a tool ended since its reset
  ops

Scrub == INSTANCE Scrubber
Tiers == INSTANCE Classifier

breaker == <<failures, tripped, outcomes>>
pipelineVars == <<config, breaker, log, approvals, overrides, held, ops>>

\* Trust levels in the order of _TRUST_ORDER.
Untrusted == 1
Sanitized == 2
SemiTrusted == 3
Trusted == 4

SourceTrust ==
  [local_filesystem |-> Trusted, internal |-> Trusted,
   user_input |-> SemiTrusted, database |-> SemiTrusted,
   process_output |-> SemiTrusted,
   external_web |-> Untrusted, external_api |-> Untrusted, unknown |-> Untrusted]

Modes == {"strict", "balanced", "permissive"}

ASSUME PipelineAssumption ==
  /\ Tables \in [Tools -> Tiers!Tier]
  /\ ApprovalsNeeded \in Nat \ {0}
  /\ MaxApprovals \in Nat
  /\ None \notin Tiers!Tier /\ Bad \notin Tiers!Tier
  /\ Bad \notin Contents /\ None # Bad
  /\ \A c \in Contents : c.patterns \subseteq 1..3
  /\ Threshold \in Nat \ {0}
  /\ MaxOps \in Nat
  /\ Sources \subseteq DOMAIN SourceTrust
  /\ Forces \subseteq Tiers!Tier \cup {None, Bad}
  /\ Configs \subseteq [mode : Modes, firewall : SUBSET Tools,
                        scrubber : SUBSET Tools, tagger : SUBSET Tools]

Nothing == [kind |-> "nothing"]

TypeOK ==
  /\ config \in Configs
  /\ failures \in [Tools -> 0..Threshold]
  /\ tripped \in [Tools -> BOOLEAN]
  /\ log \in [total : Nat, blocked : Nat]
  /\ Tiers!TypeOK
  /\ held.kind \in 
       {"nothing", "output", "refused", "blocked", "error", "passed", "classified"}
  /\ outcomes \in [Tools -> Seq({"ok", "failed"})]
  /\ ops \in 0..MaxOps

PipelineInit ==
  /\ config \in Configs
  /\ failures = [t \in Tools |-> 0]
  /\ tripped = [t \in Tools |-> FALSE]
  /\ log = [total |-> 0, blocked |-> 0]
  /\ Tiers!Init
  /\ held = Nothing
  /\ outcomes = [t \in Tools |-> <<>>]
  /\ ops = 0

-----------------------------------------------------------------------------
\* The circuit breaker.

\* Faulty IsTripped: the breaker is not asked.
NeverTripped(t) == FALSE

IsTripped(t) == tripped[t]

RecordFailure(t) ==
  /\ failures' = [failures EXCEPT ![t] = @ + 1]
  /\ tripped' = [tripped EXCEPT ![t] = IF failures[t] + 1 >= Threshold THEN TRUE ELSE @]
  /\ outcomes' = [outcomes EXCEPT ![t] = Append(@, "failed")]

\* Faulty RecordSuccess: failures add up over the tool's life.
RecordSuccessKeeps(t) ==
  /\ tripped' = [tripped EXCEPT ![t] = FALSE]
  /\ outcomes' = [outcomes EXCEPT ![t] = Append(@, "ok")]
  /\ UNCHANGED failures

RecordSuccess(t) ==
  /\ failures' = [failures EXCEPT ![t] = 0]
  /\ tripped' = [tripped EXCEPT ![t] = FALSE]
  /\ outcomes' = [outcomes EXCEPT ![t] = Append(@, "ok")]

-----------------------------------------------------------------------------
\* The stages.

\* ContentFirewall.scan: the worst of the patterns that match.
Worst(c) == CHOOSE s \in c.patterns \cup {0} : \A p \in c.patterns : p <= s

\* Faulty Severity: a critical pattern in technical output is lowered too.
SeverityLowered(c, technical) ==
  IF technical /\ Worst(c) > 0 THEN Worst(c) - 1 ELSE Worst(c)

\* ContextAwareFirewall.scan: what looks suspicious in code and logs is worth
\* one less, unless a critical pattern was found.
Severity(c, technical) ==
  IF technical /\ Worst(c) > 0 /\ 3 \notin c.patterns THEN Worst(c) - 1 ELSE Worst(c)

\* _determine_action's should_block of a firewall that is not in strict_mode,
\* the only one the pipeline has.
ShouldBlock(severity) == severity = 3

\* _run_firewall: the pipeline's strict mode blocks whatever was found.
Firewall(t, c, technical) ==
  LET severity == IF t \in config.firewall THEN 0 ELSE Severity(c, technical)
  IN  [severity |-> severity,
       block |-> \/ config.mode = "balanced" /\ ShouldBlock(severity)
                 \/ config.mode = "strict" /\ severity >= 1]

\* _run_scrubber: what is redacted.
Secrets(t, c) == IF t \in config.scrubber THEN <<>> ELSE Scrub!Deduplicate(c.matches)

\* ContentTagger.tag for one origin: the lowest of what each stage allows.
Tagged(source, severity, kept) ==
  LET levels == {SourceTrust[source]}
                  \cup (IF severity >= 2 THEN {Untrusted} ELSE {})
                  \cup (IF severity = 1 THEN {SemiTrusted} ELSE {})
                  \cup (IF kept # <<>> THEN {Sanitized} ELSE {})
  IN  CHOOSE x \in levels : \A y \in levels : x <= y

\* _run_tagger: a tool that bypasses it is trusted.
Trust(t, source, severity, kept) ==
  IF t \in config.tagger THEN Trusted ELSE Tagged(source, severity, kept)

\* requires_disclosure: the model gets the wrapped text.
Discloses(trust) == trust \in {Untrusted, Sanitized}

\* _wrap_for_llm: what the header and the footer call the text; only that of
\* untrusted text tells the model to treat it as data.
Wrapping(trust) ==
  CASE trust = Trusted -> "none"
    [] trust = Untrusted -> "untrusted"
    [] trust = Sanitized -> "sanitized"
    [] trust = SemiTrusted -> "external"

\* The tool call the pipeline classifies has no parameters.
ResultCall(force) == [force |-> force, dangerous |-> FALSE, trusted |-> FALSE]

-----------------------------------------------------------------------------
\* process(), one action per way it returns.

Count(counts, blocked) ==
  [total |-> counts.total + 1,
   blocked |-> IF blocked THEN counts.blocked + 1 ELSE counts.blocked]

\* A tool has run.
ToolReturns(t, c, technical, source, force) ==
  /\ held = Nothing
  /\ ops < MaxOps
  /\ ops' = ops + 1
  /\ held' = [kind |-> "output", tool |-> t, content |-> c,
              technical |-> technical, source |-> source, force |-> force]
  /\ UNCHANGED <<config, breaker, log, approvals, overrides>>

\* A result is returned; the finally clause logs its metrics.
Return(result, blocked) ==
  /\ held' = result
  /\ log' = Count(log, blocked)

Processing ==
  /\ held.kind = "output"
  /\ ~IsTripped(held.tool)
  /\ UNCHANGED <<config, approvals, overrides, ops>>

\* The breaker's check returns before the try, so nothing is logged.
RefuseTripped ==
  /\ held.kind = "output"
  /\ IsTripped(held.tool)
  /\ held' = [kind |-> "refused"]
  /\ UNCHANGED <<config, breaker, log, approvals, overrides, ops>>

ExtractRaises ==
  /\ Processing
  /\ held.content = Bad
  /\ RecordFailure(held.tool)
  /\ Return([kind |-> "error"], FALSE)

Scanned == Firewall(held.tool, held.content, held.technical)

Block ==
  /\ Processing
  /\ held.content # Bad
  /\ Scanned.block
  /\ RecordSuccess(held.tool)
  /\ Return([kind |-> "blocked"], TRUE)

ClassifierRaises ==
  /\ Processing
  /\ held.content # Bad
  /\ ~Scanned.block
  /\ Tiers!Raises(ResultCall(held.force))
  /\ RecordFailure(held.tool)
  /\ Return([kind |-> "error"], FALSE)

Deliver ==
  /\ Processing
  /\ held.content # Bad
  /\ ~Scanned.block
  /\ ~Tiers!Raises(ResultCall(held.force))
  /\ RecordSuccess(held.tool)
  /\ LET kept == Secrets(held.tool, held.content)
         trust == Trust(held.tool, held.source, Scanned.severity, kept)
     IN  Return([kind |-> "passed", tool |-> held.tool, content |-> held.content,
                 body |-> Scrub!Redact(Scrub!Original(Length), kept),
                 wrapping |-> IF Discloses(trust) THEN Wrapping(trust) ELSE "none",
                 tier |-> Tiers!Classify(held.tool, ResultCall(held.force))], FALSE)

Process == RefuseTripped \/ ExtractRaises \/ Block \/ ClassifierRaises \/ Deliver

\* The caller is done with a result.
Take ==
  /\ held.kind \notin {"nothing", "output"}
  /\ held' = Nothing
  /\ UNCHANGED <<config, breaker, log, approvals, overrides, ops>>

-----------------------------------------------------------------------------
\* reset_circuit_breaker
Reset(t) ==
  /\ ops < MaxOps
  /\ ops' = ops + 1
  /\ failures' = [failures EXCEPT ![t] = 0]
  /\ tripped' = [tripped EXCEPT ![t] = FALSE]
  /\ outcomes' = [outcomes EXCEPT ![t] = <<>>]
  /\ UNCHANGED <<config, log, approvals, overrides, held>>

RecordApproval(t) ==
  /\ ops < MaxOps
  /\ ops' = ops + 1
  /\ Tiers!RecordApproval(t)
  /\ UNCHANGED <<config, breaker, log, held>>

SetTierOverride(t, tier) ==
  /\ ops < MaxOps
  /\ ops' = ops + 1
  /\ Tiers!SetTierOverride(t, tier)
  /\ UNCHANGED <<config, breaker, log, held>>

\* A caller, such as the chat stream, classifies a call it is about to make.
ClassifyCall(t, call) ==
  /\ held = Nothing
  /\ held' = [kind |-> "classified", tool |-> t, call |-> call,
              tier |-> Tiers!Classify(t, call)]
  /\ UNCHANGED <<config, breaker, log, approvals, overrides, ops>>

PipelineNext ==
  \/ \E t \in Tools, c \in Contents \cup {Bad}, technical \in BOOLEAN,
        source \in Sources, force \in Forces :
       ToolReturns(t, c, technical, source, force)
  \/ Process
  \/ Take
  \/ \E t \in Tools :
       \/ Reset(t)
       \/ RecordApproval(t)
       \/ \E tier \in Tiers!Tier : SetTierOverride(t, tier)
       \/ \E dangerous, trusted \in BOOLEAN, force \in Forces \ {Bad} :
            ClassifyCall(t, [force |-> force, dangerous |-> dangerous,
                             trusted |-> trusted])

PipelineSpec == PipelineInit /\ [][PipelineNext]_pipelineVars

-----------------------------------------------------------------------------
\* CircuitBreaker: "After `threshold` consecutive failures the tool is tripped
\* and will return a blocked result until manually reset".  A tool is tripped
\* exactly if the latest Threshold of its calls, of those that were not
\* refused, all failed; what other tools do has no part in it.
AllFailed(s, n) ==
  /\ Len(s) >= n
  /\ \A i \in (Len(s) - n + 1)..Len(s) : s[i] = "failed"

BreakerIsExact == \A t \in Tools : tripped[t] <=> AllFailed(outcomes[t], Threshold)

\* What is delivered is the tool's output with every kept match replaced at its
\* place, whatever the order, the overlaps and the lengths of the matches;
\* the kept ones are disjoint and every match found starts in one of them.
RedactionIsExact ==
  held.kind = "passed" /\ held.tool \notin config.scrubber =>
    LET kept == Secrets(held.tool, held.content)
    IN  /\ Scrub!IsDeduplication(kept, held.content.matches)
        /\ held.body = Scrub!Redacted(Length, kept)

\* Content with a critical pattern is delivered only where the configuration
\* says so, technical context or not: in permissive mode or past a bypassed
\* firewall.  And in permissive mode it is wrapped as untrusted text, whatever
\* its source and whatever was redacted in it, unless the tagger is bypassed.
CriticalIsHeld ==
  held.kind = "passed" /\ 3 \in held.content.patterns /\ held.tool \notin config.firewall =>
    /\ config.mode = "permissive"
    /\ held.wrapping = "untrusted" \/ held.tool \in config.tagger

\* A call with dangerous parameters needs confirmation, and the explicit one
\* unless its script is trusted, whatever was approved before and whatever
\* override the user set: only the caller's force_tier removes it.
DangerousCallsAsk ==
  held.kind = "classified" /\ held.call.dangerous /\ held.call.force = None =>
    /\ Tiers!Asks(held.tier)
    /\ held.call.trusted \/ held.tier = 3
=================================================================================
