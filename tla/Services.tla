------------------------------ MODULE Services -------------------------------
(***************************************************************************)
(* What the tools and the chat lean on: tokens, databases and the choice   *)
(* of a model.  They share no state: each behaviour is one part's.         *)
(***************************************************************************)
EXTENDS Tokens, Databases, Routing

CONSTANT Parts  \* which of the parts a run looks at

VARIABLE part

vars == <<part, keyed, tokenVars, dbVars, wire, routeVars>>

Init ==
  /\ part \in Parts
  /\ keyed \in BOOLEAN /\ (part # "tokens" => keyed)
  /\ TokensInit /\ DbInit /\ RoutingInit
  /\ part # "router" => wire = [http |-> "httpx", anthropic |-> TRUE]

Next ==
  /\ \/ part = "tokens" /\ TokenStep /\ UNCHANGED <<dbVars, routeVars>>
     \/ part = "databases" /\ DbStep /\ UNCHANGED <<tokenVars, routeVars>>
     \/ part = "router" /\ RouterStep /\ UNCHANGED <<tokenVars, dbVars>>
     \/ part = "detector" /\ DetectorStep /\ UNCHANGED <<tokenVars, dbVars>>
  /\ UNCHANGED <<part, keyed, wire>>

Spec == Init /\ [][Next]_vars

------------------------------------------------------------------------------
(* Properties *)

\* A token that get_token gives is one whose expires_at has not passed, unless
\* a write or deletion in the keychain failed half way since: then it may be
\* the memory copy, or an entry whose metadata are another token's.  And it is
\* of the account that was connected last, and nobody's after a revoke, unless
\* such a failure, a refresh that was under way when the account changed, or a
\* refresh token that the new account did not replace brought back the old.
\* Where the keychain can be read, and a restart did not forget what had no
\* keychain, who connected has a token as long as it lasts.
TokensAreTrue ==
  \A p \in Provider :
    /\ \A t \in Current(p) \ {NoToken} :
         /\ t \in lapsed => spoilt[p] \cap {"write", "delete"} # {}
         /\ spoilt[p] = {} => issued[t].account = owner[p]
    /\ Found(p) = NoToken /\ spoilt[p] = {} /\ owner[p] # NoOne =>
         \E t \in lapsed : issued[t].account = owner[p]

Holders(i) == {t \in Task : Mine(t) = i /\ task[t].pc \in {"execute", "probe", "release"}}

\* Every connection a pool has given out is in the hands of a call that will
\* give it back, or was lost to a connection test that failed; only a pool that
\* left the table of names before it was closed, because two calls added or
\* removed the name at once, loses others.  A write reported as done has run
\* once and is committed, except on SQLite, where it stays in a transaction
\* that nothing ends.
ConnectionsComeBack ==
  /\ \A i \in DOMAIN pool \ adrift :
       Pooled(i) => pool[i].out = Cardinality(Holders(i)) + pool[i].failed
  /\ \A t \in Task :
       (At(t, "done") /\ task[t].op = "query" /\ task[t].told = "ok" /\ Changes(task[t].query))
         => task[t].ran = (IF Pooled(Mine(t)) THEN 1 ELSE 0)

Secret(q) == "sensitive" \in q.chat[Len(q.chat)]

\* A conversation that ends with a secret is tried on the cloud first, so the
\* local model is asked only after the cloud failed (query_classifier.py says
\* it never sees one; whether it then must is left open here).  An
\* answer is the last side's that was tried, no side is tried twice, and none
\* but the one a request was forced to.  A request without a secret falls back
\* from a side that is not there, and from a cloud that refuses.  The error
\* told is the cloud's wherever Ollama was merely absent.
RequestsAreRouted ==
  \A r \in Request : LET q == request[r] IN
    q.pc = "done" =>
      LET first == q.tried[1]
          last == q.tried[Len(q.tried)]
      IN
      /\ q.force = "none" /\ Secret(q) => first.side = "cloud"
      /\ first.got = "answer" => Len(q.tried) = 1
      /\ (last.got = "answer") <=> (q.told = last.side)
      /\ Len(q.tried) = 1 \/ (Len(q.tried) = 2 /\ last.side # first.side)
      /\ q.force # "none" => Len(q.tried) = 1 /\ last.side = q.force
      /\ q.force = "none" /\ ~Secret(q)
           /\ (first.got = "absent" \/ first = [side |-> "cloud", got |-> "refused"])
             => Len(q.tried) = 2
      /\ last.side = "local" /\ last.got = "absent" /\ q.force = "none" => q.told = "cloud failed"

\* get_status never returns a status that was stored an interval ago or
\* earlier, and never one older than it returned before, unless the check that
\* found it overlapped with another: then the older may be stored last.
StatusIsCurrent ==
  /\ ~shown.late
  /\ shown.back => shown.overlap
==============================================================================
