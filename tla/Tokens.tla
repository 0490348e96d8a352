------------------------------- MODULE Tokens --------------------------------
(***************************************************************************)
(* The OAuth tokens (storage/oauth.py) and who obtains and uses them: the  *)
(* flows of storage/gdrive.py and storage/dropbox_backend.py, the file     *)
(* systems' headers and the mail tools.                                    *)
(*                                                                         *)
(* The keychain keeps a provider's token in three entries that are written *)
(* one after the other; a write or a read may raise, and the process may   *)
(* die at any time, between two writes too.  Time is a token's expiry.  An entry of the keychain names *)
(* the token it was written for, so that halves of two tokens can be seen. *)
(***************************************************************************)
EXTENDS Naturals, FiniteSets

CONSTANTS
  Provider,   \* "gdrive", "dropbox", "gmail"
  Refreshed,  \* the providers that have a refresh: gdrive
  Account,    \* the user's accounts with a provider
  Flow,       \* an exchange or refresh under way
  MaxTokens,  \* bound: tokens the providers hand out
  MaxSlips    \* bound: keychain writes and deletions that fail, and restarts

VARIABLES
  keyed,   \* KEYRING_AVAILABLE
  ring,    \* Provider -> the keychain's entries
  copy,    \* _memory_cache
  issued,  \* the tokens handed out, in order
  lapsed,  \* those past their expires_at
  flow,    \* Flow -> what it asked and read
  owner,   \* history: Provider -> the account connected last, NoOne after a revoke
  spoilt,  \* history: Provider -> why its token may be gone, or of two tokens
  slips

tokenVars == <<ring, copy, issued, lapsed, flow, owner, spoilt, slips>>

NoToken == 0
NoOne == "no one"
Entry == {"access", "refresh", "meta"}
Empty == [e \in Entry |-> NoToken]
NoFlow == [kind |-> "none"]

TokensInit ==
  /\ ring = [p \in Provider |-> Empty]
  /\ copy = [p \in Provider |-> NoToken]
  /\ issued = [t \in {} |-> Empty] /\ lapsed = {}
  /\ flow = [f \in Flow |-> NoFlow]
  /\ owner = [p \in Provider |-> NoOne]
  /\ spoilt = [p \in Provider |-> {}]
  /\ slips = 0

Slip == slips < MaxSlips /\ slips' = slips + 1

\* a call of exchange_code waits for the provider's answer
AskExchange(f, p, a) ==
  /\ flow[f] = NoFlow
  /\ flow' = [flow EXCEPT ![f] = [kind |-> "exchange", p |-> p, account |-> a,
                                  refresh |-> NoToken, late |-> FALSE]]
  /\ UNCHANGED <<ring, copy, issued, lapsed, owner, spoilt, slips>>

\* get_full_token: the memory copy is not looked at while there is a keychain,
\* and a read of the keychain that raises is logged and gives none
FullToken(p) ==
  IF keyed THEN {Empty} \cup (IF ring[p].access = NoToken THEN {} ELSE {ring[p]})
  ELSE IF copy[p] = NoToken THEN {Empty}
  ELSE {[e \in Entry |-> IF e = "refresh" /\ ~issued[copy[p]].renews THEN NoToken ELSE copy[p]]}

\* refresh_access_token: without a refresh token it raises, else it asks with it
AskRefresh(f, p) ==
  \E full \in FullToken(p) :
    /\ p \in Refreshed /\ flow[f] = NoFlow /\ full.refresh # NoToken
    /\ flow' = [flow EXCEPT ![f] = [kind |-> "refresh", p |-> p, refresh |-> full.refresh,
                                    account |-> issued[full.refresh].account, late |-> FALSE]]
    /\ UNCHANGED <<ring, copy, issued, lapsed, owner, spoilt, slips>>

\* a status other than 200, or no answer: the flow raises and stores nothing
AskFails(f) ==
  /\ flow[f] # NoFlow
  /\ flow' = [flow EXCEPT ![f] = NoFlow]
  /\ UNCHANGED <<ring, copy, issued, lapsed, owner, spoilt, slips>>

\* the entries store_token writes, in its order
Writes(t) == IF issued'[t].renews THEN <<"access", "refresh", "meta">> ELSE <<"access", "meta">>
Written(r, t, n) ==
  [e \in Entry |-> IF \E i \in 1..n : Writes(t)[i] = e THEN t ELSE r[e]]

\* a refresh that was under way when the owner changed brings the old account back
Late(p) == [f \in Flow |-> IF flow[f].kind = "refresh" /\ flow[f].p = p
                             THEN [flow[f] EXCEPT !.late = TRUE] ELSE flow[f]]

\* store_token of the token t the provider answered with.  `done` of its
\* writes take place; the next one raises and the token goes to memory, or the
\* process dies, with everything it has in memory
StoreToken(f, t, done, end) ==
  LET p == flow[f].p
      n == IF issued'[t].renews THEN 3 ELSE 2
      renewal == flow[f].kind = "refresh"
  IN
  /\ end = "stored" => done = IF keyed THEN n ELSE 0
  /\ end # "stored" => Slip /\ keyed /\ done < n
  /\ ring' = [ring EXCEPT ![p] = Written(@, t, done)]
  /\ IF end = "crashed"
       THEN copy' = [q \in Provider |-> NoToken] /\ flow' = [g \in Flow |-> NoFlow]
       ELSE /\ copy' = IF end = "raised" \/ ~keyed THEN [copy EXCEPT ![p] = t] ELSE copy
            /\ flow' = [IF renewal THEN flow ELSE Late(p) EXCEPT ![f] = NoFlow]
  /\ owner' = IF renewal THEN owner ELSE [owner EXCEPT ![p] = flow[f].account]
  /\ spoilt' = [spoilt EXCEPT ![p] =
       IF end # "stored" THEN @ \cup {"write"}
       ELSE IF flow[f].late THEN @ \cup {"late"}
       ELSE IF renewal THEN @
       ELSE IF keyed /\ ring[p].refresh # NoToken /\ ~issued'[t].renews THEN {"old refresh"}
       ELSE {}]

\* store_from_oauth_flow: the token of an answer; without expires_in it lasts
Token(account, renews, lasting) ==
  [account |-> account, renews |-> renews, lasting |-> lasting]

\* the answer: a refresh keeps the refresh token it was asked with, so the new
\* token renews whatever the provider says; an exchange takes what came
Answered(f, renews, lasting, end) ==
  LET t == Cardinality(DOMAIN issued) + 1 IN
  /\ flow[f] # NoFlow /\ t <= MaxTokens
  /\ flow[f].kind = "refresh" => renews
  /\ issued' = [i \in DOMAIN issued \cup {t} |->
                  IF i = t THEN Token(flow[f].account, renews, lasting) ELSE issued[i]]
  /\ \E done \in 0..3 : StoreToken(f, t, done, end)
  /\ end = "stored" => UNCHANGED slips
  /\ UNCHANGED <<lapsed>>

\* the expires_at of a token that has one comes
Lapse(t) ==
  /\ t \in DOMAIN issued \ lapsed /\ ~issued[t].lasting
  /\ lapsed' = lapsed \cup {t}
  /\ UNCHANGED <<ring, copy, issued, flow, owner, spoilt, slips>>

\* get_token, which the headers of the file systems and the mail tools ask
\* for, where the keychain answers: _refresh_token is a placeholder that
\* returns None
Found(p) ==
  IF ~keyed THEN IF copy[p] \in lapsed THEN NoToken ELSE copy[p]
  ELSE IF ring[p].access = NoToken THEN copy[p]
  ELSE IF ring[p].meta \in lapsed THEN NoToken
  ELSE ring[p].access

\* what it may return: a read of the keychain that raises is logged and gives
\* None too, on which the file systems refuse and the mail tools answer
\* "Not Connected"
Current(p) == {Found(p)} \cup (IF keyed THEN {NoToken} ELSE {})

\* mutant: the memory copy is only forgotten where there is no keychain
RevokeRingOnly(p) ==
  /\ ring' = [ring EXCEPT ![p] = Empty]
  /\ copy' = IF keyed THEN copy ELSE [copy EXCEPT ![p] = NoToken]
  /\ owner' = [owner EXCEPT ![p] = NoOne]
  /\ spoilt' = [spoilt EXCEPT ![p] = {}]
  /\ flow' = Late(p)
  /\ UNCHANGED <<issued, lapsed, slips>>

\* revoke_token: a deletion that raises is passed over
Revoke(p) ==
  /\ \E left \in SUBSET Entry :
       /\ ring' = [ring EXCEPT ![p] = [e \in Entry |-> IF keyed /\ e \notin left THEN NoToken ELSE @[e]]]
       /\ IF ring'[p] = Empty THEN UNCHANGED slips ELSE keyed /\ Slip
       /\ spoilt' = [spoilt EXCEPT ![p] = IF ring'[p] = Empty THEN {} ELSE {"delete"}]
  /\ copy' = [copy EXCEPT ![p] = NoToken]
  /\ owner' = [owner EXCEPT ![p] = NoOne]
  /\ flow' = Late(p)
  /\ UNCHANGED <<issued, lapsed>>

\* the process ends and is started again: what was only in memory is gone
Restart ==
  /\ Slip
  /\ copy' = [p \in Provider |-> NoToken] /\ flow' = [f \in Flow |-> NoFlow]
  /\ spoilt' = [p \in Provider |-> IF keyed THEN spoilt[p] ELSE spoilt[p] \cup {"restart"}]
  /\ UNCHANGED <<ring, issued, lapsed, owner>>

TokenStep ==
  \/ \E f \in Flow, p \in Provider, a \in Account : AskExchange(f, p, a)
  \/ \E f \in Flow, p \in Provider : AskRefresh(f, p)
  \/ \E f \in Flow : AskFails(f)
  \/ \E f \in Flow, renews, lasting \in BOOLEAN, end \in {"stored", "raised", "crashed"} :
       Answered(f, renews, lasting, end)
  \/ \E t \in DOMAIN issued : Lapse(t)
  \/ \E p \in Provider : Revoke(p)
  \/ Restart
==============================================================================
