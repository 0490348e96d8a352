# TLA+ models of chiti

chiti is a personal assistant: a FastAPI backend that streams a model's answers
and runs tools after asking the user, a worker process that serves a job queue
and a scheduler, memories in SQLite and Qdrant, and a Next.js chat page. This
directory models the parts of it whose correctness depends on the order of
events, checks them with TLC and proves some of them with TLAPS.

Run `tlc -config X.cfg M` on the pairs under [Runs](#runs), `tlapm
M_proofs.tla` on the proof modules. `PROJECT.json` lists the same runs with a
fault for each property that the run catches, and maps every definition to the
lines it stands for.

## The system

| part | source | state | operations | hard behaviour |
|---|---|---|---|---|
| chat stream, tool approval | `backend/main.py`, `ActionConfirmBlock.tsx` | `_pending_approvals`, `_approval_results`, one generator per stream | chat, approve, deny | answers, timeouts and disconnects race |
| conversation store, chat turn | `memory/conversation.py`, `main.py` | tables conversations, messages | create, add, window for the model | missing rows, overlapping turns |
| chat page | `frontend/app/page.tsx` | current conversation, shown messages | submit, new chat, select | stale closures, late loads |
| job queue | `scheduler/queue.py` | table jobs | enqueue, claim, mark | claim in three statements, kills |
| worker | `worker.py`, systemd unit | loop position, stop event | poll, execute, start, stop | exceptions, restarts |
| scheduled jobs | `scheduler/jobs.py`, `engine.py`, `tools/job_tools.py` | table scheduled_jobs, APScheduler's store | create, update, delete, fire, record_run | two processes, stale prompts |
| structured memory | `memory/structured.py` | tables facts, preferences, people, events | upsert, list, delete | ids after conflicts |
| episodic memory | `memory/episodic.py` | Qdrant collection | store, delete, deduplicate | likeness is not transitive |
| consolidation | `memory/consolidation.py` | none of its own | nightly run | decisions applied after a long wait |
| tool result pipeline | `pipeline/` | breaker, metrics, approvals, overrides | process, classify | stage failures, thresholds |
| capability gateway | `pipeline/capability_gateway.py`, `skills/` | registry | register, get | start-up only |
| LLM client | `llm/claude.py`, `output_parser.py` | parser buffer | feed, flush, fail | deltas that cut a tag |
| LLM routing | `llm/router.py`, `query_classifier.py`, `ollama_client.py`, `offline.py` | cached connectivity | route, fall back, check | two failures in a row, overlapping checks |
| hub | `ws/hub.py`, `main.py` | sockets per process | connect, ping, broadcast | broadcast while clients come and go |
| notifications, push | `proactive/notifications.py`, `push.py`, `heartbeat.py`, `reflection.py` | tables of notes and subscriptions, a counter | create, push, subscribe, dismiss | two processes, one failing endpoint |
| filesystem observer | `proactive/observers.py` | snapshot, watched paths | watch, start, poll, stop | a thread beside the loop |
| uptime monitor | `tools/uptime_monitor.py` | targets, latest results, the loop's task | start, check, alert, stop | loops that overlap, callbacks that await |
| webhooks | `proactive/webhooks.py` and two receivers | handler table | register, receive | handler errors |
| file stores | `storage/`, `tools/cloud_storage.py`, `tools/filesystem.py` | files, one SFTP session | read, write, delete, move, list, find, stat | several requests per call, lost answers |
| OAuth tokens | `storage/oauth.py` and the flows | keychain entries, memory copy | store, get, refresh, revoke | half-written tokens, late refreshes |
| databases | `storage/database.py`, `postgres_tool.py` | pools by name | add, query, test, remove | removal in use, failed tests |
| other tools, export, health, config | | | one call each | none of ordering |

Calls between them: the page posts to `/api/chat`, which stores the message,
reads the history, streams the model's blocks, waits on the approval endpoints
and runs tools through the gateway; the job tools and the worker share the
tables of one SQLite file; the worker's poll loop and APScheduler's jobs run on
one asyncio loop; the nightly run writes the facts table while the API process
does.

Some parts have no caller: nothing appends to the audit log, nothing calls
`pipeline.process` (`chat` uses only the classifier), the router is called by the
health check alone, no module imports the secured router of `storage/router.py`
(the tools use `filesystem_router` of `storage/abstract.py`, which Storage models),
and the token flows (`exchange_code`, `refresh_access_token`, `revoke_token`) are
called by the repository's tests or not at all. They are modelled as the interface
they offer. `PROJECT.json` lists every component with its status
and, under `hazards`, what is hard to test, at its line.

## Modules

Each module names a `Faulty` variant beside some actions: a plausible bug, not
part of the specification, which breaks the property it was written for.

**ToolApproval** (`ChatSpec`), with the abstract **ConfirmationGate**. `at` is where each
`event_stream` generator is suspended; a step is the code between two suspension points of
the asyncio loop. `pending` and `results` are the two dictionaries, `signalled`
the events that are set. The timeout is two steps (`Expire`, `ResumeExpired`),
because `wait_for` cancels its waiter before the generator runs again and an
endpoint may be called in between. `Abort` is the cancelled response: it passes
the `finally` clause only when the generator is inside the `try`. The gate says
what a user may rely on: a call that needs confirmation is asked, the user
speaks, and it runs only on a standing "approved". Its `Phase` mapping is a
function of the emitted, executed and asked calls.

What the model makes visible and no property demands: an approval that arrives
after the timer fired is answered with 200 and the call is denied all the same
(`ApprovedRuns` states the wish; it is not checked because the code never
promises it in words), and its verdict stays in `_approval_results`.

**JobQueue**, with the abstract **JobBoard**. `claim_next` is its three
statements, since other processes run between them; the loop's handlers are the
actions after it. `enqueue` is two steps, the stamp and the insert that commits
(or raises): jobs are numbered by `created_at`, and rows may appear in another order,
so `ORDER BY created_at` does not make the queue first come, first served. What it
does guarantee is JobBoard: no job is overtaken by one that is both younger and
inserted later. `ahead` is a history of what a row found in the table. `Kill`, `StatementRaises` and `MarkDoneRaises` count as
faults. `orphans` remembers jobs a fault left "running".

**Scheduler** composes the table of scheduled jobs, the tools of the API process
and the worker's registration with `Queue == INSTANCE JobQueue`. APScheduler is
external: it remembers jobs until `start()` and then stores them. The store
engine.py configures pickles jobs, and the closures of worker.py cannot be
pickled, so with it a worker that finds an enabled job exits. To say anything
about the rest of the life of a job, `Stores` also admits `"memory"`, a store
that takes closures; the passing run explores both, the violating run only the
configured one.

A worker that failed to start is started again by systemd, and must then start once
the job that kept it from it is disabled or deleted (WorkerRecovers).

**Conversations**. The store, the turn and the page. A turn stamps, then
inserts; the page keeps `convId`, what it shows, the loads under way, and the
`convId` its reading closure captured. `parted` names the pages whose user did
one of three things the page has no defence against: moved while a new chat was
streaming, selected twice while a load was under way, or lost a new chat's
stream.

**Dedupe** is the episodic collection and `deduplicate`, with likeness as an
arbitrary reflexive, symmetric relation. **Consolidation** composes it (`Episodes
== INSTANCE Dedupe`) with the facts table and the nightly run. The model's
decisions name any row id, reviewed or not, gone or not, since the code applies
whatever the JSON holds; `MaxMerges` bounds the merges of one answer. A fact's
confidence is below the threshold or not.

**Pipeline** composes **Scrubber** and **Classifier** by INSTANCE. `process` has
no suspension point, so it is one step, with an action per way it returns; one
caller holds nothing, a tool's output or a result. Patterns are data: a content
is the severities of the patterns in it and a sequence of matches. Scrubber is the pure part: sort, drop,
replace from the end, with a text as the sequence of its positions, against a
definition that replaces all at once. Classifier keeps approvals and overrides;
the chat stream makes a classifier of its own per request, the pipeline shares
one, and the module stands for either. `outcomes` is a history.
Nothing in the program calls `record_approval`, so approvals lower a tier
only in tests. An override is a base tier which parameters still raise, as the code
has it; the docstring of `set_tool_override` (`action_classifier.py:307`) reads as if
it replaced the result.

**OutputParser**. The parser of a streamed answer with the loop of `_process` as
steps, and `parse_blocks`, the parser of a whole answer, as the function
`Blocks`. A character tells which tag it is a part of, so that a delta may end
within a tag; text is numbered, so that its order can be seen.

**Requests** puts ToolApproval, OutputParser and JobQueue side by side for one run, and
**Toolbox** does so with CloudStorage and Pipeline. What they compose shares no state, so a
behaviour is one `part`'s, and the fairness of a component is asked where its part moves.

**Storage**, **DriveStore**, **PathStores**, composed by **CloudStorage**. A store
is a set of items with an identity, a name and a parent: Drive lets two items
share a name, and a file that is renamed while it is written takes its writer
along. A call goes through the awaits of its code one request at a time, `kind`
says which of the five stores it talks to, and `Storage` holds what they share:
the router, the tools and the two ways of going wrong. `Fail` is an await that
raises before its effect, `Settle` one whose effect took place while its answer
may be lost. A file's content is named by the client that wrote it. `before` and
`quiet` are histories: what every path held when a call began, and whether
another call overlapped it. `CloudUpload` has the local branch, in which the write is
a coroutine nobody awaits: the file stays empty and success is told. The properties
of files and outcomes name that call as the one exception, and a run shows it.

**Hub**, **Notifications**, **Observer**, **Uptime**, composed by **Proactive**.
The hub exists once per process: clients are connected to the API's, the jobs
that create notifications broadcast on the worker's. A broadcast is a snapshot
and one send per step, after which the failed ones are swept. The list of subscriptions may fail to be read, which the
creation swallows, and any failure of a push may read like an expired endpoint. The observer's
thread compares snapshots, or watchdog reports each change; either way the loop
runs the callbacks later, from `queue`. The monitor gathers all its answers, then
stores and alerts one after the other, with a step where the callback awaits.

**Tokens**, **Databases**, **Routing**, composed by **Services**. They share no
state; a behaviour runs one `part` of the four. Each entry of the keychain names
the token it was written for, so that halves of two tokens can be told apart;
`owner` is the account connected last, and `spoilt` names why entries may not
belong together. `Found` is what `get_token` finds where the keychain answers,
`Current` all that it may return: None too, when a read raises. A `Restart` forgets the
memory copy, which is all there is without a keychain. `Databases` has one program counter per call; a pool counts the
connections it has given out, and `adrift` are the pools that left the table of
names before they were closed. In `Routing` a message is the set of signals the
classifier looks for, with the scores in hundredths; one sum of them is on the
wrong side of the threshold in binary floating point, and `Classify` says so; the
length of a conversation counts all its messages. A
connectivity check is its two probes and the store.

## Runs

| run | module, cfg | bounds | shows |
|---|---|---|---|
| requests | MCRequests | 2 streams, 3 calls, 2 of them to confirm; answers of up to 4 pieces; 1 worker, 3 jobs, 2 tasks, 3 faults | nothing runs against the last word, the pending table is exact, stored messages are consistent, ConfirmationGate with its liveness; every cut of an answer gives the blocks of the whole; at most once, running rows accounted for, JobBoard, no starvation |
| output_parser_text | MCRequests, MCRequestsText.cfg | the parser only | **violation**: the text at the end of an answer is emitted in the wrong order |
| scheduler | MCScheduler | 1 scheduled job, 2 prompts, 2 queue rows, 1 fault | deletion final, results belong to what ran, a worker that cannot start recovers |
| scheduler_register | MCScheduler, MCSchedulerRegister.cfg | the configured store | **violation**: an enabled job keeps the worker from starting |
| conversations | MCConversations | 2 pages, 2 turns, window 2, 2 moves | question in the window, answers sort last, pages send where they show |
| history_window | MCConversations, MCConversationsWindow.cfg | 1 page, 3 turns | **violation**: the window is the oldest messages |
| memory | MCConsolidation | 2 facts, 2 row ids, 1 merge, 3 summaries | no resurrection, a twin is kept, no twins are left |
| toolbox | MCToolbox | 2 calls, 5 trees of at most 3 items, each of the 5 stores; 2 tools, 3 configurations, 11 contents, 4 operations | no half files in a cloud, one file per path, outcomes that are true; the breaker follows the latest calls, redaction is exact, critical content is held, dangerous calls ask |
| storage_upload | MCToolbox, MCToolboxUpload.cfg | the stores only | **violation**: an upload to `local://` leaves an empty file and reports success |
| proactive | MCProactive | 2 clients, 2 notes, 2 endpoints, 2 files, 3 targets, in the combinations of `MCScopes` | a broadcast misses nobody, a push reaches all that work or none, alerts follow the results, files are told of |
| proactive_reach | MCProactive, MCProactiveReach.cfg | the same | **violation**: a created notification reaches no client |
| services | MCServices | 1 provider, 2 accounts, 3 tokens; 2 names, 3 calls; every mix of signals; 2 checks | tokens current and of the right account, connections come back, requests routed, statuses current |

Why the bounds are enough. Two streams and three calls give two concurrent waits
and a call that needs none; a call id is used once, so more of them add
interleavings of independent calls. Three jobs and three faults cover a kill, a
failed statement and a failed `mark_done` in one behaviour, and an old stamp that is
inserted behind two younger ones. Two row ids for two keys are a row deleted and inserted again with the
run under way. Three summaries are the shortest chain in which a doomed point
could doom another that has no kept neighbour; they fill the page of three and exceed
the search limit of two. One merge and any deletions beside it name every pair of rows. Two turns with a window of two make both the full and the
overfull window. Four operations with a threshold of two are a failure, a success and two more
failures, or a trip, a refusal and a reset. Seven pairs of secrets in four
characters are equal, nested, crossing and touching, the unequal in both orders, with
placeholders longer and shorter than what they replace. Two calls on a tree of a file and a
folder with a file cover every pair of operations on one path, on a path and its
folder, and on two paths; a path has at most two components (`MaxDepth`), which
is enough for a missing and an existing parent. `MCScopes` lists which clients,
notes, files and targets take part together: each scope is the smallest in which
two of them can interfere (a broadcast and a client, two notes and an endpoint
they share, two loops and a target, two targets of one URL), and `MaxGlitches`,
`MaxLoops`, `MaxRounds` and `MaxFlips` bound unreadable files, loops, rounds and
changes of a site; `Event` numbers the broadcasts of file changes, more than these
scopes make. Three tokens are one connection and two refreshes, or two
accounts and a refresh between them; `MaxSlips` is one failed write or deletion, crash or restart; reads of the keychain fail
at any time. Three
calls on two names are two that race and one that holds a connection; a pool of
one connection makes waiting happen, `MaxPools` two lets a name be added again.
Four pieces are a block with text on both sides, or two tags of which one is stray or
within the other; of the three opening tags one is shorter than what is kept, one as long
as a cut can leave visible, one longer. A clock of three with an `Interval` of two is a status that is stored, expires
and is checked again. Symmetry is used for pages and turns, keys and summaries, storage
clients and accounts; none of these runs checks liveness.

Deadlock is not checked where the model's supply of inputs is bounded: when all calls, jobs
or turns are used up the program rests.

### Findings

Shown by a run:

- `worker.py:147` promises registration after a restart. The store of
  `engine.py:34` cannot pickle the nested function of `worker.py:162`.
- `conversation.py:183` promises the last messages; the query returns the first.
  From the 21st message on the model is not shown the question.
- `notifications.py:71` promises to broadcast. The jobs that create notifications
  run in the worker, whose hub no client is connected to.
- `output_parser.py:136` joins the two buffers in the wrong order: an answer that ends
  with more than 50 characters of text is emitted with its last 50 first. An
  opening tag of more than 51 characters may go unseen, and an answer that ends within a
  block loses that block's content (what `parse_blocks` emits as text).
- `cloud_storage.py:252` does not await the write of a `local://` file: the upload
  truncates the target and reports success.

Met while modelling, part of the models as the code has it, without a run of
their own:

- `sftp.py:46` promises to reconnect on drop; a session that dropped is never opened again.
- `push.py:128` takes any error whose text contains 404 or 410 for an expired
  subscription, and the text contains the endpoint's URL and the response (`mistaken`).
- `oauth.py:211` promises to remove the token; a refresh under way stores its own after it (`spoilt`).
- `oauth.py:95` and `:98` say None is "not found" and an expired token raises; a
  keychain that cannot be read and an expired token give None, and the mail tools then
  tell a connected user to connect (`Current`; TokensAreTrue claims a token only where the
  keychain answers).
- `router.py:3` promises mutual fallback; it falls back when Ollama is absent, not when it
  refuses, and not from a cloud whose library is missing.
- `query_classifier.py:54` wants secrets kept from the local model, which gets
  them when the cloud fails. RequestsAreRouted says what is left of both promises: a
  conversation that ends with a secret is tried on the cloud first, and a request without
  one falls back from a side that is not there and from a cloud that refuses.
- `queue.py:83` calls `claim_next` atomic. Nothing ties the row it returns to
  the row it updated; with two workers (`Workers` of JobQueue) a job runs twice.
  The systemd unit starts one worker, so this is latent.
- `conversation.py:129` promises to create a missing conversation; the row has a
  fresh id, so the history of a chat's first turn is not listed.
- `test_pipeline_integration.py:192` asks for metrics of every result; the result
  of a tripped tool returns before the `try` that logs them (`RefuseTripped`).
- `backup/job.py:116` awaits a context manager, which always raises (`BackupRun`).
- Drive keeps two items under one path when two writers overlap, on a move onto
  a file, or when a file has the name of a folder to be made (`OneFilePerPath`
  says exactly when; the other stores refuse the last: `Barred`); Drive and Dropbox delete a
  folder with its contents though `abstract.py:81` promises files and empty folders.
- A refresh under way while another account connects brings the
  old account back, and an exchange that brings no refresh token leaves the old one.
- `database.py:267` registers a database before it tests it, and a failed test
  keeps its connection; closing a PostgreSQL pool always raises; SQLite writes
  stay in a transaction nothing commits; a MySQL pool with a leaked connection
  cannot be removed.
- Without httpx every chat with Ollama raises (`ollama_client.py:126` drops the payload).
- `consolidation.py:88` applies the model's decisions to any row they name; a decision
  about a fact that was restated meanwhile overwrites it.
- Two monitored targets of one URL share a result and alert in turns; `start()`
  twice leaves a loop that `stop()` does not end; a directory watched after the
  observer's start is never looked at.

## Fairness

ToolApproval: weak fairness on the generators' own steps, which the asyncio
loop and `wait_for`'s timer justify. Users, tools, the model and clients owe
nothing, and the gate's promise that every question is settled needs none of
them. JobQueue: weak fairness of the poll loop (it polls every half second, an
execution ends, systemd restarts a failed process); no fairness of enqueuers, faults or of
the stop signal. Scheduler: the same, and the start of the worker.
Proactive: the polling thread
comes round again (its wait has a timeout) and the event loop runs what was
queued; files and users owe nothing. The other runs check safety only.

## Proofs

Every invariant that a passing run checks is proved for all values of the constants
except RedactionIsExact, OutcomeIsTrue and CutsDoNotMatter, and so are the action
properties NoResurrection (of Scheduler and of Consolidation) and LeavesNoTwins.
TLC checked each inductive invariant on the run's instance before it
was proved. A proof follows one argument throughout: `Init => IInv`, one lemma
per action that `IInv` is kept, `IInv => Inv`, and a temporal step.

`ToolCalls_proofs` has two parts. The first is about ToolApproval, for any sets of
streams and calls, from `CallsAssumption`: `ChatTypeCorrect`, `ApprovalRequired` (NoUnapprovedExecution),
`PendingIsOwned`, `TranscriptIsWhole` (TranscriptTellsAll) and `RefinesGate`, the
safety part of the refinement.
NoUnapprovedExecution is not inductive: nothing in it relates the verdict a
waiter pops to the last one an endpoint wrote. `ChatInv` adds that one generator
holds a call at a time, that it is pending exactly while that generator waits,
and that `results` agrees with `word` meanwhile. For the transcript
`TranscriptInv` adds that a question is in the transcript of one stream only, the
one that asks it, and that a call that ran is shown there with its result, unless
its generator is at it or was aborted while it ran.

The second part is about Pipeline, from `PipelineAssumption`: `TypeCorrect`,
`BreakerTrips` (BreakerIsExact) and `DangerousIsConfirmed` (DangerousCallsAsk).
BreakerIsExact compares the flag with the history, and the flag is set from a
counter: `BreakerInv` adds that the counter is the length of the run of failures
that ends the history, and that the flag is up exactly at the threshold.
`CriticalContentIsHeld` (CriticalIsHeld) is inductive once the severity of a
content is computed: the worst of its patterns, which are severities 1 to 3 by
`PipelineAssumption`, is critical as soon as one of them is.

`CloudStorage_proofs`, for any clients, requests, layouts and kinds of store, from
`StorageAssumption` (contents are told apart, paths have one or two components, a
layout is a finite tree whose folders are in it):
`FilesAreWhole` (WholeFiles, the upload to `local://` included) and `OneFileEach` (OneFilePerPath).
`ItemsOK` says that no two items share a number and that a folder is older than what
is in it. `EmptyIsOpened` gives every empty file a writer of its own, so that a call
that ends, or fails, takes the excuse of no other file with it. The stores addressed
by path keep names apart in every step (`Sound`): what was looked up and what is
changed fall into one request. Drive does not, and there `Walk` follows one call
that nobody overlaps from its walk (what it has passed is the way to its path),
through the search for the parent folder (nothing stands at the target) to the folder
it makes (nothing stands there either) and the request that places the file. `Calm`
is the premise of OneFilePerPath; while it holds, `QuietIsAlone` says that the call
that steps is the only one under way.

`JobQueue_proofs`, from `QueueAssumption`: `TypeCorrect` and
`RunningRowsAreOwned` for any number of workers, and under `OneWorker`
`SoloAtMostOnce` and `SoloRefinesBoard`. With two workers the last two are
false: both read the same pending row. `SoloInv` says that the job between
SELECT and UPDATE has no older pending one among the rows it found when it was
inserted, that a claimed job is "running",
and that a job was run once if it is finished, running or orphaned and not before.

`Scheduler_proofs`, from `SchedulerAssumption`, for any jobs, prompts, job stores
and faults: `TypeCorrect`, `ResultsWereRun` (LastResultWasRun) and
`NothingResurrects` (NoResurrection). That a stored result stays the result of a
row that was run needs the queue's side: `QueueInv` says that the row a worker
holds was inserted and counts as run while it executes, so that no insert writes
a row that was run.

`Conversations_proofs`, from `ConversationsAssumption` (the window is positive;
NoTurn is no turn), for any pages, turns and moves: `TypeCorrect`,
`QuestionIsSeen` (SeesQuestionInWindow), `AnswersAreLast` (AnswersComeLast) and
`PagesSendWhereShown` (SendsWhereShown). `TurnInv` follows a turn from the
question it stored to the timestamp of its answer, which bounds all it has seen;
`PageInv` tells the two cases of a page that has not parted: it reads the stream
of a new chat whose id it does not have yet, or all it shows and loads is of
`convId`.

`Consolidation_proofs`, from `ConsolidationAssumption` (limits are positive,
NoFact is no row), for any facts, points and likeness: `TypeCorrect`,
`NothingResurrects`, `ATwinIsKept` (KeepsATwin) and
`NoTwinsAreLeft` (LeavesNoTwins). `ScanInv` says that a doomed point was seen, and
that a scan whose page and searches hold the whole collection has still to visit
what it has not seen and has doomed every neighbour of what it keeps; the last
theorem is this at the step that ends the scan.

`Services_proofs`, for any conversations, requests, checks, accounts, flows,
databases and calls. From `RoutingAssumption` (a conversation holds a message, the
interval is positive): `RequestsReachAModel` (RequestsAreRouted) and
`StatusStaysCurrent` (StatusIsCurrent). `RouterInv` adds to the first that
a request called again failed once, on the side it was planned for, and was not
forced; and that a secret outweighs all that may be deducted from the score. The
second is not inductive either: `DetectorInv` adds that what a check has seen, and
the cache, are as new as what was shown, unless the check overlapped another, and
that two checks under way are both marked as overlapping. `TokensStayTrue`
(TokensAreTrue) needs no assumption: `TokensInv` adds that while nothing of a
provider was spoilt its refresh token and every refresh under way are of the
account connected last (OwnerInv), and that the three entries of a keychain differ
only where something was (EntriesInv); who connected is found there, or in the memory
of a process that was not restarted. `ConnectionsReturn` (ConnectionsComeBack),
from `DatabasesAssumption` (the three drivers that DatabasePool knows), counts the
connections a pool has given out against the calls that hold one: `DbInv` adds
that a pool being initialized is known to its call only, and that the name of a
query still stands for the pool it took its connection from, so `release` finds
it, unless the pool is adrift.

`Proactive_proofs`, from `ProactiveAssumption` (notes and numbers are different
events, the targets are finite, a scope is made of the constants), for any
clients, notes, endpoints, targets and scopes: `BroadcastsReach`
(BroadcastReachesAll), `UrgentNotesArePushed` (UrgentIsPushed) and
`AlertsStayTrue` (AlertsAreTrue). `HubInv` follows a client through a broadcast: it
got nothing before its turn and one copy after it, unless it left, and only those
that left are dropped. `NotesInv` does the same for an endpoint through a push that
read the subscriptions; one that could not has pushed to nobody.
AlertsAreTrue counts alerts against changes of the site and is not inductive: a
result waits in `res` until it is stored. `AlertInv` counts also the alerts that
the pending result, and the site as it is now, will still call for; no step but a
change of the site raises that sum.

Model-checked only: what is temporal under fairness (the gate's liveness,
EveryJobIsTaken, WorkerRecovers, FilesAreTold), which is out of the prover's reach;
the runs that expect a violation; CutsDoNotMatter, which compares the parser with a
recursive function on answers, and RedactionIsExact, which compares what a
fold over the content leaves with what should be left, both inductions over data;
and OutcomeIsTrue of CloudStorage. That one would need, store by store, what a call
that nobody overlaps has done so far, and it is stated of requests that make sense:
a move of a path onto or into itself, which the operating system or the service
refuses, is not among MCToolbox's and the model does not describe it.

## Not modelled

Text is left out throughout: prompts, formatting, pattern libraries, rendering,
queries that only read. So are parts without state between calls or without
order to get wrong: the tools that call the operating system or a service once
(git, docker, processes, system, network, mail; a timeout there kills the
command-line client only), the log reader, export, health, configuration, the
webhook receivers (one request each), the skills and the gateway's registry
(filled at start-up, and `main.py` registers no skill), the summarizer and the
prompt injector, the audit log (no caller appends).

Left out of modelled parts: paths of more than two components;
the order in which aiomysql wakes its waiters; a table of names changing under
the iteration of `test_all`; watchdog's own coalescing of events; an error that ends the
polling thread; the JSON in an answer's block; httpx beside urllib in the uptime check
(the outcomes are the same).

Two hazards in `PROJECT.json` have no property, with the reason beside them: a page that
parted, and the connection of a failed test. Both are what the code does and no text of the
repository promises to avoid. So are some that are not listed there: a stream cut after a
tool ran leaves no message, a decision list is applied in part, duplicates beyond one page
or one search stay for a later night, the slower of two checks stores its status last, an
answer that ends within a block loses its content.

What could come next: a proof of OutcomeIsTrue, store by store; a second worker on the
queue, with what a claim would have to be.
