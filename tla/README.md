# Verification of the WhatsApp sales assistant

TLA+ models, TLC runs and TLAPS proofs for the multi-tenant WhatsApp sales
assistant in `apps/api/src` (FastAPI, SQLAlchemy async, Celery, PostgreSQL,
Redis, Meta's WhatsApp Cloud API). Every definition of the models is translated
from the source lines that `PROJECT.json` ("map") names.

The product makes promises that no unit test can settle: a customer gets each
reply once and never after STOP, whatever dies or is retried; a template goes to
a phone once a day; a request that was filled in from two screens says what the
customer saw. They depend on which row or advisory lock is held when, on what
is committed before a POST, and on what a session writes from memory. Those are
the things modelled here.

## 1. The system

| Component | State it keeps | Operations | What is hard | What makes it correct |
|---|---|---|---|---|
| Bot turns: `workers/agent_runtime.py`, `agents/runtime_models.py` | `agent_runtime_jobs` (status, attempts, audit), the Celery queue, an advisory lock per tenant and phone | claim, decide, call the model, send boundary, POST, finish, exception handler, recovery sweep | two workers, crashes, redelivery, STOP racing the POST, stale rows | one POST per turn, none after STOP, order, every turn settles |
| Webhook: `outreach/webhooks.py` | messages, contacts, conversations, opt-outs, delivery states | inbound message, STOP, status callbacks | at-least-once and out-of-order delivery by Meta, overlapping transactions, lock order | a callback never takes back proof |
| Inbox control, replies by hand: `outreach/inbox_control.py`, `outreach/service.py`, `admin_chat/workflow_inbox.py` | messages with `manual_send_state`, reply operations with receipts | resume the bot, send, retry, poll | double clicks, a lost answer, two people answering | one POST per reply, none beside an unsettled one |
| Operator batches: `admin_chat/outbound.py`, `workers/chat_outbound.py` | batches and recipients | prepare, confirm and queue, cancel, dispatch, send one, sweep, callbacks | racing drains, cancellation, capacity read by two operators | one POST per recipient, one template per phone and day, the cap holds |
| Selection intake: `selection/*`, the hosted form | `selection_requests` (answers, step, revision, snapshot), events, form actions, files | chat reducer, form save, upload and confirm, STOP, review | two front ends edit one draft; retries; old buttons | nothing unseen is overwritten or confirmed, confirmations are frozen |
| Agent versions, builder, configuration sessions: `agents/service.py`, `builder_service.py`, `configuration_session.py`, `config_flow.py` | versions, drafts, sessions, revisions | create, edit, test, promote, roll back, answer, undo | two operators at once, stale revisions | exactly one live version, drafts not overwritten |
| Company runtime: `agents/company_runtime.py`, `semantic_dialogue.py` | none but what the last reply was about | classify, plan, validate the model's plan, render | the fallback ladder, what may be said | only published facts are said |
| Operator assistant: `admin_chat/workflows.py`, `task_runner.py`, `planner.py` | sessions, workflow rows, task runs | plan, answer steps, confirm, pause, run tasks | a command sent twice, stale cards | each command takes effect once, on the card that was shown |
| Authentication: `auth/*`, `core/security.py` | users, invitations, refresh tokens | login, refresh, logout, invite, accept | two refreshes with one token | a token is used once |
| Discovery, enrichment, scoring: `discovery/*`, `workers/discovery.py`, `workers/enrichment.py` | campaigns, leads, contacts | run, ingest, enrich, score | duplicate leads, a campaign stopped while it runs | one lead per company |
| Compliance, maintenance: `compliance/*`, `workers/maintenance.py` | opt-outs, IYS cache, counters | add and remove opt-outs, check, reset | checks that are stale when used | checked under the lock the send holds |
| Tenant context, pool: `core/db.py`, `core/tenancy.py` | tenant setting per transaction | set, reset | a setting that survives on a pooled connection; two connections per turn | no session sees another tenant |
| Integrations, sectors, reports, legal pages, web client, deployment | tables, pages, clients | CRUD, queries, rendering, calls | - | - |

How they interact. The webhook commits rows and then publishes job ids to the
Celery queue; the workers read only the database, so the queue is a hint and the
rows are the truth. STOP, replies by hand, batch sends and bot turns meet on one
PostgreSQL advisory lock per tenant and phone. A bot turn that belongs to a
selection locks the draft row it edits, and so does the hosted form. The
recovery task (Celery beat, 15 s) republishes pending turns, recovers stale ones
and drains operator batches. Everything sent is committed as SENDING before the
POST, because no answer of Meta's is also an answer.

`PROJECT.json` lists every component with its status and, under "hazards", what
in this code is hard to test, at the line where it bites, with the properties
that cover it.

## 2. Modules

| Module | Models | Map |
|---|---|---|
| `TurnDelivery` | what bot turns promise: a serial one-shot channel to a customer | abstract, no code of its own |
| `AgentRuntime` | bot turns of one conversation, with webhook, workers, sweep, operator and form as far as they touch them | `workers/agent_runtime.py`, `webhooks.py`, `inbox_control.py`, `selection/service.py` |
| `ChatOutbound` | operator batches of one tenant and sender | `admin_chat/outbound.py`, `router.py`, `workflow_outreach.py`, `workers/chat_outbound.py`, `webhooks.py` |
| `DeliveryStatus` | the pure `_next_delivery_status` | `webhooks.py:69-103` |
| `DeliveryReceipts` | callbacks on one outreach or runtime job, beside the worker's commit and a resume; extends `DeliveryStatus` | `webhooks.py`, `inbox_control.py`, `agent_runtime.py` |
| `ManualSend` | replies by hand in one conversation; extends `DeliveryStatus` | `outreach/service.py`, `workflow_inbox.py`, `workflows.py` |
| `SelectionIntake` | the technical requests of one conversation | `selection/*`, the form's `page.tsx` |
| `Workflow` | the cards of one chat of the operator assistant | `admin_chat/workflows.py` and the `workflow_*.py` of each kind |
| `OperatorChat` | the tab and the turns of that chat | `ops-chat.tsx`, `router.py`, `planner.py`, `workflow_intents.py` |
| `TaskRunner` | one task of the assistant | `task_runner.py`, `task_tools.py`, `task_schema.py` |
| `AgentVersions` | versions, drafts and proposals of one agent | `agents/service.py`, `workspace.py`, `workflow_agents.py` |
| `ConfigurationSession` | the guided session that builds a configuration | `configuration_session.py`, `config_flow.py` |
| `CompanyReply` | what the customer bot says | `company_runtime.py`, `semantic_dialogue.py` |
| `LeadScan` | scans of a campaign and the enrichment that follows | `discovery/*`, `workers/discovery.py`, `workers/enrichment.py` |
| `Accounts` | members, roles, invitations of one company | `auth/*`, `core/rbac.py`, `workflow_members.py` |
| `SignIn` | the session of one page | `api/platform/[...path]/route.ts`, `auth/service.py` |
| `Console`, `Knowledge`, `Outreach`, `Background` | scenes: modules that are checked together (below) | |
| `AgentRuntimeProofs` | theorems about `AgentRuntime`: one turn, turns among each other, the refinement | |
| `ChatOutboundProofs` | theorems about `ChatOutbound`: posts, capacity | |
| `SelectionIntakeProofs`, `WorkflowProofs` | theorems about these modules | |
| `ConsoleProofs` | theorems about `Accounts`, `SignIn`, `OperatorChat`, `TaskRunner` | |
| `KnowledgeProofs` | theorems about `AgentVersions`, `ConfigurationSession`, `CompanyReply` | |
| `OutreachProofs`, `BackgroundProofs` | theorems about `LeadScan` and `DeliveryReceipts`; about `ManualSend` | |
| `MC*` | symmetry, flows, catalogues and sites of the instances for TLC | |

Names follow the source: `Earlier` is `_ordered_conversation_job`, `Prepare` the
decisions of `_execute_runtime_job`, `SweepCommit` the first half of
`_dispatch_pending_runtime_jobs`. Operators commented as faulty are the mistakes
the properties are tried against; no specification uses them, except where one is
the second half of the right one ("faulty on its own").

### Scenes

Components that share no row are checked in one run by a *scene*: a module that
takes their instances side by side, with one more variable, chosen at the start,
that says which of them moves; the others stay at their `Init`. The state space
is the sum of theirs, not the product, and nothing is lost by it, because no step
of one reads what another writes. A scene names again the properties of its
instances, those that answer one question under one name.

| Scene | Its variable | Parts |
|---|---|---|
| `Console` | `area` | `Accounts`, `SignIn`, `OperatorChat`, `TaskRunner` |
| `Knowledge` | `part` | `AgentVersions`, `ConfigurationSession`, `CompanyReply` |
| `Outreach` | `desk` | `ChatOutbound`, `DeliveryReceipts`, `LeadScan` |
| `Background` | `work` | `ChatOutbound`, `ManualSend`, `Workflow`, `LeadScan`, each with its fairness |

Components that do meet in rows are one module: webhook, workers, sweep, form and
operator in `AgentRuntime`; operators, workers, sweep and webhooks in
`ChatOutbound`; chat, form and team in `SelectionIntake`; cards, batches and Meta
in `Workflow`.

### AgentRuntime

An action is a committed transaction, or the part of one between two awaits at
which another process can run. `status`, `attempts`, `cancelled` and `review` are
the row and the two marks of its audit that code reads; `answer` is what the
session of a worker holds in memory and commits later, `plan` the status
`selection_service.handle` has given the draft without committing it.

- One conversation is enough: every query is by `conversation_id`, a conversation
  has one contact, and the lock is keyed by its phone.
- `broker` is a set of job ids: a message is at most a reason to look at a row,
  and a claim of a row that is not pending does nothing. The early acknowledgement
  of Celery is the removal of the message in `Claim`.
- `SweepRead` reads without locks and `SweepCommit` writes later, as the code
  does. `Staleable` holds the timing: five minutes without an update, against a
  task limit of 180 s. `TimeLimit` says that no task outlives its row's staleness.
  It is true where Celery enforces the limit, or where one solo worker runs turns
  and sweep one after the other, as `ops/windows` starts it. With several solo
  workers it is false, and then `AtMostOnePost` is not claimed.
- One sweep is at work at a time: it has no pause between its queries, and beat starts
  the next one 15 s later. Two that overlap on several workers are not modelled.
- `SelectionFlow` separates companies with and without a selection flow.
- Not modelled: prompt, history and wording; the limit of 50 rows per sweep;
  one session's two connections.

### ChatOutbound

All holders take the batch's row lock, the sender's and the phone's in that
order, so the model takes them in one step (`LocksFree`). `Receive` and
`CommitReceipt` are the two ends of a webhook transaction that reads a row without
a lock; `Refresh` and `Record`, `Ambiguous` are what a worker writes from memory.
`fresh` stands for `attempted_at` within 24 hours and `Age` for the passing of
time. The checks of channel, template, operator account and contact are one
choice of the environment, as each of them may change between queueing and
sending. There is one sender; `sweep` of interrupted sends assumes that a client
gives up its POST (20 s) before five minutes have passed.

### DeliveryStatus and DeliveryReceipts

`NextDeliveryStatus` is translated branch by branch. `DeliveryReceipts` is about one
message and the row that owns it. A webhook looks for the Message and, if it is there,
has it `FOR UPDATE` until its commit (`Look`); then it reads the row, which nobody
locks, once per session (`Take`); at the end it writes what it changed (`Write`,
`Merged`): single columns of an outreach job, but the audit of a runtime job as a
whole. Message, wa id and outcome of a bot's turn become visible together (`Send`). So
two webhooks have the row at once in one case only: one of them looked before `Send`,
missed the Message and locked nothing, and read the job after it. The other writer of the
audit is a request to resume the bot, which holds the lock of the phone and not the
Message: `ResumeReads`, `ResumeWrites`. `raced` records either meeting. A callback whose row is
not there yet is dropped, as in the code, and `got` counts the others, when they are
committed. The history keeps `HistoryLimit` events. The manual-message branch of the
same loop is in `ManualSend`, recipients of batches are in `ChatOutbound`; the lists of
errors are left out.

### ManualSend

Each reply operation has a chat of its own, whose row lock `Complete` takes and
the SENDING commit gives back. That the lock is free during the POST is where a
second request for the same reply can come in. A message of the plain inbox route
is matched by its stored id only. No operation of the code reviews an ambiguous
message, so none is modelled.

### SelectionIntake

Every writer holds the row lock of the request from its read to its commit, so a
handler is one step. STOP skips a row that is locked: it is a step that may not
happen. In the chat a turn that rolls back leaves nothing; the interleavings of
its steps with STOP are in `AgentRuntime`. A form tab has a view, one pending
operation and, on the server, a receipt; an answer may be lost, and the tab then
sends the same operation again. The steps are the same in every version of the
flow, since a draft of another version is superseded by the next turn. Not
modelled: parsing of values, pages of options, tokens, and the replay of an inbound
message that already has an event, which `Redeliver` of `AgentRuntime` keeps from
happening.

### Workflow

Every handler of a card locks the session row (`router.owned`), so it is one step.
The exception is a template: its commit gives the lock back, the POST to Meta
follows, and the answer takes the lock again, so `SubmitTemplate`, `PostTemplate`
and `TemplateAnswer` are three steps with a crash and anything else in between.
A kind is what it needs to be reviewed and completed: contacts, members, versions,
outreach batches, templates; of a form it keeps which text its required fields
hold (`Blank` where one is missing). What a review is compared with at completion
(a member's role, a live version) is one counter of the tenant's rows, `record`,
that others raise. `screen` is the review a tab shows, with its revision: what the
operator approves may be older than the card.

### OperatorChat and TaskRunner

A tab has one pending attempt, kept across reloads; its call, the answer, and the
two reads after it may each be lost, and a call whose answer was lost may still be
served. A turn holds the lock of the chat from its first read to its commit: one
step. (One that completes a reply by hand or a template commits on its way; those steps
are in `ManualSend` and `Workflow`, and the turn as a whole is still one here.) A button
whose text comes back into the composer loses its mark and is read like typed text
(`Carried`). The planner's model returns any intent; which words the message holds gates
what is carried out. `TaskRunner` is one turn in which the model asks for any tool
call that its schema accepts; what the server accepts, repairs, refuses and
presents is the code's.

### AgentVersions, ConfigurationSession, CompanyReply

Every mutation of an agent locks its row. What was read without that lock is on a
*desk*: the editor's revision, the revision an import or a builder turn began with,
the version and the live version a card showed. An edit of the draft is held to the
editor's revision only if the client sends it, so `PatchDraft` asks for none. A configuration is a number, in the
order of writing.

In `ConfigurationSession` an action is a reference the server issued for the
present step and revision: `refs` holds those not yet used up. A command is
proposed and previewed, then accepted or rejected; collections are closed or
deferred; at the end a session is complete only if it materializes. A module of the flow
has one step that may be deferred, which depends on its registration only, and starts
unconfigured.

`CompanyReply` is a function of the catalogue, the message and what the model
chooses, so its actions are the stages of one reply: menu button, keyword decision,
or plan with evidence. Words are tokens, texts are their lengths, and what a word
matches is data of the catalogue. Two shortcuts of the code lie outside what a question
asks for: a message that speaks of a drawing is answered by the drawing question,
whatever else it asks (`DrawingFact`), and a catalogue of at most `SmallSpace` visible
facts in which nothing is found is shown to the model whole (`ShownWhole`). The
properties make exactly these exceptions, and small talk.

### LeadScan

The two Celery tasks commit many times on their way, and nothing keeps a manager from
starting a scan while another runs, so each commit is a step and scans overlap. A site
may be dead, a task may be killed, and two companies may share a name or a phone.

### Accounts and SignIn

A call that changes a member reads its claims, takes the company row `FOR UPDATE`,
reads again and writes; each of these is a step (`AskPatch`, `Look`, `Lock`, `Write`), and
an invitation is accepted the same way. The member card of the assistant is reviewed
long before that. In `SignIn` a request carries the cookies
of the moment it was sent, answers set them in the order they arrive, and the
refreshes of one token share a promise in the web server. Two things are
taken from configuration: an access token lives for 15 minutes and a request for at
most five, so no token runs out twice within one request.

## 3. Runs

| Run | Question | Instance |
|---|---|---|
| `turn_selection` | is anything posted after STOP, with the draft and the phone held by several parties? | 2 turns, 2 workers, 1 attempt, 1 crash, form and selection |
| `turn_channel` | do workers and sweep implement `TurnDelivery`, and do pauses hold? | 2 turns, 2 workers, 2 attempts, 2 crashes, no selection |
| `turn_liveness` | is every turn settled? | 2 turns, 1 worker, 1 crash, fairness |
| `stop_terminal` | does a turn STOP cancelled stay skipped? No | 1 turn, 1 worker |
| `receipts_resume` | does a resume of the bot keep proof of delivery? No | 1 webhook, 2 callbacks, the history's 100 entries |
| `selection_intake` | do chat, form, team and STOP respect each other? | 2 requests, 3 steps, 2 versions, 1 tab each, 3 revisions in all |
| `selection_complete` | is what is confirmed complete? No | 1 request, 1 tab, 4 revisions |
| `workflow_cards` | does the button do what its review showed, once, with one card open? | 2 cards of 6 kinds, 2 texts, 5 commands, 1 change by others, 2 batches |
| `outreach` | is a recipient posted once, a phone once a day, nothing after STOP or cancel? What do rows show after any callbacks? Which leads remain? | 2 batches to 1 phone, 2 workers, 1 operator, 1 webhook, 1 crash; for receipts 2 webhooks, 3 different callbacks at 2 times, a history of 2; 3 companies, 2 tasks, 1 kill |
| `background` | does what was begun end, within the cap and posted once? | 2 batches to 2 phones, 2 operators, cap 1, 1 crash; 2 requests, 2 operation ids, 1 reply, 1 death; 1 card, 5 commands; 2 companies, 2 tasks, 1 kill; fairness |
| `knowledge` | is what goes live what was reviewed, what is complete buildable, what is said grounded? | 1 desk, 3 versions, 2 configurations; 8 steps of the flow, 2 items; 2 catalogues, 5 messages, 2 requests |
| `console` | do owners remain, sessions survive, messages and tasks take effect once and honestly? | 2 people, 2 calls, 2 invitations; 2 requests, 3 tokens; 2 messages, 3 posts, 2 faults; 3 steps of a task, 2 pages |

Why the bounds are enough to be of use. Two is the number that makes every race
here: two turns have an order, two workers a race for a row, two attempts a retry
that follows a failure, two crashes one in the first attempt and one in its
recovery. Order, coalescing and pauses relate pairs of turns. A third turn adds
combinations of pairs; for the properties that are proved the number of turns,
workers, attempts and crashes does not matter at all. In the outbox two batches to
one phone are the least that can send twice, and two operators with two phones the
least that can overbook a cap of one. A callback has four statuses and unknown ones, and
three different callbacks, repeated at will, show each order of a success, a failure and
a repetition; with `HistoryLimit` 2 the third one cuts the history, which 100 would not.
`CONSTRAINT Unraced` stops this part where `raced` becomes true: `ReceiptsAreEvidence`
says nothing of what follows, and what can follow is shown by `receipts_resume`. The flow of
`MCSelectionIntake` are the first steps of
`config/arti_kasnak.production.json`, with one that another step hides and one that
needs a file; three revisions are an answer on one side, one on the other, and a
confirmation or a review; the finding needs four.

Two cards are the least of which one pauses the other; five commands are a start of
each, a review, an edit or a pause, and the approval. Two people, two calls and two
invitations are two owners who demote each other, and one who accepts what the other
revokes; three tokens are a sign-in and two refreshes in a row. Three posts of two
messages are one retry, and two faults a lost call and its lost retry. Three versions
are a live one, its successor and a rollback of either; one desk is enough there
because every handler of the versions list acts beside it without one. The eight
steps of the flow have each sort in them: forms, root collections, a nested one, a
binding, the modules and the review. The catalogues of `MCKnowledge` have a product and
its family, a price and a question for a quote, a stock, a hidden fact and small talk;
`SmallSpace` is 7 instead of the 6 of the code, so that the older catalogue (7 visible facts)
is shown whole and the published one (8) is not. Two tasks and
three companies are two scans that find the same one, with and without its domain.

`CHECK_DEADLOCK FALSE` stands where a bound (crashes, revisions, callbacks, requests)
ends every behaviour; the `AgentRuntime` runs have it on. The largest state
space has 1.4 million states.

### What the properties say

- Bot turns: `AtMostOnePost`, `OneTurnInFlight`, `PostsInOrder`,
  `NoPostAfterStop` (STOP by the webhook; an opt-out added by the compliance API
  takes no phone lock and is not promised), `PausedIsSilent`, `BlockedIsReviewed`,
  `EveryTurnSettles`, and `ImplementsDelivery`: with `Phase` as refinement mapping
  the whole machinery is a channel that claims, posts or closes. `NeverReplayed`
  and the types are proved.
- Batches: `AtMostOnePost`, `OneSendPerPhone`, `CapHolds`, `NoPostAfterStop`,
  `NoPostAfterCancel`, `EverySendSettles`; `PostedStaysPosted` is proved.
- Callbacks: `ReceiptsAreEvidence`, that is `StatusIsEvidence`, `EarliestKept`,
  `HistoryComplete` (each event once, all of them up to the limit) and `ResolutionKept`,
  until two sessions have the row outside the lock of the Message. Its mutant
  looks the Message up without `FOR UPDATE`.
- Replies by hand: `HonestReplies` (`OnePostPerReply`, `ConfirmedIsSent`,
  `OverIsKnown`), `PostedAlone`, and `ReplyEnds` in `RequestsEnd` (not for requests
  whose process died: the code has no recovery for them).
- Requests: `ChatIsTrue` (buttons mean what they show, a file comes before its step is
  done), `SidesAgree` (no lost edit, retries get their receipt), `ConfirmationStands`
  (a confirmation by form is of a whole form, and frozen).
- Cards: `OneOpenCard`, `ApprovedIsDone`, `TemplatePostedOnce`,
  `OnlyTheReviewedBatch`, and `BackgroundSettles`: a card that waits for a delivery or
  for Meta ends, paused or not.
- Chat and tasks: `MessageOnce` (one turn per message, and its text kept until there
  is one), `WordsDecide` (what the model returns is not itself an authorization; a bare
  approval speaks of one thing), `HonestTask` (complete means every page was read and
  nothing waits; "ready for review" has its card, in front of the operator).
- Versions: `OneVoice` (one live and one draft, live is publishable, a test speaks for
  one configuration), `ReviewedVersions` (published as reviewed, accepted on top of
  what it was proposed for, history kept).
- Configuration sessions: `CompleteMaterializes`, `ReviewedSession` (closed is frozen,
  applied where previewed).
- Replies of the bot: `GroundedReply` (evidence in the scope of the question, prices
  and stock from their own category unless the message speaks of a drawing, a follow-up
  keeps its subject unless it is small talk or the catalogue is shown whole; a request
  for pictures may rest on small talk, which introduces them),
  `NoNeedDropped` (each request is rendered or said to be open).
- Leads: `CleanLeads` (only matches remain, a company once per scan), `ScanEnds` in `RequestsEnd`.
- Accounts and sign-in: `OwnerRemains`, `ChangedAsReviewed`, `ExchangedOnce`,
  `PageStaysSignedIn`.

Each has a mutant in `PROJECT.json`: a plausible slip in the code, such as a check
that is dropped or an order that is swapped, under which TLC refutes it.

### Fairness

- Beat starts the recovery sweep every 15 s, so it keeps reading, committing and
  publishing; a publication that is tried for ever succeeds in the end.
- A task or request that has started goes on unless it dies (weak fairness): turns,
  sends, replies by hand, scans and enrichments.
- PostgreSQL queues the waiters of a lock, so whoever waits for one that becomes
  free again and again gets it (strong fairness of the steps that lock).
- An open chat of the operator polls, every 5 s while a card waits (`Poll`,
  `ListViews`), and the recipients of a queued batch are settled, which
  `EverySendSettles` shows in detail.
- No customer, operator, callback, decision of Meta's, crash or passing of time is
  ever forced. Liveness is for finitely many crashes: recovery of a stale turn does
  not count attempts, so a turn that kills its worker every time is retried for ever.

### Findings

- `stop_terminal`: the exception handler writes pending without looking at what
  STOP did to the row, against `docs/runbook.md` and the webhook's docstring. The
  next attempt drops the turn at the opt-out check, so nothing is sent.
- `receipts_resume`: a resume of the bot reads the audit of a handed-over turn and
  writes it back whole, under the lock of the phone. A callback that commits in between,
  under the lock of the Message, loses its status, time and entry of the history, against
  the docstring of `_next_delivery_status`. Callbacks among themselves serialise.
- `selection_complete`: a blank field of the form and an edit button of the chat
  lead to a confirmation with an open question, which both sides say they refuse.

Met while modelling and kept in the models as the code has them, without a run of
their own; the hazards give the lines:

- a menu button of a guided product without an overview raises
  (`company_runtime.py:1619`); `Navigate` has the outcome `raised`;
- the revision of a draft starts at 0 with each new draft, so a proposal may be staged
  by an author who saw another draft (`workspace.py:81`); `AcceptedOnTop` compares
  what is staged, not what was seen;
- a task whose answer names a change it never prepared ends in a `StopIteration`
  (`task_runner.py:333`), and loses what else it had found;
- the purge after a scan deletes also leads that could not be scored;
- a template whose POST was not answered stays running unless Meta lists it.

## 4. Proofs

`AgentRuntimeProofs` proves for any number of turns, workers, attempts and crashes,
from `Assumptions` alone (they say that bounds are naturals and that `NoOne` and
`Form` are not workers):

- `TypeCorrect`: `Spec => []TypeOK`. `TypeOK` is not inductive as it stands: a step
  writes `status[job[w]]`, so `HasTurn` says that a worker that is not idle has a
  turn.
- `NothingSentAfterStop`: `NoPostAfterStop`. The invariant is `StopInv`: a worker from
  the boundary to the end of its POST holds the phone lock (`LockHeld`), and one past
  the opt-out check serves a customer who has not sent STOP (`StillWelcome`). STOP
  needs the lock, so it cannot come in between. No assumption on time is used.
- `PostedAtMostOnce`, `PostedNeverRetried`: `AtMostOnePost` and `NeverReplayed` under
  `TimeLimit`. The invariant is `OnceInv`: a turn has one worker, and none while its
  row is pending; at each step of the worker the row is what that step expects; a
  stale row the sweep has read belongs to no task; what may have been posted is past
  SENDING. The assumption is needed where the sweep writes rows it read earlier.

About turns among each other, under `TimeLimit`:

- `OneAtATime`, `PostedInOrder`: `OneTurnInFlight`, `PostsInOrder`. The queries that
  keep the order look at rows, and STOP makes the row of a turn at work look settled.
  So the invariant speaks of *engaged* turns: the row says so, a worker has it, or the
  sweep is about to write a status for it. Only one turn is engaged; before STOP its
  row shows it (`RowShows`) and earlier turns are done (`EarlierDone`); after STOP it
  is the only turn left that could be claimed (`OneLeft`), since STOP has skipped the
  pending ones and the webhook makes no more. Most steps are `Calm`: they engage
  nothing and move only rows of engaged turns. That is shown once for all of them.
- `SilentWhilePaused`: `PausedIsSilent`. The pause is read once, before the model call;
  it stays away (`StillServed`) because only an engaged turn can bring it.
- `DeliveryImplemented`: `ImplementsDelivery`, step by step: the SENDING commit is
  `Claim`, the POST is `Post`, the end of a task, the handler or the sweep is `Close`,
  `CloseAll` or nothing, STOP is `Stop`, the rest stutters.
- `BlockedReviewed` (`BlockedIsReviewed`) needs types only, and no `TimeLimit`.

`ChatOutboundProofs` proves for any number of batches, phones, workers, operators,
webhooks and crashes, where batches and phones are finite sets:

- `TypesKept` (`TypeOK`), with the fact that a webhook holding a receipt has matched a
  recipient.
- `NothingSentAfterStop`, `NothingSentAfterCancel`: a worker about to post serves a phone
  that has not written STOP (`StillWelcome`) and a batch that is queued
  (`StillQueued`), since STOP and cancelling need locks it holds.
- `PostedAtMostOnce`, `PostedNeverUnsent`: the sender's lock has one holder (`OneGuard`,
  `OneQueue`, `GuardOrQueue`), a batch is queued only from a draft none of whose
  recipients was sent, the row is what each step of its worker expects, what looks
  unsent was not posted, and receipts are for what was.
- `OneTemplatePerDay` (`OneSendPerPhone`): a row that shows a failure was reported
  failed, and the others of a phone about to be posted to are old or failed.
- `CapKept` (`CapHolds`): only `Queue` takes capacity, and it reads and takes it under
  the sender's lock; `CapInv` says that this holder is alone (`AloneInv`), that what is
  in flight counts as sent today (`SendingIsFresh`) and that the holder has read no more
  room than there is (`RoomLeft`). Every other step moves a recipient from one counted
  state to another, or gives its place back.

No assumption on time is made in these proofs beyond the guard of `SweepSending`, which
leaves alone a recipient a worker is at (the client gives up its POST after 20 s, the
sweep waits five minutes).

`WorkflowProofs` proves for any number of cards, texts, commands and edits: `TypeCorrect`,
`OneCardOpen` (`OneOpenCard`), `BatchOfReview` (`OnlyTheReviewedBatch`) and
`TemplatePosted` (`TemplatePostedOnce`). `CardInv` has the facts they share: a card and
its batch name each other (`BatchesMatch`), and a submitted card is out of its form for
good (`SubmittedOnce`, `OutOfForm`), also when it is paused and resumed.
`DoneAsApproved` (`ApprovedIsDone`) rests on `ApprovalInv`: a
review remembers its form and its batch's text, a screen shows the card or an earlier
revision of it, and a card that was carried out accepts no review any more.

`SelectionIntakeProofs` proves for any flow and any number of tabs, requests, versions
and files:

- `NothingOverwritten` (`SidesAgree`). `IntakeInv` says that rows are in the order of their
  numbers; that a view or a receipt is of its request or of an earlier revision of it,
  where an equal revision means equal answers and status, unless the draft was
  superseded, which no form can edit; that what was sent matches what its tab shows. It
  is kept because every writer moves a row together with its revision (`Moves`).
- `ButtonsHold`, `FilesFirst` and `ChatHolds` (`ChatIsTrue` and its parts). Beside
  `IntakeInv` the types are kept (`Typed`): what a screen or a message in flight holds is
  an answer to a step of the flow, and the step a request is put at exists.
- `FrozenOnceConfirmed` and `ConfirmationHolds` (`ConfirmationStands` and a part of it).
  `update_form` walks over the steps and drops the answers to those that no longer apply.
  A pass of its loop (`OnePass`) leaves the answers to earlier steps alone, and conditions
  look only at earlier steps, so what a pass has decided stays decided; by induction over
  the steps the loop ends with answers to the steps that apply and no others. A form is
  confirmed past its last step, where nothing that applies is open.

`ConsoleProofs`, for any people, calls, invitations, tokens, requests, messages, tasks:

- `TypeCorrect`, `OwnerStays` (`OwnerRemains`) and `CardIsExact` (`ChangedAsReviewed`) by
  `AccountInv`: what the holder of the company lock has counted stays true until it writes,
  so that another owner stands beside the one it demotes or deactivates, and the member of
  a card is read again under the lock.
- `TokensExchangedOnce` (`ExchangedOnce`) by `ExchangeInv`: an exchange under way holds the
  row lock of a token that is not revoked, and revokes it with the commit that issues the
  next.
- `PageSignedIn` (`PageStaysSignedIn`) by `SessionInv`: as long as no answer is lost or
  late, every token but the newest was exchanged for the next by one call, and the calls
  under way, the shared entry of the proxy and the cookie jar agree on that chain.
- `MessagesOnce` (`MessageOnce`) and `WordsAuthorize` (`WordsDecide`) by `ChatInv`: one
  attempt at most is open (`OneAttemptOpen`), a call is served after all calls before it
  (`AnswersAreLast`), and a message is in a turn, in the composer or in the pending attempt
  (`Kept`). It is assumed that a text a button writes is neither negated nor a bare approval.
- `TasksAreHonest` (`HonestTask`) by `TaskInv`: an observed page exists, and one without "more" is
  the last of its list (`PagesAreThere`); what did not reach the model whole is marked
  (`CutIsMarked`); an outcome is the state of its evidence (`OutcomesStand`); each change
  that was prepared has its card (`ReviewsAreMade`), and no card of a reading covers it
  unless a later preparation failed (`ReviewsAreInFront`).

`BackgroundProofs`, for any requests, replies and operation ids: `RepliesAreHonest`
(`HonestReplies`) and `PostedWithNoneOpen` (`PostedAlone`) by `ReplyInv`. A request past the
guard has the phone lock (`PhoneHeld`), so nothing changes between its look at STOP and
at open messages and its POST (`PostClear`); up to its SENDING commit it has the row of
the chat, in which the reply is still ready (`ChatHeld`, `ReadyIsUnsent`); and a message
belongs to the request that claimed its reply (`MessageIsTheReplys`).

`KnowledgeProofs`, for any versions, operators, modules, items and catalogues:

- `AgentSpeaksOnce` (`OneVoice`) and `VersionsAsReviewed` (`ReviewedVersions`) by
  `HistoryInv`: what a desk remembers is an earlier state of a version that edits only bring
  forward (`ReviewsHold`), answers of a test are of the configuration it was begun with
  (`TestHolds`), and a proposal names the draft it was staged for.
- `FlowIsWellFormed`: for any finite set of modules `_topological_order` takes every step
  once, the review last, and nothing but modules and the review after the registry that
  adds modules. This is an induction over the steps it takes.
- `CompleteCanBeBuilt` (`CompleteMaterializes`) and `SessionAsReviewed` (`ReviewedSession`) by
  `SessionInv`: a waiting command was previewed at its step and adds an id that step may
  add (`WaitingFits`), the collections at and after the present step are open
  (`AheadIsOpen`), a step is deferred only where it can be (`DefersFit`), and a session at
  its end has all that materializing asks for (`CompleteIsBuilt`).
- `RepliesAreGrounded` (`GroundedReply`) and `NothingIsDropped` (`NoNeedDropped`) by
  `ReplyInv`: the subjects a chat is about are spoken of in the live catalogue, nothing is
  said before a turn is answered, and what is said is grounded. Retrieval, evidence gate
  and composition have a lemma per operator; the loop of `compose_reply`, which fits
  parts into the limit of the channel, and the walk up the families are inductions. It
  is assumed that a catalogue has at most 24 facts (so that the limit on its context cuts
  nothing) with ids and places of their own, that the menu, handoff and overview facts it
  names are visible, that the facts of small talk are social, and that the action for what
  is unknown is one of the three that exist: all but the 24 is what `company_config.py`
  accepts.

`OutreachProofs`:

- `LeadsAreClean` (`CleanLeads`), for any scans, companies and kills, by `ScanInv`.
  Unless a scan failed or a manager enriched a lead by hand, a lead below the bar waits for a
  scan that will purge it (`LowIsPurged`) and one that passed is qualified or about to be
  scored again (`HighIsScored`). A lead that passed has its phone (`HighHasPhone`). One scan
  stores and is about to store no company twice (`FoundOnce`). The bar is at
  least 1: a lead that was never scored has score 0 and has to be below it.
- `LockedReceiptsAreEvidence` (`ReceiptsAreEvidence`), for any number of webhooks, any
  callbacks in any order, repeated or not, and any `HistoryLimit`, with no assumption
  besides those on the constants. By `ReceiptInv`: whoever found the Message has its lock
  (`Locked`); unless `raced`, at most one session has the row and what it has read is still
  what is stored (`Alone`), so that what it holds shows exactly the callbacks committed
  and its own (`Truthful`). After `raced` only the types are claimed.

How the proofs are made. Each preservation proof has one step per action, and under it
one per conjunct the action can disturb; components of a scene are proved through the
instance the scene names, and the scene's theorem says that its steps are theirs. A
loop of the code is a function over `0 .. n`. Where a proof needs what such a loop
computes, it is shown for the least counterexample: a nonempty set of naturals has a
least element, which `WellFoundedInduction` states about sets, so that no theorem with an
operator as its parameter is used.

Only model-checked. Every invariant, action property and refinement of a passing run is
stated by a theorem above. Left to TLC are the four liveness properties,
`EveryTurnSettles`, `EverySendSettles`, `RequestsEnd` and `BackgroundSettles`: fairness
speaks of ENABLED, which is out of the proof system's reach. The assumptions of the
proofs are the ASSUMEs of the modules, which TLC evaluates on its runs, and `TimeLimit`
where it is named.

## 5. State of the plan, and what is not modelled

Done: the core (`AgentRuntime` with `TurnDelivery`, `ChatOutbound`, `SelectionIntake`,
`ManualSend`, receipts), the operator assistant (`Workflow`, `OperatorChat`,
`TaskRunner`), the making of an agent (`AgentVersions`, `ConfigurationSession`,
`CompanyReply`), `LeadScan`, `Accounts`, `SignIn`, and the proofs of section 4.

Left, in this order:

1. `PhoneLocks`: the order in which webhooks, batches, turns and replies take row and
   advisory locks, and the connections of the pool they hold meanwhile. `ChatOutbound`
   takes its locks in one step, so the deadlock listed under the hazards is not shown.
2. Theorems: the safety half of the liveness arguments, as invariants (a lock is held only
   by a process at work, what is not settled has somebody who will look at it), and what a
   sequence of callbacks leaves, from `NextDeliveryStatus` alone.
3. Contact pages, connectors and edits of campaigns and leads by hand; the IYS cache and
   the daily reset of counters.

Not modelled, and why:

- Clients of services outside (`integrations/*`): pure calls. Their answers, refusals and
  silence are choices of the actions that call them.
- Sectors, reports, legal pages and the panels of the web client that show what the API
  returns: single-row edits, queries and rendering; no two of their steps interact.
- Prompts, wording, parsing of values, signatures and password hashing: the models take
  every result these can have.
- `agents/runtime_fsm.py`: nothing under `apps/api/src` imports it.
- Configuration, start-up and logging: the intervals and limits set there are the
  assumptions and the fairness of section 3.
- Row-level security: every module has one tenant.
- Deployment, migrations, scripts and experiments: run by hand; no state of the running
  system.
