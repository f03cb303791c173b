# agent-guardian in TLA+

agent-guardian lets an agent stop and ask a human. A client library sends an *intervention*
(a question with options and a deadline) to a local daemon; the daemon stores it, sends it to the
human through a channel (Telegram, terminal, Bark, Webhook), takes the decision back, and tells the
client. A rule engine in the agent decides which steps need a question, and a swarm hub in the
daemon lets operators watch many agents and take them over. This directory holds TLA+ modules translated from the Python sources, TLC configurations
that check them on small instances, and proofs that TLAPS checks for every value of the constants.

Paths below are relative to `src/src/agent_guardian/`.

## 1. Inventory

| Component | State it keeps | Operations | Hard part | Here |
|---|---|---|---|---|
| Status machine, `daemon/state_machine.py`, `schemas/intervention.py` | none: a table of legal transitions | `is_open`, `is_terminal`, `can_transition` | a missing or extra edge | `InterventionLifecycle`, `Intervention` |
| `InterventionStore`, `daemon/store.py`, `db.py` | SQLite tables `interventions`, `callback_tokens`; an `asyncio.Lock`; the open transaction of the connection | `create`, `cas_update`, `mark_awaiting`, `apply_timeout_if_expired`, `allocate_callback_token`, `resolve_callback_data`, `update_request`, reads | every SQL statement is an `await`; reads and takeovers use the same connection without the lock; a second connection may exist | `CompareAndSet`, `InterventionStore` |
| `TakeoverStore`, `daemon/takeover_store.py` | table `takeover_events`, on the store's connection | `insert` | its INSERT and `commit()` fall into another task's transaction | `InterventionStore` |
| `InterventionService`, `daemon/service.py` | delivery tasks, terminal readers, `_message_ids` | `create`, `decide`, `cancel`, `get_updated`, `recover_open`, `_deliver`, `_revoke_remote`, `list_open_summaries` | handlers, deliveries, poller and recovery interleave at every await; a crash loses all but the tables | `InterventionService` |
| Telegram channel and poller, `daemon/channels/telegram.py`, `telegram_poller.py` | `_messages`; the `getUpdates` offset; at Telegram: cards and unacknowledged updates | `send_card`, `revoke_card`, `_handle_update`, `_run` | lost replies, redelivered updates, a tap that overtakes the daemon's own write | `InterventionService` |
| Terminal, Bark, Webhook, `daemon/channels/` | none that matters (stdin) | `send_card`, `revoke_card` | the terminal cannot be revoked; backoff then fallback | `InterventionService` |
| HTTP and WebSocket API, `daemon/app.py` | the application state of one daemon | handlers; lifespan; `_bootstrap_state` | recovery before requests; a bootstrap outside the lifespan can run twice | partly, in `InterventionService` |
| `EventHub` and `ws_endpoint`, `daemon/events.py`, `app.py` | subscriber queues of 64; one handler per connection | `subscribe`, `unsubscribe`, `publish`; snapshot, loop, close | a full queue drops an update; a terminal update between subscribe and snapshot; a handler that never looks at its socket | `EventHub` |
| Guardian SDK, `client/guardian.py`, `http.py` | per call: a WebSocket, a poll loop, a local prompt and its thread | `ask_human`, `ask_human_sync`, `guard`, `_wait_terminal`, `_wait_websocket`, `_wait_poll`, `_local_terminal_loop`, `_best_effort_cancel` | WebSocket loss, fall-back to polling, two deadlines, local answer against remote answer, cancellation anywhere | `GuardianClient` |
| `guard_step`, checkpoints and browser tools, `client/guardian.py`, `checkpoints.py`, `adapters/browser_use.py` | a bounded stack | `guard_step`, `checkpoint`, `push`, `rollback`, the two tools | truncation at `maxlen` against a rollback; an approval that asks for one | `CheckpointStack`, `AgentStep` |
| Smart engine, `smart/` | the loop detector's window; the adaptive threshold | `evaluate_step`, `observe`, `evaluate`, `update_from_outcome` | threshold against window; several signals at once; levels raised by keywords | `LoopDetector`, `RiskEvaluator`, `AgentStep` |
| Swarm, `swarm/`, `daemon/swarm_api.py` | the registry; signal queues of 16; shadow queues and histories | `register`, `unregister`, `heartbeat`, `set_status`, `request_takeover`, `wait`, `poll`, `stream`, `publish`, `subscribe`, the routes | drop-oldest queues, status races, queues that survive a re-registration, a row written after an await | `ChannelRouter`, `SwarmHub` |
| Media, CLI and config, schemas, `align/`, exporter, console | files and pages | | none that a model checker reaches | not modelled |

How they interact. `app.py` owns one `InterventionStore`, one `TakeoverStore` on the same
connection, one `InterventionService`, one `EventHub` and the channels. A handler calls the
service; the service calls the store, starts `_deliver` as a task, and calls `hub.publish` when a
store call has moved a row. `_deliver` tries the channels in order and calls `mark_awaiting`.
Answers come back through three doors: the decision endpoint, the Telegram poller and the stdin
reader, all into `service.decide`. Timeouts have no timer: a row expires when somebody reads it.
After a crash only SQLite and Telegram remember anything; `recover_open` delivers again what is
open.

What makes each correct:
* store: settled once; every terminal status told to a caller is the committed one and stays; one
  id per `client_request_id`; no path leaves lock or transaction behind; settling revokes tokens;
* service: what is open can be answered, what is settled is torn down and broadcast, broadcasts are
  true and final, a late decision loses, recovery strands nothing;
* event hub and client: no handler waits on an outcome it has missed; a call ends, the outcome it
  tells its agent is the row's, and it leaves no question behind for a human to answer in vain;
* agent: a step that makes a loop, that a rule or keywords make alarming, or that the model is not
  confident of does not run without an approval; a loop is caught exactly when there is one; a
  rollback returns the state it was asked for;
* swarm: full queues lose only the oldest, so a takeover always arrives; its row tells the moment of
  the takeover; a status is what was last published.

## 2. Modules

* `InterventionLifecycle`: `_ALLOWED`, `is_open`, `is_terminal`, `can_transition`.
* `Intervention`: the abstract specification. A record per intervention (client, status, decision,
  version), and two actions: `Create`, once per `client_request_id`, and `Transition`, one legal
  step which raises the version by one and sets a decision exactly with RESOLVED.
* `CompareAndSet`: the decisions `_cas_update_unlocked` makes on a row between two awaits
  (`Verdict`), its WHERE clause (`StillCurrent`) and its SET clause (`Updated`). Both modules below
  use it.
* `InterventionStore`: `store.py` and `TakeoverStore.insert`, **one step per SQL statement**. Per
  task a program counter (`pc`, the statement it is about to run), the arguments (`call`) and the
  row its SELECT returned (`seen`); per connection the `asyncio.Lock`; the file as committed (`db`)
  and as the open write transaction sees it (`work`, of connection `tx`). SQLite is modelled by its
  contract: one writer per file, a connection reads its own uncommitted writes, `commit()` and
  `rollback()` act on whatever the connection has open. `told`, `wins`, `named` and `logged` record
  what callers were told; no guard reads `told`, `named` or `logged`, and `wins` only bounds itself.
* `InterventionService`: `service.py` with the Telegram channel, poller, stdin reader, HTTP
  handlers and recovery, **one step per await**; a store operation is one step, except that
  `mark_awaiting`'s two commits are two steps (a crash can fall between them). `act[a]` is the call
  an actor is in, `delivery[i]` the `_deliver` task of i, `card` what Telegram shows, `taps`,
  `offset`, `confirmed` the updates made, handled and acknowledged.
* `EventHub`: `events.py` and `ws_endpoint`, **one step per await**, over the rows of
  `Intervention`. `record` is the database; `unsaid` the settled interventions whose task has still
  to broadcast; `queue[s]`, `wire[s]` what a subscriber's queue and socket hold; `handler[s]` where
  its coroutine is; `gone` the connections the other end has left.
* `GuardianClient` (extends `EventHub`): `ask_human`, `ask_human_sync` and `guard`, one step per
  request, message or timeout. `call[c].pc` is where a call is (`creating`, `connect`, `recv`,
  `final`, `poll`, `last`, `cancel`, `again`, `joining`), `end` how it ends (`early` is
  `InterventionTimeoutError` raised by the client's own clock over an open row); `late` the calls
  whose current deadline has passed; `prompt` and `readers` the local prompt and the threads blocked in
  `sys.stdin.readline`.
* `LoopDetector`, `RiskEvaluator`, `CheckpointStack`: the pure parts, as operators: the window and
  the verdict on it, score and level of a set of matched rules, `push` and `rollback`. The rules and
  `intervene_threshold` are constants, as they are the constructor's parameters; `DefaultRules` are
  the 11 built-in ones. `NoError` is no error, `NoText` an error whose text is empty.
* `AgentStep` (extends these and `Intervention`): `guard_step` with the engine in front and the
  checkpoints behind, and the browser tools. A question is created in `Intervention`, and
  its answer is the one `GuardianClient` shows `ask_human` to give. `sameAction`, `sameError`,
  `past` and `ran` are reference counts of the whole history, the stack without a bound, and what
  was executed; no guard reads them. Whether the engine intervenes (`Intervenes`, from the window and
  the best rule) and whether it ought to (`warned`: `Looping` of the whole history, `Alarming` rule by
  rule, `Uncertain`) are separate definitions; `RunsOnlyApproved` relates what ran to the latter.
* `ChannelRouter`, `SwarmHub`: `authorize` with its rules, and hub, broker, observer and routes. No
  lock there is held across an await, so a request is one step; the INSERT of a takeover is a
  second one (`saving`), and what happens to it in SQLite is `TakeoverInsert` of
  `InterventionStore`. `got`, `seen`, `due` record what was taken, sent and published.
* `MC*.tla`, `*.cfg`: instances. `*Proofs.tla`, `InterventionStoreRefinement.tla`,
  `InterventionStoreOutcomes.tla`: theorems.

Data that is abstracted: names, messages, options are model values; `request_json`, summaries,
images, timestamps and error texts are left out; `expires_at` is a flag the clock sets, or, in the
store, a free choice each time it is read. Tokens are fresh values; their entropy is not a subject.
A step of an agent is given to the engine as the fingerprint of its action, the set of rules its
text matches, what its keywords add, and a confidence in hundredths: fingerprints, regular
expressions and floating point are inputs. Of an event of the swarm its sequence, tenant, type and,
for a status, the status are kept.

Composition: `InterventionStore` and `InterventionService` each implement `Intervention`
(`ImplementsIntervention`, an `INSTANCE ... WITH` on the rows). The service takes each store
operation as one step, which is what the store's runs and theorems justify: the committed rows take
atomic steps, the outcome told is the committed one, the lock is always given back. `EventHub`,
`GuardianClient` and `AgentStep` in turn extend `Intervention` and take its actions as the daemon's
writes; that they do nothing else to the rows is a theorem of each (`AsksAnIntervention`,
`AsksInterventions`), so the promises of `Intervention` hold with client, hub and agent around it.
`EventHub` keeps of the service what a subscriber can tell: the row is written in one step and
published in a later one, except for a delivery, which publishes at once.

Definitions named `Mutant of ...` in comments, just before the definition they vary, are
plausible bugs used to confirm that a property would notice them. They are in no specification.

## 3. Runs

| Run | Instance | Question and answer |
|---|---|---|
| `store_two_conns` | 2 tasks on 2 connections, every locked operation, takeovers, crashes, failing statements | The committed rows implement `Intervention`; what callers were told is committed and stays; `create` is durable; a transaction is open only under its lock; a row that was asked or answered has a channel. |
| `store_lost_race` | 3 tasks, 2 connections, takeovers that end transactions half way | One winner; `create`'s re-read always finds the owner; what unlocked reads report comes true as long as no statement fails and nothing crashes; every call returns, under strong fairness of each task. |
| `store_exclusive` | no takeovers | From SELECT to COMMIT the transaction is the task's own, and settling commits the revocation of the tokens with it. |
| `store_takeover_lost` | *violated* | A takeover's event disappears in another task's rollback. |
| `service_calm` | 2 concurrent requests, 2 taps, no fault but a snapshot that cannot be stored; 1,266,494 states | Teardown, broadcasts and deadlines under every interleaving of awaits. |
| `service_crash` | 1 crash; failing or lost sends and revocations | Recovery strands nothing, no two deliveries of one intervention, rows implement `Intervention`. |
| `service_liveness` | 1 crash, fair | Questions are asked, taps are handled, tasks of a settled intervention end. |
| `service_cancel_race` | *violated* | A cancel before `mark_awaiting` leaves a card and a live token. |
| `service_silent_timeout` | *violated* | A decision after the deadline writes TIMEOUT and tells nobody. |
| `client` | 1 call of any kind, WebSocket or poll, a prompt, every fault, 1 question answered by anybody; 777,261 states | The call ends whatever fails; the outcome it has read and tells the agent is the row's; no handler is deaf to it; a call that gave up leaves no open question. |
| `agent_step` | 2 questions, 2 actions without an error, with one, or with one that has no text, window 3, threshold 2, stack of 2 for 3 checkpoints; 1,496,808 states | What loops, alarms or is uncertain does not run unasked or refused; loops are caught exactly; rollbacks return the right state; rows keep what `Intervention` promises. |
| `swarm` | 2 agents for one place, 2 tenants, 1 console, signal queue 1, event queue 2, history 3; 1,721,508 states | Full queues lose only the oldest; the ledger of takeovers is true; the status of an agent is the one last published. |

Bounds. The store serialises on rows and connections, and two operations on different rows share
only the lock and the transaction, which two tasks on one row exercise as well: one id, one client,
one or two options, one token and one signal. Two tasks on two connections are the smallest
instance with a race the lock does not prevent; the lost race needs a third task, because a takeover
must first end the transaction of one of the two on its own connection. `Choices` holds an option nobody offered. The
theorems below remove these bounds for the safety of the store. In the service one intervention
suffices for every hazard listed, since interventions share only the store's lock; `Callers` are
requests in progress at once (two, so that a cancel meets a decide; one more actor each for poller,
stdin and recovery); `MaxTaps` and `MaxCrashes` bound the human and the crashes, and two tokens let
a redelivered card stand beside the one from before the crash. When a model has no fresh token left,
`allocate` waits; two tokens are enough for the deliveries these bounds allow.

`get` reads uncommitted rows. `store_two_conns` therefore leaves it out of `Ops`; `store_lost_race`
has it, without faults; with a crash it would break `OutcomeSurvives` (see section 4).

Client: calls share the daemon and the stdin of one process, and only the latter ties them
together (a line goes to the oldest thread), so one call with every fault finds the races of a call
with the daemon; the theorems below cover any number. `QueueSize` is 2 where the code has 64: an
intervention publishes at most one update that is not terminal (AWAITING_HUMAN), so the queue has
to hold that one and a terminal one, and at 2 it fills and drops the later echoes. With `QueueSize` 1 `NoDeafHandler`
is false, and `CallsEnd` is what saves the caller. A wait is `timeout_seconds + 2` long, so its
deadline comes after the row's expiry unless the two clocks disagree, which is the fault `skew`.
Under it a call may give up over an open row (`early`): `ToldTheOutcome` does not speak of that call,
and `NeverEarly` proves that without `skew` there is none.

Agent: window, threshold and stack are one larger or smaller than each other, so that truncation
and off-by-ones show; in the steps one rule suffices (MEDIUM, raised to HIGH by keywords), as score
and level are compared with their definition for every set of built-in rules and fifteen boosts in an
`ASSUME` of `MCAgentStep`, and the proof is for any rules. Swarm: two agents compete for one
place; every queue is small enough to overflow within `MaxEvents` and `MaxSignals`; one rule admits
operators everywhere and a later one of higher priority reserves a tenant. The rules are constant,
as nothing in the daemon adds one. The hub lives in memory: a restart is `Init`. Symmetry is over
ids, clients, fingerprints and agents, in runs without liveness only.

Deadlock is checked wherever the system runs for ever; a client's calls end, and the swarm's bounds
stop it.

Fairness. In `service_liveness`: the event loop runs ready coroutines, HTTP requests to Telegram end
(httpx has timeouts), and a daemon that died is started again, so weak fairness on each actor's,
each delivery's and the poller's next step, and on `Restart`, `Recover`, `Recovered`. Nothing
obliges a human to tap, a client to call, or the clock to pass a deadline. In `store_lost_race`:
strong fairness per task, because `asyncio.Lock` wakes waiters in FIFO order and SQLite's busy
timeout retries BEGIN IMMEDIATE until the short transaction of the other connection ends. Weak
fairness would not do: the lock is taken and given back for ever by others. In `client`: weak
fairness on what a call does by itself (requests end, since httpx has a timeout, messages that have arrived are
read, deadlines pass, a closed socket is noticed) and on the clock of each row. Faults, humans,
channels, handlers of the WebSocket and the one who types at stdin are obliged to nothing: a call
must end with a daemon that never publishes. The read of `ask_human_sync`'s thread is not obliged
to end either, so such a call counts as ended when it waits to join its thread.

## 4. Findings

1. `store_takeover_lost`: `TakeoverStore.insert` runs outside the store's lock on the store's
   connection. If another task's transaction is open there, the event becomes part of it and goes
   with its rollback; `insert` has meanwhile returned a record.
2. `service_cancel_race`: `docs/protocol.md:845-849` requires a cancel to destroy the remote
   controls; before `mark_awaiting` has set `active_channel` there is nothing to find, and
   `_deliver` goes on.
3. `service_silent_timeout`: `docs/protocol.md:171` requires a successful transition to be
   broadcast; `decide` drops the timeout's result.

More disagreements met while modelling, in the models but without a run of their own:
* `InterventionStore.get` (`store.py:97`) takes no lock and can report RESOLVED before the COMMIT,
  while `docs/protocol.md:16` has an intervention settled once (hence the bounds on `get` above);
* a tap handled before `mark_awaiting` is refused on an open intervention and acknowledged to
  Telegram (`telegram_poller.py:111`); `docs/protocol.md:151` lets a decision overtake the NOTIFIED
  of its own card;
* a takeover's `commit()` splits the transaction `store.py:176` calls exclusive (`store_exclusive`
  checks it without takeovers, the other two store runs show what survives with them);
* `active_channel` keeps its old value when a recovered delivery succeeds through another channel
  (`docs/protocol.md:809`);
* the comment at `events.py:45` says "Drop oldest-style" of a full queue; it drops the newest (`Offer`);
* `guard` promises to cancel (`guardian.py:340`), but its POST is outside the `try`
  (`guardian.py:355-356`): an agent cancelled during `create` leaves its question open
  (`CreateFails`; `LeavesNoQuestion` speaks of calls that know their id);
* `docs/protocol.md:860` forbids a client to declare a timeout by its own clock ("不得单独宣布超时终态");
  `_wait_poll` (`guardian.py:545-553`) raises `InterventionTimeoutError` when its deadline passes,
  over a row that is open if the clocks disagree and that a human may resolve before the cancel that
  follows (the end `early` of `GuardianClient`);
* the docstring of `LoopDetector` (`loop_detector.py:97-100`) promises a signal for "the same error
  string"; `all(errors)` (`:143`) takes an empty one, such as `str(TimeoutError())`, for no error, so
  repeating it is never reported (`SilentErrorIsMissed`; `LoopIsCaught` states the exception);
* "when score >= `intervene_threshold`" (`risk_evaluator.py:152-154`): a threshold above 0.7 has no
  effect, since `should_intervene` also fires on level HIGH, which is any score from 0.7 up; and a
  custom rule of level HIGH whose score is low is hidden by any rule that scores more, because only
  the best rule's level counts (`:189-191`; hence `RulesAgree` in `ApprovalCorrect`);
* `create` (`service.py:57-62`) stores the snapshot after the row and outside any `try`: if that
  raises, the intervention stays PENDING with nobody to deliver it (`SpawnDelivery` under the fault
  `snapshot`);
* `except Exception` around the transactions (`store.py:323`) does not see a `CancelledError`: a task
  cancelled at shutdown gives the lock back with the transaction open. Not in the model;
* `ask_human_sync` (`guardian.py:164`) returns only when the thread blocked in `readline` does
  (`Joined`), whatever the call's timeout.

## 5. Proofs

Assumptions: `InterventionAssumption` and `StoreAssumption`, i.e. `None` is no id, client, choice,
channel, task or connection, every task has a connection, and options are choices;
`HubAssumption` and `ClientAssumption` (queues have room for one update, every call has its
connection, the constants are of the kinds named); `AgentAssumption` with `DetectorAssumption`,
`RulesAssumption` and `StackAssumption` (sizes are positive, rules have a score and a level, matches
are sets of rules, base_threshold lies between 0 and 1; its bounds may be any numbers, in any order);
`SwarmAssumption` (sizes are positive); `ServiceAssumption` (`None` is none of the names, tokens are
not message ids of the terminal, callers are not the daemon's own tasks, the terminal is always
configured, as `build_channels` does). Nothing is assumed finite, except the agents of the swarm,
whose registered ones `max_agents` counts.

* `InterventionProofs`: the invariants of the abstract specification and `Final`. Its inductive
  invariant is types together with the relation between status, version and decision.
* `InterventionStoreProofs`: `StateCorrect` and `TransactionCorrect`. Layer 1, `StateOK`: which
  operation with which arguments may be at which statement; a type invariant alone is not inductive
  (a task at `update` with no id would write nowhere). Layer 2, `LockOK`: a task at a statement
  of a transaction holds the lock; whoever left a transaction open holds it and is inside one;
  without a transaction `work` is `db`.
* `InterventionStoreRefinement`: `RowsCorrect` and `Implementation`
  (`Spec => ImplementsIntervention`). Layer 3, `RowsInv`: what a task believes of the row it read
  is still so (a terminal row stays; the version in the WHERE clause protects the rest), and an
  open transaction is at most one step of `Intervention` ahead of the committed rows, and none when
  its task is about to roll back, unless a statement of it has failed. It must
  cover the transactions that takeovers end half way: such a task goes on in autocommit mode, and
  its UPDATE is then itself the step. The argument is by cases on what a step does to the tables
  (`TablesMove`): one lemma for the other tasks (`Others`), one for what lock holders see
  (`Views`), one per operation.
* `InterventionStoreOutcomes`: what callers are told, on top of the refinement's invariant (`Base`).
  `ToldCorrect`: a row is told to a caller only when no transaction that could undo it is open on
  that connection (`TellTold`), and a committed terminal row stays (`DbKept`). Its hypothesis
  `"get" \notin Ops` is needed: an unlocked read does report uncommitted outcomes (section 4).
  `OutcomeCorrect` says what remains with such reads: what was told is in the written image
  (`ToldIsWritten`), and where `Faults` is empty no rollback takes a row out of that image
  (`WorkKept`), so between transactions it is committed.
  `CreateCorrect` adds that a creator at its COMMIT sees its own row (`InsertedOK`). `WinnerCorrect`
  counts the calls that may yet win (`Settler`): one winner already told or one task past its
  UPDATE, never both, and only while its row is seen settled (`WinsOK`).
  `ChannelCorrect` carries the channel through the call's arguments,
  the row read and both images of the tables (`AskedOK`). `ExclusiveCorrect` and
  `RevocationCorrect` assume `"takeover" \notin Ops`: a takeover's `commit()` is what breaks both.
  Then nobody else touches an open transaction (`AloneOK`), so between UPDATE and COMMIT the only
  row settled is the task's own, and at COMMIT its tokens are revoked (`RevokeOK`).
* `InterventionServiceProofs`: every safety property of the service model. `Moves` says, once for
  all steps, how one may change rows, tokens and cards; `Base` is the type invariant with what it
  needs to be inductive: which flow with which arguments may be at which await, what a delivery holds
  at each of its own, a row's version. `Implementation`, `BroadcastsTrue`, `BroadcastsFinal` and
  `LateLoses` follow from the two. `ChargeOK` keeps apart the three that may deliver an intervention
  (an entry of `toRecover`, a call about to spawn, a delivery): `DeliversOnce`. `AskedOK` adds that
  somebody has charge until a human is asked, and that an asked intervention has its card:
  `Answerable`, for any number of crashes, assuming `"snapshot" \notin Faults`: a create whose
  snapshot cannot be stored leaves a row nobody has charge of. `OutcomesBroadcast` assumes `"crash" \notin Faults`: a
  daemon that dies between the commit and the broadcast never broadcasts, and its subscribers die
  with it; the invariant `OutcomeOK` names the call that is still to announce. `TornDown` assumes
  `Faults \subseteq {"snapshot"}`: a failed `revoke_card` is logged and not repeated, and a crash forgets
  `_message_ids`. Its invariants are `CardsOK`, one token per intervention and its card shown only
  from `sent` on or while `messages` has it, and `TornOK`, the call that is still to take it down.
* `GuardianClientProofs`: `AsksAnIntervention` by cases on the steps of agents and daemon. The
  invariant `CInv` of the other two joins the rows (well-formed, and a decision only with
  RESOLVED), the calls (a call whose id is known is that row's client; what its `end` says is what
  the row is) and everything in flight: an update in a queue, in a handler or on a wire that is
  terminal is the row's own outcome. The last is what makes an answer true that arrives late, by
  whichever way, since a terminal row stays. `OutcomeIsTold` and `NoQuestionIsLeft` follow from it.
  `OutcomeIsTold` is about outcomes read from the daemon: an option, a refusal, a timeout, a
  cancellation, a failure. The one way to be told of a timeout that is not the row's is the end
  `early`, and `NeverEarly` proves, from `"skew" \notin Faults`, that no call ends so: a call that is
  late asks about a row that is overdue (`Punctual`), and its last GET times that row out.
  `NobodyIsDeaf` needs to know what a queue may have dropped (`HInv`): a row is AWAITING_HUMAN once,
  so at most the first update of a queue is not terminal, and a terminal one that finds the queue
  full finds another terminal one in it. It assumes `QueueSize >= 2` (the code's queues have 64;
  at 1 TLC shows it false). `ClientTypes` is the type invariant.
* `AgentStepProofs`: `AsksInterventions`; `RefusedNeverRuns`, without any hypothesis: what runs under
  a question was approved. `ApprovalCorrect` adds that whatever is looping, alarming or uncertain was
  asked, and needs two hypotheses: `Threshold <= Window`, or the detector is blind, and `RulesAgree`,
  no rule of level HIGH scores below 0.70, which `DefaultRulesAgree` shows of the built-in ones. It
  rests on two facts. The best rule exists and is the first of the highest score (`BestIsBest`, by the
  least number of a set, from the well-foundedness of the naturals), so that one alarming rule makes
  the whole match intervene (`AlarmIntervenes`); and the window tells a loop of the whole history
  (`LoopCorrect`), where `sameAction` and `sameError` are shown to count the run of equal events at
  its end. `SilentErrorIsMissed` is the exception of `LoopCorrect`, the error without a text;
  `DetectorIsBlind`, that beyond `Threshold <= Window` the detector never speaks; `RollbackCorrect`,
  that the stack is always the newest part of an unbounded one. `AgentTypeCorrect` bounds the adaptive
  threshold by the least and greatest of base, min and max, whichever order the constructor was given
  them in (`uncertainty_evaluator.py:46` checks none).
* `SwarmHubProofs`: `SwarmTypeCorrect` (re-registration does not count twice: cardinality of the
  registered agents) and `NewestArrives`: with what was taken put in front, every queue is strictly
  increasing and ends with the newest (`Ordered`), appending keeps that (`Grown`), and so does
  dropping from the front (`Kept`). `LedgerTrue` and `StatusShownTrue` follow from `LInv`, which says
  by positions in the history what the properties say by selecting from it: the events of an agent
  are in the order of publication, the last status is the registry's, and a thought later than the
  one in a row is at least `Recent` places before the end it had at the takeover. Publishing shifts
  every position by the same number (`Pushed`), so distances stay. `StatusShownTrue` assumes
  `History >= 2`: with room for one event a thought pushes the status out. An observation of the code
  may publish an action and a screenshot as well, so its bound would be 4; it has 64. That the
  greatest of a set of positions exists (`MaxIndex`) is shown by a least counterexample
  (`LeastNat`), from the well-foundedness of the naturals.

Every invariant and action property of a passing run, and every refinement, is thereby a theorem
for all values of the constants, under the hypotheses named above. Left to TLC is liveness
(`CallsReturn`, `Asked`, `TapsAreHandled`, `SettledBecomesQuiet`, `CallsEnd`): fairness needs
ENABLED, which the prover does not reason about.

## 6. Not modelled, and what comes next

Of modelled components:
* service: `aclose` at shutdown, validation of the envelope, the double bootstrap of `app.py` (the
  two connections it opens are `store_two_conns`), statement failures composed with the service (an
  exception ends the poller or a delivery task);
* store: a task cancelled inside a transaction (`aclose` and the poller's `stop` at shutdown); the
  connection is closed soon after, which is `Crash`;
* client: a `client_request_id` the agent gives and uses twice, a second cancellation during a
  cancel, the body of a `guard`, `aclose`; `guard_step` with `enable_smart=False`;
* event hub: subscriptions to every intervention, which nothing in the repository opens; the update
  a redelivery publishes of a row that is AWAITING_HUMAN already;
* engine: fingerprints, regular expressions, keyword search, `confidence_from_logits`;
* swarm: rules added at run time, subscriptions to one agent, `heartbeat` with a status of its own,
  `clear_pending` (nothing in the daemon calls them or it); actions and screenshots are published
  as thoughts are;
* Telegram: photo to text, the `callback_data` codec, HTML.

Outside: command line and configuration, media files, `align/`, exporter, web console, generated
and third-party code: string handling and file I/O, nothing that interleaves.

Next: that `InterventionService` implements the daemon `EventHub` assumes (the row written in one
step, published in a later one), so that what is proved of client and hub holds with the service
behind them; and properties for the hazards of `PROJECT.json` that have none yet.
