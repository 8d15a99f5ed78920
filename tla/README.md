# kai-daemon in TLA+

Specifications of [`kai_daemon`](../src/src/kai_daemon): a personal daemon in Python that
runs scheduled "workflows" on a local language model, holds a conversation over HTTP, and
keeps a memory of both in YAML and JSONL files.  The modules here are translated from the
code; TLC checks them on small instances and TLAPS proves the most important results for
every value of the constants.  Paths below are relative to `src/src/kai_daemon/` and
`file.py:N` is line N of that file.

## 1. The system

One process, started by `__main__.main()`.  Its threads:

| thread | started by | runs |
|---|---|---|
| main | - | `WorkflowEngine.start`, waits for a signal, then the session end and the shutdown |
| worker | `WorkflowEngine.start` | one workflow at a time from a priority queue |
| cron | `WorkflowEngine.start` | a `sched` scheduler that submits workflows |
| conv-server | `main` | FastAPI: one event loop that interleaves turns at their awaits |
| action-api | `main` | a `ThreadingHTTPServer`: one thread per request |
| session end, and two pool threads | `main`, `run_session_end` | `relational_update` and `episodic_flush` at once |

They share the engine's queue and dictionaries (some under locks), one inference function
with one cache entry on the model server, the conversation's working memory (not locked) and
files (not locked, written in place).

### Components

| component | state | operations | hard behaviours | correct when |
|---|---|---|---|---|
| workflow engine (`engine.py`) | queue, lifecycles, `_waiting`, active context, cron events, run log | `start`, `submit`, `_unblock_waiters`, `_fire_cron`, `_run_workflow`, `_fire_chained_triggers`, `shutdown` | three threads over one queue, several locks that each guard one access only; cancelled runs submitted again | prerequisites are enforced, no submission is lost or run twice, successors run once per success, cron goes on, all ends at shutdown |
| preemption context (`workflows/preemption.py`) | three events | `preempt`, `wait_for_checkpoint`, `resume`, `cooperate` | calls of two threads in any order, exceptions of callbacks | a confirmed checkpoint means a paused workflow; a resumed one goes on |
| commissioned inquiry (`workflows/commissioned_inquiry.py`) | inquiry record and findings in the memory server | the workflow function | preemption between iterations, failure at any call, a rerun over the leftovers of a failed run | partial work is kept; a completed record is whole |
| conversation session (`workflows/personal_assistant.py`, `conversation_server.py`) | working memory: turn count, turn notes | `begin_session`, `handle_turn`, `end_session` | turns interleaved at awaits; the end runs in another thread while turns go on | turn ids are unique; memory is let go only after it was saved |
| session end and episodic flush (`workflows/session_end.py`, `workflows/episodic_flush.py`, `state/local_episodic_store.py`) | five files of records | snapshot, relational update, six flush steps | partial failure, retry after it, a crash between steps | records never refer to what is not there; a record is complete |
| versioned documents (`state/daemon_self.py`, `state/daemon_relational.py`) and their writers (`daemon_seeding`, `relational_update`, `daemon_integration`) | current file, history directory | `load`, `write`, seeding, reseeding | a crash in the middle of a file; versions that start again | the history is kept, archives never change |
| holding store, borderline pool, scratch space, action API (`state/holding.py`, `state/borderline.py`, `state/scratch.py`, `api.py`) | a dictionary and a file each | `write`, `discharge`, `append`, `promote`, `discard`, `expire_old`, `archive`, `acknowledge`, `update_content`, `expire_ttl` | concurrent requests over unlocked stores; overlapping saves; restarts, also in the middle of a file | an item is settled once, and stays settled |
| inference singleton (`__main__.py`) | client, lock; the server's cache entry | `_get_inference_fn`, `_inference`, `_shutdown_inference` | several threads on one cache entry; calls that fail half way, evicts that fail unseen; a shutdown under no lock | one client, nobody stuck, answers from the prompt asked |
| a turn (`handle_turn` of `workflows/personal_assistant.py`) | turn count, thread stack, floating threads, holding store, correction history | infer the register, retrieve, answer, update the stack, surface an item, take a correction | turns overtake one another at the awaits; failures half way; three stores over one file; restarts | below, in the rows of its parts |
| thread stack and scratch threads (`state/thread_stack.py`) | two in-memory lists | `update_salience`, `update_stack`, `assign_states`, `add_thread_to_stack`, `add_floating_thread` | caps, thresholds and ties; updates that arrive out of order | the foreground leads, what was just referenced stays, a floating thread leaves by time only |
| threads (`state/threads.py`) | one YAML file per conversation thread | transitions, perspectives, notes | unlocked read-modify-write | perspectives are spaced (the rest has no caller) |
| inner-life pipeline (`daemon_integration`, `inner_life_thread_pollination`, `inner_life_push_evaluation`, `state/push_history.py`) | fascinations, open questions, perspectives, signals, held items, push history | one function each, chained by the engine | windows measured on a clock that goes on, failures between writes, topics that come up again | perspectives and pushes are spaced; what is held goes back to what was written; a promotion stands |
| contradiction detection, discharge (`workflows/contradiction_detection.py`, `state/discharge.py`) | contradiction records, holding items | detection, selection, hydration | a stop between the record and the item; an item settled while a turn waits for its record | an item is shown once; the most relevant one is chosen |
| retrieval, register inference (`state/retrieval.py`, `state/register_inference.py`) | log of corrections | two queries and their merge; scores, corrections | either query fails; the window of corrections and the reload of the log | a document comes once, with its best score; a correction helps |
| distillation health check (`distillation_health_check`, `state/distillation_metrics.py`) | metrics log | one function | - | not modelled |
| tool permissions (`sdk.py`) | a context variable | permission check | - | not modelled |

How they interact: `main` registers the workflows with the engine and starts it; the worker
calls the seeding workflow, which gets the inference function and writes DAEMON_SELF; a
request to the conversation server begins the session, which reads DAEMON_SELF and
DAEMON_RELATIONAL; at a signal `main` runs the end of the session, whose two pool threads
use the same inference function and write DAEMON_RELATIONAL and the episodic files; then the
engine, the inference function and the action API are shut down, in that order.

In the code as it is, most registered workflows are `_noop`s (`__main__.py:223`), the engine
does not hand its preemption context to the workflow it runs, and the memory client of the
conversation is `None`.  `run_conversation_server` passes a scorer that gives every holding
item the relevance 0 (`_zero_scores`, `conversation_server.py:319`) and an empty correction
history (`:362`), the HTTP route passes no correction, and no code outside the tests puts a
thread on the stack.  The models are of what each component does when it is called; where that
differs from today's wiring, the section of the module says so.

## 2. Plan

Modules in order of importance; those of 1-9 exist, and are proved where it says so.

1. `WorkflowEngine` (proved), `MCEngine`.
2. `PreemptionContext`, and `CommissionedInquiry`, which composes a workflow with it (proved).
3. `VersionedStore` (proved).
4. `SessionContract`, the abstract end of a session, and `Session`, which implements it
   (proved, the refinement included).
5. `ActionServer` (proved for any number of handlers), `MCActions`.
6. `InferenceCache` (proved).
7. `InnerLife` (proved), `MCInnerLife`.
8. `ThreadStack`, `RegisterInference`, `Discharge`, `Retrieval`: operators; `ConversationTurn`,
   which composes them with the action server and the detection (proved); `MCTurn`.
9. `CronSchedule` (proved), the arithmetic that `WorkflowEngine` leaves to the environment.
10. Proofs next: `Merge` against its reference definition for lists of any length, and
   the three stores of `ConversationTurn` with torn files.

## 3. The modules

### WorkflowEngine, MCEngine, WorkflowEngineProofs

Three processes: `main`, `worker`, `cron`.  Each has a label `pc[t]`, and an action is what
the thread does between two points where another thread can be seen: a locked section, a
queue operation, or one access to the unlocked set `_waiting`.  `_enqueue_spec` and `submit`
are called by all three, so they are a subroutine: `call[t]` holds the workflow that thread t
is submitting and the next of the steps `mark` (lifecycle PENDING), `seq` (sequence number),
`put` (queue) and `signal` (preemption).  So are the two halves of `_unblock_waiters`
(`Unblock`, `Release`).

| code | actions |
|---|---|
| `_evaluate_startup_conditions` | `EvaluateStartup`, `CheckPrerequisite`, `HoldBack`, `Park`, `Unblocked` |
| `_schedule_cron_workflows`, `_fire_cron`, `_cron_loop` | `FinishStart`, `Due`, `FireCron`, `Rearm`, `StopCron` |
| `_worker_loop`, `_run_workflow` | `Poll`, `GetItem`, `GetTimeout`, `Begin`, `Activate`, `Run`, `Deactivate`, `Record` |
| `_fire_chained_triggers` | `StartChain`, `ChainOne`, `FinishChain` |
| `shutdown`, `submit` from outside | `Shutdown`, `Request` |

The outcome of a condition, of a workflow function and of the push signal are
nondeterministic.  When a cron event falls due is left to the environment: `sched` waits on
the monotonic clock, and what the wall clock shows when it fires is anybody's guess.  The
delays themselves are in `CronSchedule`.  `register` is part of `Init`.  `WorkflowSpec` keeps
the fields the engine reads; `Specs` is a constant, and `MCEngine` gives it the kinds of
workflows that `_build_engine` registers: two at start-up with one requiring the other, a cron
workflow at low priority, its chained successor gated by the push signal, and one that is
requested.

Two variables are history: `resolved` (the workflows that ever were COMPLETED or NOT_NEEDED:
a run again makes a completed workflow RUNNING) and `runs`, which counts the entries of
`workflow_runs.jsonl`.  `Logged` gives each entry a place of its own, so that the entries can be
counted together with what is queued and under way: `EverySubmissionAccounted` compares the
cardinality of that set with the number of submissions.

### CronSchedule

`_seconds_until_next_run` and `_seconds_until_random_window` (`engine.py:651-690`) as
operators on whole seconds since the midnight that began the day of `now`: `NextRun`, and
`Fires`, the set of moments that `randint` may pick.  `Day` and `Soon` (the head start of ten
seconds in a window that is already open) are constants, so that `MCEngine` can compare the
operators with what the docstrings promise over a whole day of 24 (`WindowsAreMet`) and the
theorems, which are in `WorkflowEngineProofs`, hold for 86400.  `WindowStart` is the first of the
moments and `WindowEnd` the end of the window they are taken from.  Two results are worth knowing:

- a random window is documented as `[start_hour, end_hour)` (`engine.py:670`), but `randint`
  includes both ends and the ten seconds may begin just before the end: a firing may come at
  the end or up to ten seconds after it (`FiresInItsWindow` gives the exact bounds);
- after a firing inside its window the workflow is scheduled again in what is left of the
  same window (`FiresAgainInTheSameWindow`), so a "daily" workflow may run several times a day.

### PreemptionContext, CommissionedInquiry, CommissionedInquiryProofs

`PreemptionContext` has one variable per event and one action per method; `cooperate()` is
five steps, because `checkpoint_fn` and `rollback_fn` are calls that may raise and the wait
in the middle is where the thread is suspended.  The preempting side may make its three calls
in any order at any time, as `preemption.py` documents them.  `CommissionedInquiry` extends
it: its cooperation point is `cooperate()`, every call of an injected function is a step that
may raise, and after a failure or a cancellation the inquiry may be run again with a new
context, over what the failed run has left in the memory server.

### VersionedStore, VersionedStoreProofs

One document and the process around it.  `Path.write_text` truncates and then writes, so each
file write is two steps (`TruncateArchive`/`WriteArchive`, `TruncateFile`/`WriteFile`); a
truncated file loads as the document of defaults, `Blank`, whose version is 0, because
`yaml.safe_load("") or {}` validates.  `Stop` may happen at every step.  `kind` chooses the document: DAEMON_SELF
is seeded at start when it does not exist and can be reseeded, DAEMON_RELATIONAL is not.  The
text of a document is the number of the edit that made it.

The history variables: `log` (the documents whose write finished), `whole` (no crash has hit a
file between its truncation and its write), `reseeded` (`--force-reseed` has deleted a
document).  That `whole` is needed is a limit of the code: `daemon_self.py:6` says "Full history
is retained indefinitely", and a crash in the middle of the archive leaves a blank file under
a name that blocks its own repair.

### SessionContract, Session, SessionProofs

`SessionContract` says what the end of a session promises with four variables: the turns held,
those promised when the end was asked for, those saved by the last complete record, and
whether memory has been let go.  `Session` is the code: turns on the event loop (`loop` is the
turn between two awaits, so a turn runs alone except while it is suspended at the retrieval),
the thread of `end_session`, and the two pool threads with the six steps of the flush, each of
which may raise.  `Contract == INSTANCE SessionContract WITH ...` is the refinement mapping:
what is held is the turns of the notes, what is saved is read from the records whose attempt
reached the index.

A turn note carries the conversation threads it is notable for; `unwritten` are those whose
episode is still to be written.  Rows of a file are identified by the attempt, because the
code gives a retry new ids.  The number of the attempt itself is history: in the files the rows of
all attempts carry one `session_id` and the record an id of its own, so that a reader who joins
by `session_id` finds the episodes of failed attempts beside those of the last.
`EpisodesMatchRecord` says that what one attempt writes goes together, not that such a reader
would see no more.  Deviations from today's wiring: the await of the retrieval
happens only with a memory client (both branches are in `BeginTurn`), and `end_session` may be
called again after a failed flush, as `session_end.py:17` asks of the caller, although `main`
calls it once.

### ActionServer, MCActions, ActionServerProofs

The dictionary of a store, the file, and for each thread that uses it where it is between
reading items, updating the dictionary, dumping it, truncating the file and writing it.  `pool`
chooses the store: the holding store, the borderline pool, which has an expiry that saves once
for all items, or the scratch space, whose notes can be changed after they are written
(`ChangeNote`) and whose expiry saves once per note (`ExpireNote`).

| code | actions |
|---|---|
| `write`, `append` | `AddItem` |
| `_handle_contradiction` and `discharge`, `_handle_borderline` and `promote`, `discard`: the check, the copy | `Check`, `Update` |
| `archive`, `expire_ttl`, `acknowledge` and `update_content` | `ArchiveNote`, `ExpireNote`, `ChangeNote`, then `Update` |
| `expire_old` | `ExpireOld`, `Update` |
| `_save` | `Dump`, `Truncate`, `Write` |
| a stop or a crash, `_load` | `Restart` |

The stores say "single-writer assumed" and "Not thread-safe"; the API's
`ThreadingHTTPServer` (`api.py:235`) does not keep to it.  So any number of handlers may be at any
step at once in the first two stores, and only the scratch space, which the workflows use on the
engine's one worker, has one user at a time (`MayUse`).  A refusal (404, 409, an exception)
changes nothing and has no action.  `answers` records what callers were told.

What holds is said with three history variables.  `contested` are the items that two threads
have had in hand at once: for these the 409 of `api.py:35` is not kept, which is what the run
ActionsConcurrent shows, and `SettledOnce` says that, short of a torn file, it is the only way.
`serial` says that saves have not overlapped: two that do may leave the older dictionary in the
file.  `whole` says that no restart has found a file in the middle of a save, or one
that overlapping saves had written.  A file cut short holds some of its items (`IsCutOff`); the
last one may be cut in two, and then a settled borderline item loads as pending, the default of
its status, while an item of the other stores cannot be loaded.

One store object per file is assumed here.  For the holding store there are three, each with a
dictionary of its own (`holding.py:115`): they are in `ConversationTurn`.

### ThreadStack, RegisterInference, Discharge, Retrieval, ConversationTurn, MCTurn, ConversationTurnProofs

The first four are operators, translated from the module of the same name: salience in integer
thousandths, register scores and relevance in hundredths, a retrieved document as its score,
whether it is pending, and the thread its metadata name.  `ConversationTurn` is `handle_turn`,
cut where something else can happen: at the two awaits, and where a call may raise.

| code | actions |
|---|---|
| `handle_turn` to the retrieval: count, `infer_register`, `pre_turn_stances` | `BeginTurn` |
| the await of `conversational_retrieval` | `Retrieve` |
| the answer, `update_stack`, `select_discharge_candidate` | `Respond` |
| the await of `hydrate_contradiction` | `Hydrate` |
| `HoldingStore.discharge`, which raises for an item surfaced in the meantime | `Surface` |
| `apply_correction`, the note, the answer | `FinishTurn` |
| an exception of the model or of a store | `FailTurn` |
| `add_thread_to_stack`, `add_floating_thread` | `AddThreadToStack` |
| resolve and dismiss of the action server, through its own store | `SettleItem` |
| `contradiction_detection`: its store, the record, the item, the end | `StartDetection`, `RecordContradiction`, `WriteHoldingItem`, `EndDetection` |
| stop and start of the process | `Restart` |

A turn runs alone on the event loop (`busy`) except while it is suspended; its locals (the
turn number, the register, the stances noted, the item selected) go on from before an await to
after it while other turns change what they were read from.  Turns are numbered in the order
in which they are sent, which loses nothing: they have no identity otherwise.

Three `HoldingStore` objects stand over one `holding.yaml`: `items` of the assistant
(`conversation_server.py:344`), `theirs` of the action server (`api.py:232`), and the one the
detection loads at each run.  Each saves its whole dictionary and, the first two, load it once
(`holding.py:115`).  The history variables say how far that matters: `shown` (the turns that
showed an item), `past` (the turns sent after a restart that followed the item's settling),
`overwritten` (a save has dropped what another store had saved) and `stale` (a store was
loaded after that).  `ShownOnce` is what holds: once per item, and never again after a restart,
unless `stale`.  What does not hold is documented in two places: `discharge.py:14` and
`api.py:35` treat an item that the API has dismissed as settled, but until a restart the
assistant's store does not know of it.  With today's scorer no item is ever selected, so nobody
meets this yet.

`update` is history as well: the turn of the last call of `update_stack` and the threads of the
stack that it named.  A power of the decay is rounded down, but to a thousandth at least
(`NextPower`): in the code it is a positive float, and a turn that looks back over a negative number
of turns divides by it.  `Sublist` keeps the elements of a list at given places, which is what
`update_stack` and `list_unsurfaced` do with their comprehensions.

Whether a reference keeps a thread depends on the parameters of `user.yaml`, which nothing in the
code validates.  `ReferenceSaves` and `FloorSaves` say what they have to keep to: that one
reference makes up for one turn of decay, and that the floor of a floating thread's recency weighs
as much as its drop threshold.  `DefaultsSave` in `MCTurn` is an `ASSUME` that TLC evaluates: the
defaults do, for every recency and depth there is.

A scenario is a record of the inputs there are, chosen in `Init`, so that one run explores four
small systems instead of one product of them.

Other places where the code and its comments part, met on the way:

- `working_memory.py:94` says floating threads have "no cap, no eviction", `thread_stack.py:11`
  "No eviction. No cap." and `:203` "no cap or eviction"; `update_stack` removes them
  `floating_max_turns_unresolved` turns after they were added, or below the drop threshold.
- The docstring of `SalienceConfig` (`thread_stack.py:76-79`) gives the defaults 0.45 and 20 for
  `floating_drop_threshold` and `floating_max_turns_unresolved`; the code, `user.yaml` and the
  unit tests have 0.05 and 200.  With 0.45 `FloorSaves` would be false, as the floor weighs 0.30.
- `working_memory.py:81` documents `contradictions_surfaced` as contradiction ids;
  `personal_assistant.py:904` appends the id of the holding item.
- `handle_turn` hydrates only if the client has `fetch_contradiction`
  (`personal_assistant.py:889`), and `hydrate_contradiction` calls `get_contradiction`
  (`discharge.py:230`) inside a `try` that returns `None`: a client with only one of the two
  has its contradictions shown without their records.
- The correction history is documented as loaded at the start of a session; the server
  passes `[]`, and the first correction brings back the whole log.  `CorrectionHelps` therefore
  speaks of a history that is up to date.

### InferenceCache, InferenceCacheProofs

The callers of the model, the lock around the construction of the client, and the cache entry
of the model server (external, modelled from how it is used).  The entry holds pieces of
prompts: `prefill` adds all the tokens of a prompt but the last (`Prompt(c)`), `generate` adds the
last (`Last(c)`) and nothing else, and the answer is generated from what is then in the entry.

| code | actions |
|---|---|
| `_get_inference_fn` | `Ask`, `Acquire`, `Test`, `Build`, `Return` |
| `_inference` | `Evict`, `Prefill`, `Generate`, `CallRaises` |
| the seeding function, after the workflow | `LeaveSeeding`, `EvictAfterSeeding` |
| `_shutdown_inference` | `ShutDown`, `EvictAtShutdown`, `Reset` |

Every evict may fail, and none of the failures is heard of: in a call it is ignored
(`__main__.py:150`), elsewhere logged.  The comment there speaks of an entry that does not exist
yet, but an entry that stays is prefilled over.  `_shutdown_inference` takes no lock, so that
the client may be gone between the test for it and its return; the caller then gets `None`.

Three history variables say when an answer can be trusted.  `evicted`: the evict of the current
call worked, or found the entry empty.  `alone`: nothing that uses the entry, neither another call
nor the evict after seeding or at shutdown, has overlapped the call.  `OwnContextWhenAlone`: a
call that is alone is answered from all of its own prompt, and from nothing else if it is also
`evicted`.  Without `alone` the second half fails (the run InferenceShared), and so would the
first, as another thread's evict may take away a prompt before the answer.

### InnerLife, MCInnerLife, InnerLifeProofs

One thought at a time passes through the three workflows, which the engine chains on its one
worker (`engine.py:21-22`).  Integration is one action, since it writes once after its last
call of the model; pollination is an action per thread and one for the signal; push evaluation
is cut at its call of the model (`Evaluate`, then `HoldingItem` or `Push`) and between its two
writes (`Push`, `RecordPush`).  `Leave` ends the passage at any of these points: an early
return, an exception or a stop.  `RecordPush` is the save of the push history, which a stop may cut
short: what is left is read as the first of the records, or as none (`push_history.py:71-77`).
The torn files of the other stores are in `VersionedStore` and `ActionServer`, not here.  `start` is the `_now` of a workflow, `now` the clock, which
`record_push` reads again.  A topic is a name in some spelling, because topics are compared by
`lower()` when one is looked up and exactly when the list is rebuilt.  Which threads are
candidates is left open (any set), which covers whatever the life cycle of threads does
between passages.

`PromotionStands` states the exception the code makes: `new_fascination` appends a topic that
may be there already, promoted, and a later development of the new entry replaces the promoted
one as well (`daemon_integration.py:279`), which is then active again with a smaller count.

## 4. What is checked

All properties and what they say are in the modules, each with its lines.

| run | module | shows |
|---|---|---|
| Engine | MCEngine | prerequisites, accounting of submissions, chained runs, cron, and three liveness properties, over all interleavings; the arithmetic of cron delays (`WindowsAreMet`) |
| Inquiry | CommissionedInquiry | the handshake of preemption, and partial work that is kept, over reruns |
| Session | Session | unique turn ids, consistent files after any failure or crash, complete records, the refinement of `SessionContract`, and that a successful flush clears |
| Store | VersionedStore | versions, order and archives over crashes and reseedings |
| Actions | MCActions | what is settled is settled once, durably and for ever, unless two handlers have one item in hand or a file is torn |
| InnerLife | MCInnerLife | the windows of deduplication and of the push ceiling, that insights go back to what was written, and the only way a promotion is undone |
| Turn | MCTurn | the foreground leads whatever the order of updates, a thread just referenced stays, floating threads leave by time only, an item is shown once, a correction helps; selection and merge against their reference definitions (`SelectsTheBest`, `MergesTheBest`) |
| Inference | InferenceCache | one client, no caller stuck, and answers from one's own prompt when alone, after evicts that fail and calls that leave their tokens |

Runs that find a sentence of the code's own documentation violated:

| run | sentence | what happens |
|---|---|---|
| EngineLostWakeup | `engine.py:387` "enqueue any spec whose prerequisite just resolved" | checked, resolved, parked: the waiter is never enqueued |
| SessionPartial | `episodic_flush.py:17` "All six steps complete or the session produces no episodic record" | a failed flush leaves rows |
| ActionsConcurrent | `api.py:35` "409 Conflict" | two concurrent requests both succeed (`AnsweredOnce`) |
| InferenceShared | `__main__.py:147` "Evict before each call so cross-call context can't accumulate" | the two threads of a session end share the entry: the one's prompt is prefilled between the other's evict and its answer |

### Bounds

- Engine: one workflow of each kind; `MaxEvents = 2` requests, firings and cancellations in
  all.  Two are enough for a request during a firing, a cancellation of a preempted run and a
  second firing while the first chain is under way.  Sequence numbers are not bounded
  otherwise: each submission is caused by a start-up workflow, an event or a success.
- Inquiry: three iterations (first, middle, last), two runs (a rerun over leftovers).
- Session: two turns (one before and one after any point of the other), two conversation
  threads (episodes that must differ or share a turn), two ends (a retry).
- Store: five writes, three stops, one reseeding: enough for versions 1 to 3, a crash, a
  repeated number and an archive that exists already.
- Actions: two items (a save must not lose the other one), two handlers (at any two
  steps of an operation), two restarts (one over what the other has left of a file).  Items and
  handlers are symmetric.  The concurrent run needs one item and two handlers.
- InnerLife: four thoughts (a topic introduced, promoted, introduced again, developed), two
  spellings of one topic, two threads (one pollinated before a failure and one not), and a
  clock of two ticks with windows of 0 and 1: at, inside and outside each window.  Threads
  and spellings are symmetric.
- Turn, one scenario after the other: eight turns that may fail over one thread (a thread is
  dropped after seven without a reference, and one touched at the seventh must not be);
  three turns, three threads (one more than the cap) and two turns suspended at once (each
  overtakes the other); three turns, two items (one that is a contradiction and wants a
  register, one that is neither) and one restart;
  four turns with corrections (valid in three directions and invalid) and one restart, with a
  window of 2 corrections instead of 20, so that the third pushes the first out.
  `floatingMaxTurnsUnresolved` is 3 instead of 200 for the same reason.  All other salience
  parameters have the code's defaults.
- The `ASSUME`s: lists of three items with four scores, two lists of up to two documents, a
  day of 24 units with all windows.  They compare each operator with a definition that says
  what is promised and not how it is computed.  `DefaultsSave` ranges over every recency and
  depth in thousandths.
- Inference: two callers with two calls each: the second call meets what the first left, its
  own or the other's, and the seeding thread's evict and the shutdown each come once.

The theorems below hold for all values of these constants.

### Fairness and deadlock

Fairness is weak and per thread: a thread that can go on does (`Main`, `Worker`, `Cron`; the
inquiry's `Workflow`; `Ender`, `RelationalUpdate`, `Flush`; `CallerStep(c)`).  It stands for the
operating system's scheduler, and for the assumption that an injected function returns or
raises.  Nothing is assumed of the environment: nobody has to make a request, let a cron event
fall due, preempt, resume, send a turn, end the session or shut down.  A lock is held for a few
steps only, so weak fairness is enough for `CallsEnd` on the checked instance; it does not
promise a waiter the lock against endless newcomers, and calls are bounded.  In the same way
`QueuedRuns` rests on `MaxEvents`: with endless requests of a higher priority an item could stay in
the queue for ever.

Deadlock is checked in `Engine` and `Inquiry`, which have a `Terminated`/`Finished` step for
their intended end.  The other systems really may stop (no more turns, requests or stops
within the bounds), and their configurations say so.

## 5. What is proved

The modules with theorems take nothing on trust but the assumptions on constants that the
specifications state.

`WorkflowEngineProofs`, for every `Workflow`, every `Specs` that satisfies `SpecsAssumption`
and every `MaxEvents`:

- `TypeCorrect`: `Spec => []TypeOK`.
- `PrerequisitesHold`: `Spec => []PrerequisitesEnforced`.  The property is not inductive:
  that a workflow in the queue had its prerequisite resolved follows from what held when the
  submission began, which follows from where the submitting thread came from.  The inductive
  invariant therefore also says that each workflow that a thread is about to release, and each
  it has marked, has a resolved prerequisite, and what the labels of the main thread say of
  the workflow it is busy with.  `resolved` only grows, which carries all of them over the
  other threads' steps.
- `CronGoesOn`: `Spec => []CronStaysScheduled`, inductive with the types.
- `RunningIsExecuting`: `Spec => []RunningIsInHand`.  `_lifecycle` is written by the main thread and
  the worker, and by the cron thread through `submit()`, so what it says of the running workflow rests on nobody else writing that entry.  `KeptInv`: the
  startup workflows not yet submitted are kept in seven places (the main loop, its hand,
  `_waiting`, what either thread has taken out of it, and what either is about to mark), no
  workflow in two of them, and none of them is queued or running.
- `SubmissionsAreAccounted`: `Spec => []EverySubmissionAccounted`.  `NumbersInv` says that sequence
  numbers in the queue and in a thread's call are all different and below the next one, so that
  an item that is put is a new one; then every step moves one submission from one of the finite
  sets to another, or adds one.
- `ChainsAreEarned`: `Spec => []ChainedRunsAreEarned`.  The inequality is not inductive: between
  the success of the predecessor and the submission it has to be strict.  `Earned` adds the
  missing term, `Owed`: one as long as the worker is on its way from that success to the workflow.
- the arithmetic of cron delays, for every `Day` in `Nat` and positive `Soon`: `NextRunIsWithinADay`
  (a daily workflow runs within a day, and not now), `DueTwiceOnlyIfEarly` (of two successive
  calls, with any reading of the wall clock in between: fired on time or late, the next due time is
  the first of its hours still to come, a day or more after the last; fired early, it is
  the same one again), `FiresInItsWindow`
  (never before the window begins, and at most `Soon` after it ends),
  `FiresAgainInTheSameWindow`, `WindowAcrossMidnight` (a window whose end is before its start is
  one second wide).  The lemma `Bounds` splits on where `now` lies: before, in or after the
  window.  Times are whole seconds; microseconds, the floor of 0.1 s and the polling of the
  scheduler once a second are not covered.

`VersionedStoreProofs`, for every `MaxEdits`, `MaxStops` and `MaxReseeds`: `StoreTypeCorrect`,
`StoreKeepsVersions`, `StoreKeepsOrder`, `StoreNamesArchives` and `StoreArchivesFixed`, all
from one inductive invariant `IInv`.  It adds to the properties what is true in the middle of
a write: what `current` and `new` are relative to the file, that before the file is truncated
its content is in the archive, and that the number of a new version is above all others.
The last is where the version arithmetic matters: without it an archive of the same name could
already exist and stand for another document.

`InnerLifeProofs`, for all topics, threads, times and `MaxThoughts`:

- `PipelineTypeCorrect`.  That counts stay within their bound needs that a fascination was developed
  no more often than there were thoughts.
- `PerspectivesAreSpaced`.  With the types of what `Pollinate` reads the property is inductive: the
  test for a duplicate looks at every perspective of the thread, and the new one is the last.
  The lemma on `Match` needs a least element of a set of positions, which comes from the
  well-foundedness of `<`.
- `InsightsAreTraced`: `Spec => []InsightsTrace`.  `TraceInv` adds what the passage under way has
  done so far: the threads it has pollinated have the perspective, and once it has signalled
  there is a signal for exactly these.
- `PushesAreSpaced`: `Spec => []PushesSpaced`.  The code compares with the last push only;
  `LastDecides` shows that this decides about all, because each push has its item, held a
  ceiling after every earlier one.  `PushInv` carries the test across the call of the model; what a
  stop leaves of the history is an initial segment of it (`Recorded`).
- `PromotionIsKept`: `Spec => PromotionStands`, an action property, from the types.

`SessionProofs`, for every finite set of turns, every set of topics and every `MaxEnds`
(`SessionAssumption`):

- `SessionTypeCorrect`, `NumbersAreUnique`.  `turnCount` is one shared counter; what makes it
  safe is that a turn takes its number before its first await.  The invariant `Numbered`
  says that `turnCount` is the cardinality of the turns that have a number and that these
  numbers differ; that the count stays within the number of turns follows by counting, with
  the theorems on finite sets.
- `FilesStayConsistent`, `RecordsAreWhole`.  `Fresh` says what the files cannot hold yet of the
  current attempt (an attempt's number is new, so leftovers are never mistaken for it),
  `Written` and `Compiled` what they do hold, step by step of the flush.  `RecordsAreWhole`
  needs that a note, once in a snapshot, is the only note of its turn: turns go on while the
  flush compiles.
- `SessionKeepsContract`: `Spec => Contract!Spec` under the refinement mapping of
  `Session`.  `Contract!Spec` states safety only.  The steps that matter are `TakeSnapshot`
  and the last step of the flush, where `SavedByAttempt` computes what the contract's `saved`
  becomes, and `ClearMemory`, where `asked` has to be among what was saved; all others leave
  the contract's variables alone (`SavedStays`).

`CommissionedInquiryProofs`, for every `MaxIterations` and `MaxRuns` (`BoundsAssumption`):
`ConfirmationHolds`, `FindingsAreKept`, `CompletionIsWhole`.  `Handshake` relates the
workflow's place in `cooperate()` to the three events; `Loop` says that the findings made are
those of the iterations so far and that each is stored under the current run; `Completion`
adds where the workflow may be once a record is completed.  A count of findings equals a number
of iterations by a bijection (`FindingsCount`).

`ActionServerProofs`, for every `Item`, every set of handlers and every `MaxRestarts`:
`SettledOnlyOnce`, `AnswersAreDurable`, `SettledForEver`, all from one inductive invariant.
Threads may be at any steps at once and a stop may come at every one.  `Apart` says that two
threads have only contested items in hand or to answer for; `Requested`, what an item in hand is
in the dictionary: as it was read before the update, and in the state to be told after it;
`Kept`, where an item that was answered for is in that state: always in memory, and while
saves do not overlap in the dump that is being written or, when none is, in the file; `OneSave`,
that such a save is the only one.
That a thread may dump before and write after another thread's update of another
item is what the dictionary, the dump and the file have to be kept apart for.

`InferenceCacheProofs`, for every set of callers and every `MaxCalls`: `SingletonClient`
(whoever tests, builds or returns the client holds the lock, `LockHeld`, although the shutdown
resets it under none) and `AloneIsClean`.  `AloneOwnsCache`: a call that is alone is the only
user of the entry, and the entry is `Clean`, that is it has the caller's pieces so far and, if the evict
worked, no others.  `AnswersAreOwn` says the same of the answer once it is generated, while
others use the entry again.

`ConversationTurnProofs`, for every finite or infinite set of turns, all items, threads, scenarios,
windows of corrections and parameters that satisfy the modules' assumptions:

- `ConversationTypeCorrect`.  `TypeInv` is `StoreTypes`, of what goes on between turns, and
  `TurnTypes`, of what a turn computes.  The recursive functions (`Power`, and the loop of
  `select_discharge_candidate`) are unfolded with one lemma, `Recursion`: a function
  that solves the equation on every initial segment solves it, shown with a least counterexample
  and not by the library's induction theorems.  A recency above 1, when a turn looks back
  over a negative number of turns, is where the type is in doubt: the salience is capped.
- `ForegroundIsLeading`: `Spec => []ForegroundLeads`.  `Ranked(stack)` is kept by `assign_states`
  of any list (`AssignedIsRanked`), and every step that writes the stack ends with it.
- `CorrectionsHelp`: `Spec => CorrectionHelps`, an action property.  A score is
  its base plus 15 for each correction in the window to that register, and minus 15 for each from
  it (`AdjustedScores`).  `CountRecent` counts what a window gains and loses when the log grows by
  one, and `MarginMoves` puts the two together.
- `ItemsAreShownOnce`: `Spec => []ShownOnce`.  `ShownInv`: only answered turns have shown an item
  (`AnsweredAfter`); an item that a turn has shown or is about to show is surfaced in the
  assistant's store, and by one turn only (`TakenOnce`); and what is settled is in the file, as
  long as no save has dropped it (`SurfacedIsSaved`), so that a restart does not forget it.
- `TheBestIsSelected`: what `SelectsTheBest` in `MCTurn` compares on lists of three items, for a list
  of any length: after each round the loop of `select_discharge_candidate` has found the first of
  the most relevant items so far that pass the gates (`Found`, `OneRound`).
- `ReferencesSave`: `ReferenceSaves => (Spec => ReferencedIsKept)`.  The recency that
  `update_salience` takes is that before the reference, so the thread has to have been in view a
  turn ago.  `StaysInv` says so: whatever was last touched before the last update was in view at
  it, with the depth it has now; `Comeback` is the arithmetic of one turn.  Threads touched by a
  later turn, which an overtaken turn meets, are in view whatever their depth
  (`TouchedIsInView`).
- `FloatingStays`: `FloorSaves => (Spec => FloatingKept)`.  Without any invariant but the types: the
  recency never falls below its floor (`RecencyBounds`), and rounded products are monotonic.

The two hypotheses are statements about the parameters alone; `DefaultsSave` shows that the
defaults satisfy them.

Only model-checked: the liveness properties (`ENABLED` and fairness are out of the proof
system's reach), and the merge of two lists of results against its reference definition
(`MergesTheBest`), which is made of folds and a sort.  The runs that expect a violation are
counterexamples and need no theorem.

## 6. What is not modelled

- Tool permissions (`sdk.py`): a context variable set around each run and a membership test.
  Distillation health check: comparisons of one record with thresholds.  Neither has an order
  of events that could break it.
- The operations of `ThreadStore` other than `add_perspective` (epistemic log, tensions,
  pickup and handoff notes, status): no code outside the tests calls them, so there is no
  order of calls to be faithful to.
- Pending artifacts of a turn, the text of prompts and answers, topics, and which turns are
  notable.  What writers put in the versioned documents, except fascinations and open
  questions (`InnerLife`).
- How relevance scores come about: an input of `Respond`.  Which vocabulary words a message
  has: an input of `BeginTurn`.
- The order in which `main` starts and stops its threads, as a whole.
- Prompts, parsing of answers, YAML and JSON formats, logging, token budgets, embeddings (best
  effort and read by nothing modelled).
- `inner_thought` and its filter: one model call each.
- `forced_surface`, `history()`, `GET /status/kv`, `list_*`: they read only.
- Time in the models of processes: when a cron event falls due, the 120 s that `main`
  waits for the session end, the timeouts of `join` and `get`.  A timeout appears as a step
  that may happen.
- Exceptions of the run logger and other callables in the worker's `finally` block, which
  would end the worker thread.
