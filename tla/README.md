# A verification development for shelldon

shelldon is a small AI pet: one resident core process, a hub on a Unix socket, a
broker that talks to language-model providers, a worker process forked for every
turn of conversation, and peripheral processes for the screen, the chat transports
and the plugins. This directory holds TLA+ models of its control logic, TLC
configurations that check them on small instances, and TLAPS proofs of most of their
safety invariants for every instance.

All paths below are relative to `src/shelldon/` of the repository.

## 1. Inventory

| Part | State it keeps | Operations | What is hard about it | What makes it correct |
|---|---|---|---|---|
| Turn loop (`core/runtime.py`) | the turn in flight (`_current_*`), its timer, its reap task, the core inbox | take a message, a Result or a tap; start, finish, time out, resume a turn; apply ops; record history | three asyncio tasks (consumer, fired timer, scheduler) interleave at every await; Results come late or never | one turn at a time, no leaked slot, history pairs the right words, every message is dealt with |
| Arbiter and fence (`core/arbiter.py`, `core/turn.py`) | slot, folded messages; open and closed turn ids | submit, complete, reset; open, close, accept | called from all three tasks | exactly one holder; a closed turn is never accepted |
| Fork-server (`worker/forkserver.py`) | the at-most-one-worker guard, the child | spawn, resume, reap | guard and slot are released in two places | a spawn never meets a guard still held |
| Worker (`worker/worker.py`) | conversation, round, deadline | ask, run tools, pause for approval, resume, give up, report | provider and owner may never answer; killed at any point | bounded, always exits, pairs every tool call with one result |
| Bus hub (`core/bus/server.py`, `frame.py`) | registry of one connection per actor | register, route, deliver, deregister | connections of successive workers overlap | a live worker is reachable; a dead one is forgotten |
| Broker and chain (`broker/`) | the Job in hand | serve, retry, fall back, reconnect | outlives the worker that asked | bounded calls per Job; answers reach who asked |
| Scheduler, budget, power (`core/scheduler.py`, `budget.py`, `power.py`, `dispatch.py`) | last run per job, spend ledger | tick, dispatch, admit, defer, skip | midnight, battery levels, busy slot, restarts | daily cap, cooldown, quiet nights, one dream per idle stretch |
| State and checkpoint (`core/state.py`) | mood, energy, last interaction, ledger; a dirty flag; a file | patch, checkpoint, restore | crash between patch and checkpoint | what a crash forgets is bounded |
| History (`core/history.py`) | messages, learnings, pending approvals and promotions, tool health | record, capture, resolve, park, take, prune, strike | rows outlive the process | an approval is consumed once; nothing expired executes |
| Self-coded tools (`core/selfcode.py`, `limits.py`) | staged, live and quarantined files | stage, gate, promote, discard, quarantine | files and rows are not changed together; same names recur | only gated and approved code goes live; nothing is littered |
| Memory and vault (`core/memory.py`, `vault.py`) | a tree of markdown files | curated rewrites, notes | path containment, size limits | one writer, atomic files |
| Mood (`core/faces.py`, `reflexes.py`, `reactions.py`, `proactive.py`) | faces, drift of mood and energy | reflex tick, nudge, pick a face | pushes that fail; cooldown of nudges | values stay in range; the screen shows the last mood |
| Display (`display/`) | last sequence number and one pending frame per region | intake, render | a slow panel and bursts of frames | newest frame wins and is drawn at last |
| Plugin host (`plugins/`) | region claims, sequence numbers, subscriptions | load, draw, emit, dispatch | plugins run concurrently | claims are exclusive; sequence numbers grow |
| Transports (`transport/`) | poll offset, chat id | inbound, outbound, approval buttons | acknowledged before handled | no message lost in silence |
| Timeouts and launcher (`timeouts.py`, `app.py`) | turn, reap and completion timeouts | supervise, restart | configured values, not-a-number | completion < reap < turn |
| Tools, prompt, contracts (`worker/tools.py`, `prompt.py`, `contracts/`) | none | build a prompt, run a tool, type a frame | sequential | plain functions |

How they interact: transports put messages and taps on the hub, which puts them in
`core_inbox`; the consumer of that queue starts turns by forking a worker; the worker
sends Jobs through the hub to the broker and gets Completions back; it ends with one
Result, which the hub puts in `core_inbox`; core answers through the hub to the
transport, pushes faces and captions to the display and events to the plugin host.
The scheduler is a task of the core that starts turns of its own. Core, hub and
fork-server share one event loop and process; everybody else is a process.

## 2. Modules

| Module | Models | Kind |
|---|---|---|
| `TurnPromise` | what the owner is promised about messages and turns | abstract specification |
| `TurnLoop` | core turn loop, arbiter, fence, fork-server guard, approvals, death and restart | implements `TurnPromise` |
| `TurnLoopProofs` | theorems about `TurnLoop`: the tasks, the slot and the guard; the history, the approvals and the refinement | TLAPS |
| `Exchange`, `MCExchange` | worker tool loop, hub routing, broker, provider chain | |
| `ExchangeProofs` | theorems about `Exchange` and `Timeouts` | TLAPS |
| `Soul`, `MCSoul` | curated files, learnings, dreams, and the ops of a Result one by one | |
| `SoulProofs` | theorems about `Soul` | TLAPS |
| `Telegram`, `MCTelegram` | the Telegram adapter, the server behind it and the core before it | |
| `TelegramProofs` | theorems about `Telegram` | TLAPS |
| `Timeouts` | the three timeouts of a turn as functions of one knob | |
| `Autonomy`, `MCAutonomy` | scheduler, dispatch, budget, power backoff, ledger and checkpoint | |
| `AutonomyProofs` | theorems about `Autonomy` | TLAPS |
| `SelfCode`, `MCSelfCode` | the life of a self-coded tool: files, rows, strikes | |
| `SelfCodeProofs` | theorems about `SelfCode` | TLAPS |
| `Mood` | what core puts on the screen: mood, nudges, the stages and the reaction of a turn | |
| `MoodProofs` | theorems about `Mood` | TLAPS |
| `Billboard` | what the panel promises to those who post frames | abstract specification |
| `Panel` | hub, plugin host, display service and panel, frame by frame | implements `Billboard` |
| `PanelProofs` | theorems about `Panel`, the refinement among them | TLAPS |

`TurnLoop` sees a worker as one step that writes a Result (or does not), which is
what `Exchange` expands; it sees a scheduler turn as one step `Dispatch`, which is
what `Autonomy` expands; it sees a proposal's gate as one await, which is what
`SelfCode` expands; it sees the ops of a Result as one, which is what `Soul` expands; and
it takes the messages in its inbox as given, which `Telegram` puts there. In turn `Exchange` lets workers come one after another,
`Autonomy` lets the slot be busy at any time, `SelfCode` handles one proposal or
tap at a time, and `Soul` lets one turn hold the slot while others are still alive: that is
what `TurnLoop` establishes.

`Mood` looks at the same turns as `TurnLoop` and keeps of them only what they push: its
`lastFace` and `lastCaption` are what core believes it has pushed last. Whether a push finds a
display, and how its frame gets on the panel, is `Panel`'s, which lets core push anything at
any time.

Names follow the code. Operators named after a slip (`ResetKeepsSlot`,
`PeekRow`, `DeregisterAny`, ...) are mutants: plausible bugs kept beside the
definition they would replace. Each property is known to fail when its mutant is
put in place. They are used by no specification.

### TurnLoop

The unit of interleaving is the code between two awaits of one task. `at[task]` says
in which await a task is suspended, and its locals:

| Control point | Awaited there |
|---|---|
| `start` | the pushes and the fork of `_start_turn` / `_start_resume_turn` |
| `deliver` | the reply, face and caption of `_handle_result`, or `_degrade` |
| `gate` | `_handle_propose_tool` |
| `reap` | `_await_reap` |
| `emit` | the publish of MESSAGE_ANSWERED, with the folded batch in a local |
| `note` | a reply to a tap that starts no turn |

`Admit`/`Coalesce` are `submit` on a free or taken slot; `TakeResult`/`DiscardResult`
are `_handle_result` on either side of the fence; `Fire` is the timer up to its first
await; `Spawn`/`SpawnFails` the tail of a start; `ReplyEnds`, `DegradeEnds`,
`GateEnds`, `DegradedTurnEnds`, `AnsweredTurnEnds`, `EmitEnds` the pieces of a finish;
`TapAnswered`/`TapResumes` the branches of `_handle_approval_decision`. The buttons go out
with the reply, so `offered` changes in `TakeResult`; the row is parked after that await
(`ReplyEnds`), or the park fails and leaves buttons without a row. A gate that passes parks its
row first and then offers it (`GateEnds`). `Dispatch` is
the await-free admission of a scheduler turn, `Reap` the end of `reap_current`;
`HubDelivers` the hub reading a Result, `Die` the death of the process with the
history database surviving. Turn ids are 1, 2, 3, ... for fresh UUIDs. `turns` and
`dropped` are history variables.

Abstractions. A timer may fire and the reaper may kill at any moment after it was
armed. Screen pushes are part of the await they sit in. A Result carries at most one
op that concerns approvals. Expiry of a row is a choice made at the tap. A database
call that raises out of `run()` is `Die`. Peers read what core sends them.

### Exchange

`pc` is the state of the worker of `turn`; `up[t]` is the byte stream of its
connection, which outlives it; `registered` is the hub's registry entry for WORKER;
`jobs`, `serving` and `answers` are the broker's side. Conversations are kept as the
calls asked and the calls answered, which is all that pairing, approval and resuming
depend on. The tool tier of each call is chosen by the provider from `Replies`. The
worker may give up at every wait and be killed anywhere.

A question travels `report` (the worker's Result), `Parks` (core asks and parks, or fails to),
`paused` (the row), `Tap` (yes, no, or a malformed frame, which is a no), `resuming` (what
core took from the row and hands to the fork), `resume` (the worker's `ResumeState`),
`Resolve`. `ResumeFails` is a refused fork or a death in between, `RowExpires` the hour. The
database may hold a row from before core was started, so already the first worker can be a
resumed one. `asked` and `approved` remember what the owner was asked and said; no guard reads
them.

The broker's connection may drop `MaxDrops` times. Each side has then received some prefix of
what was under way in its direction, and the rest is lost; the Job in hand is not.
`Audited` names the turns whose provider calls are counted.

### Autonomy

Time is counted in units in each of which the scheduler ticks. `due` holds the jobs a
tick has still to run, in the order of their registration (`Before`), so an owner's message,
a turn's end or a death can come between two of them. `ledger` and `interaction` are the RAM
copy, `disk` the checkpoint. `admitted` remembers each admission and whether its ledger entry
is in RAM, on disk or was lost; `spent` adds up their costs by day and by that place, from
which `Moves` carries them on. The power level of each tick is arbitrary (the real reader of the code is a
stub that always says "plugged in"; the policy behind it is checked for all three levels).

### SelfCode

A version is the number of its proposal, which is also its turn id. `module`/`test`
are the staged pair of a stem, `rows` the parked offers, `live` and `quarantined` the
other two directories, `loaded` what the running worker found at its fork. The prune
job may run while a gate is awaited; taps, proposals and failure reports may not,
because one consumer handles them. The verdict of a gate is arbitrary.

### Mood

One coordinate of mood stands for valence, arousal and energy, three faces for the
registry, and one step for a drift or a nudge. Three tasks push: the consumer (results and
nudges), the scheduler (the reflex job and the turns it starts) and a fired timer. `turn`
is how far the turn in flight has got, `driver` the task carrying it out, `owed[t]` the
caption that task `t` has still to push when it resumes. `ScreenIsFree` is the guard of
`_maybe_push_mood_face`; fence and arbiter are both idle exactly when `turn` is. A turn that
ends first sends its reply (`Answer`), then its face (`AnswerFace`), then its caption
(`AnswerCaption`), each an await of its own, and a send that raises skips what is left of them.
A mood push that raises in the scheduler drops its caption; in the consumer nothing catches it
and core ends, which `Mood` does not follow. A caption
that resumes late may replace that of a reaction (its socket was full for a whole turn);
the face may not, and the next reflex tick puts the caption right.

### Panel

`uplink` is the byte stream from the plugin host to the hub, `link` the one from the hub
to the display. `pending` holds one staged frame per region in the order of a Python
dictionary, `batch` what the render loop has taken, `zones` what the renderer composites.
A plugin draws from one task (a poll loop, or the host's read loop), so `writing[p]` is at
most one region. `posted` and `lost` are history variables; `lost` are regions
whose newest frame found no display. The launcher restarts neither the display nor the
plugin host, so neither does the model. The panel ignores `STATUS_BAR`, the region of
the XP widget, as the code does.

### Telegram

`sent` is what Telegram has for the bot and `confirmed` what it has forgotten, because a
poll with a higher offset came in. `link` says where `inbound` is: asking, between polls
(updates `next` to `top` in hand), or not running. `inbox` is the socket to the hub and
`core_inbox` together, `owes` what core took and has not answered, `down` the frames on
their way back. `Ask`, `PollAnswers`, `PollFails`, `HandleWanted`, `HandleIgnored` are the
steps of `inbound`; `Outbound` and `SendApproval` those of `_outbound_loop`, which stop the
typing indicator or leave it; `TransportStops` is EOF from the hub, `TransportDies` the end
of the adapter alone, `CoreDies` the end of core and hub, and `Restart` the service manager
starting everything again. A frame written to a dead hub vanishes or ends the adapter.
Core is abstract here: it takes messages in order, answers one or several folded ones,
drops them when a fork fails (`CoreDropsStart`), and speaks up by itself (`CoreMuses`).

### Soul

A conversation is what its prompt was built from: whose it is, which learnings it names,
whether a tap resumed it, and whether something has been written since it read that it has not
seen (`behind`). Several turns are alive: at most one holds the `slot`, while others, which the
timeout has given up, may still send a Result (`late`). `stage[t]` is the await turn `t` is at:
`starting` (the face, before the fork), `working`, `replying`, the ops of its Result
(`Applying`), `ending` (gate and reap), `wedged` (timed out, its reap awaited), `late`.
`fence` and `isOwner` are `TurnFence` and `_current_turn_is_owner`, set by `Begin` and read
after all the awaits of the turn.

The ops are applied one by one without an await between them: `RewriteFile`,
`CaptureLearning` (the UPSERT by `pattern_key`), `ResolveLearning` (any pending id, in any
turn), `ParkCall`, `ParkDirective`, `OpsEnd`. Of the ops that need a tap the first is parked
(`parkedNow`). Every write marks each conversation that has read what is written, whichever
state it is in: at work, given up, parked for a call, or parked as a proposal for the directive
(`Elsewhere`); so does a tap that writes DIRECTIVE.md (`TapDirective`), which reserves no slot.
An op that is rejected, fails or is over `MAX_PROPOSED_OPS` is one that is not taken. What the
model behind the provider writes or resolves is arbitrary.

### Timeouts

`_resolve_turn_timeout` and the constants of `timeouts.py`, with the write timeout of the
worker, over whatever the environment variable may hold: nothing, a text that is no number, a
finite float (a fraction `num`/`den`), an infinity, or nan, with the comparison of floats.

## 3. Runs

| Run | Checks | Bounds |
|---|---|---|
| `turns` | one holder of the slot, the fork-server's guard, folded messages; `EveryAskEnds` and the refinement `PromiseKept` under `FairSpec` | 2 messages, 1 scheduler turn, 1 death |
| `taps` | types, `ApprovalsResumeOnce`, `HistoryIsFaithful` | every kind of Result, buttons before or without their row, 2 messages, 2 taps, 1 death |
| `exchange` | types, reachability, pairing, approval, spend, matching answers | 2 workers, of which both may resume, 1 row from before the start, 1 tool round, 2 providers, 1 drop; the calls of turn 1 are counted |
| `stale` | `AnswersAreCorrelated`: violated | 2 workers, no tool round |
| `autonomy` | types, the cap, what a crash forgets, `Pacing` (cooldown, one dream per idle stretch, quiet nights) | 10 units over a midnight, 2 messages, 1 death, 1 failed checkpoint |
| `spend` | `RestartCannotOverspend`: violated | 8 units, 1 message, 1 death |
| `selfcode` | types, gating, ownership of files, quarantine, denial | 2 stems, 3 proposals, 4 reports, 2 crashes |
| `vetted` | `OnlyVettedGoLive`: violated | 2 stems, 2 proposals |
| `looks` | types, who owns the face, `MoodComesBack` under `FairSpec` | 2 turns, 1 drift, 2 events |
| `frames` | types, the newest frame, `PanelKept`, `PanelCatchesUp` under `FairSpec` | 3 pushes, 2 draws, 2 plugins, 4 regions; plugins claim any but the caption |
| `telegram` | types, acknowledgement, order, typing, reply target; `EveryMessageArrives` under `FairSpec` | 2 updates, 2 chats, 1 fault, 2 deaths, 1 musing |
| `soul` | types, lost updates, the directive | 2 turns alive, 3 captures, 1 key or none, dreams of 1 learning, 2 parked rows |

Why the bounds are enough for what is asked. `turns`: a turn in flight, one
message folded behind it and one folded behind the start of the catch-up turn is the
longest chain of roles, and a scheduler turn can be the first of the three; a death may
come anywhere in it. `taps`: two
taps are what it takes to resume twice, and a death between them is the interesting
place. `exchange`: stale answers and overlapping connections need two workers, and two that can
both resume are what it takes to run a call twice: the row from before the start gives the
first worker its call, and what it asks gives the second one its own. With
one tool round and two providers a turn may cost eight provider calls (`SpendBound`), retries
and fallbacks included; counting them for one turn is enough, since the code treats turns alike.
`autonomy`: the cap of 4 is one dream and one musing, the cooldown of 3 lets two turns
into one day and a third over midnight, and the quiet window crosses midnight.
`selfcode`: an old offer, a newer staged pair of the same name and one unrelated name.
`looks`: a turn folded into the next one, and two nudges of one kind, the second within
the cooldown of the first or after it. `frames`: three pushes put one frame of a region in
`link`, one in `pending` and one in `batch`; two draws are one per plugin, or two of one.
No plugin of `frames` may claim the caption: see section 5. `telegram`: of two updates one
can be in hand while the other is at the core, or both in one poll, and they come from one
chat or from two; one death loses what core had and a second the adapter started after it.
`soul`: one turn applies its ops while another's Result is late, which is what the fence and
the slot must keep apart; a third turn alive would be another late one. Three captures let
one learning recur past another, so that the order of the listing and the one it leaves out
change between two dreams. Of two parked rows the second can be written or tapped while the
first waits. The code's limit of 50 learnings is `Limit`; what matters is that more can be
pending. Ids of turns are interchangeable, and `TurnSymmetry` uses it; the run checks no
liveness.

`autonomy`, `selfcode`, `frames`, `telegram` and two violation runs do not check
deadlock: time, proposals, reports, frames and updates end with their bounds. In
`turns`, `taps`, `looks` and the `Exchange` runs deadlock is checked; `Rest` and `Done` are
the only places where the first two systems may stop, and the reflex job of `Mood` never does.
In `soul` the check is on and says nothing, since core may die in every state.

### Fairness

`TurnLoop!FairSpec` is weakly fair to each task of the event loop, to the timer, the
reap and the hub's handler. It rests on: asyncio runs what is ready; `sleep` ends; the
gate is bounded by its timeout and a kill; the reap is bounded by SIGKILL and gives up
on a zombie; sends end because the peers read their sockets. The last point is an
assumption: the code bounds no drain towards a transport or plugin host. Nothing is
asked of the owner, of the scheduler's policy, or of the worker, which may stay silent.

`Mood!FairSpec` is fair to the scheduler's reflex job, to a task that resumes, to the
steps of a turn (the timer ends it if nobody else does) and to the end of a dwell.
`Panel!FairSpec` is fair to the loops of the hub and of the display. Neither obliges the
display to start, a plugin to draw or a refresh to succeed: `PanelCatchesUp` excuses
a panel whose last refresh failed, which nothing in the code repeats, and a region whose
newest frame was dropped.

`Telegram!FairSpec` is weakly fair to the loops of the adapter, to the answer of a poll the
server has something for, to the consumer of core, and to the service manager's restart. It
asks nothing of the owner, and does not start an adapter that died alone, because nothing
in the code does: `EveryMessageArrives` makes that exception. A poll that fails is repeated
because `Ask` stays enabled.

`Soul` states no liveness. That a captured learning is reviewed in the end is true of neither
the code nor the model: whether a listed learning is resolved is up to the model behind the
provider, and others that recur for ever keep it out of every listing.

## 4. What is proved

Every theorem holds for all values of the constants that satisfy the module's assumption:
any number of messages, turns, taps, workers, updates, deaths and so on. Each follows from an
inductive invariant, which TLC checked on the small instances first; the proofs have one lemma per action and, under it, one
step per conjunct the action can disturb.

`TurnLoopProofs`: `TypeCorrect`, `SlotSafe` (`SlotHasOneHolder`), `SpawnSafe`
(`SpawnMeetsFreeGuard`), `PendingSafe` (`PendingIsAttended`), and `StashSafe` (`StashIsMine`,
which no run checks by itself): a task that finishes a turn and reads `_current_turn_id` and
its siblings after several awaits still finds them to be of that turn. None of these is inductive alone. The inductive invariant `IInv` adds what ties the
three tasks together: an open fence belongs to the turn in the stash and has a holder
(`OpenTurnIsStashed`, `OpenTurnIsHeld`); a task at `start` holds the open turn
(`StartIsOpen`); the fork-server guard is only set while the reap task is held by the
turn's holder (`GuardIsHeld`); and no Result carries the id of a turn that has not been
forked yet (`NoEarlyResult`). `StashIsMine` needs the slot's single holder to exclude a
second `Begin`; the single holder needs the fence to exclude a Result and a timer
finishing one turn twice; and that needs `NoEarlyResult`, since a Result accepted
during `start` would put two tasks in one turn.

On that invariant build two more. `HistorySafe` (`HistoryIsFaithful`) needs the
stash to be that of the latest turn (`StashIsLatest`), the open fence to name an unfinished
one (`OpenIsOpen`), the task that finishes a turn to know its fate (`FinisherKnowsFate`), and
every row to be due and its turn begun (`RowIsDue`, `RowsBegan`). `ResumeOnce`
(`ApprovalsResumeOnce`) cannot say that a parked row was offered or an offer parked, since
either may come first. What it needs is that only a turn that began was offered, and only what
was offered is tapped (`OfferedBegan`, `TapsAreOffered`), and that a turn whose ops may
still park a row has none yet and was not resumed, so that a row taken once does not come back
(`ParkedAtTheEnd`); deaths leave the database alone.

`TurnLoopKeepsPromise` (`PromiseKept`) is the refinement: `Spec => Promise!Spec`, under the
mapping that `TurnLoop` gives with `Promise`, for every number of messages, turns, taps and deaths. The abstract
specification hands out the oldest messages first; the code has no such notion, only three
places a message waits in. `LineInv` says that they form one line: the batch in the
consumer's hand exists only while it publishes and then nothing is folded
(`BatchIsPublished`), the inbox is in the order the messages were sent (`InboxInOrder`) and
whatever is in hand or folded is older than all of it (`FoldedFirst`). `OneUndecided` says
that no turn but the one behind the fence is undecided, so that a batch is thought about
exactly while the fence is open. With `IInv` (a task that starts or ends a turn is alone, so
the consumer's hand is empty) every step of a task maps to `Begin`, `Settle`, `Abandon`,
`Die` or `Ask`, or stutters.

`ExchangeProofs`: `TypeCorrect` and `PairedSafe` (`CallsArePaired`) hold together, since a
resumed worker reads the last call of its conversation: the invariant `CallInv` says that a
conversation has a result for every call when its worker asks or waits, and for all but the
last when it is on its way to core, parked or about to be resolved. `ReachSafe`
(`ReachableWhileWaiting`) holds because a live worker is always the registered one
(`Registered`). `MatchSafe` (`AnswersMatchUntilAGiveUp`): as long as nobody has given up, at
most one Job or answer is under way, and none unless its worker waits (`OneAfoot`, `Quiet`).
`SpendSafe` (`SpendIsBounded`): the Jobs of a turn are served in the order of their rounds
(`InOrder`), and whatever is spent before a Job of round r is taken is at most the price of
r Jobs (`AllCovered`, `TurnsCovered`), so a retry or fallback of a stale Job is charged to
its own round.

`SelfCodeProofs`: `TypeCorrect`, `VettedLive` (`LiveWasGated`), `FilesOwned`
(`StagedFilesAreOwned`), `DeniedSafe` (the action property `DeniedStaysOut`). `IInv` says that
a staged file is of a proposal of its own stem (`FilesAreOfTheirStem`), that an offer belongs
to a proposal whose gate is over (`RowsAreOfTheirTurn`), that a staged module has passed its
gate, is in it, or was cut short by a crash (`StagedIsVetted`), and that no denied version is
staged. `QuarantineSafe` (`QuarantineIsEarned`) rests on `HealthInv`: what is live, or was when
the worker was forked, was proposed under the stem it is live under (`ToolsAreOfTheirStem`), so a
failure is reported under the name that failed; only proposed versions have failed, none more
often than was reported (`FailuresAreReported`); then the strikes of a stem are exactly the
failures of the versions proposed under it (`StrikesAreFailures`), however old the worker that
reports them, and a quarantined stem has its strikes (`QuarantineHasStrikes`).

`MoodProofs`: `TypeCorrect` and `FaceIsTheTurns` (`TurnOwnsTheFace`): from a turn's start until
its reply is sent, the face is the turn's. Types and property are inductive together: a mood push is only
suspended in a task that carries no turn, so the caption it owes is no step of a turn.

`TelegramProofs`: `TypeCorrect`, `NoneSkipped` (`NothingIsSkipped`), `MetInOrder`
(`OnceAndInOrder`), `TargetKept` (`TargetSurvives`), `TypingHonest` (`TypingMeansWorking`). The
strengthening ties the batch in hand to the frontier of what the server can still hand out
(`BatchAtFrontier`, `FrontierIsNew`), the offset to what was handled (`OffsetIsSeen`), the
chat in RAM to the file (`FileIsCurrent`), and empties what a dead core held (`DeadCoreIsEmpty`).

`SoulProofs`: `TypeCorrect`, `DirectiveSafe` (`DirectiveIsTheOwners`), `StaleSafe`
(`OnlyTheParkedAreStale`). Both rest on the slot: whoever is between its start and its reap
holds it (`SlotIsHeld`), and only one turn is there (`OneHolds`). So no other turn begins and
sets the flag, and the one read at the end of a turn is the one set at its start
(`FlagIsTheTurns`); and nobody but the turn itself writes while it may still apply ops, for a
tap finds the slot taken (`ActiveIsFresh`). `RowsAreCaptures` bounds counts and ids.

`AutonomyProofs`: `TypeCorrect`, `PacingSafe` (`Pacing`), `CapSafe` (`CapHoldsForKeptTurns`),
`ForgetSafe` (`CrashForgetsOneTurn`), each on the invariant before it. No stamp is ahead of the
clock and no tick has jobs left that did not begin (`ClockInv`). What made a job due still holds
when the tick comes to it (`DueInv`), which is not obvious, since the owner may speak in
between; the latest turn is the one the ledger has stamped (`LatestIsStamped`); and what is
only in RAM is the latest of the history (`RamIsLatest`), so that a crash takes away the end of
it and never a stamp whose successors stay. For the cap, both ledgers cover what was spent on
their day and nothing was spent after it (`Covered`): a count that a restart brings back from
the file is too low only by what was lost. That a crash forgets one turn uses
`FlushBeatsCooldown`: a tick that has taken its checkpoint job had one tried within the last
cooldown (`CheckpointInv`), so when a turn is admitted every earlier one has had its checkpoint
(`AllTried`), and only failed ones leave more than one behind (`ForgetInv`).

`PanelProofs`: `TypeCorrect` for every set of claims. `NewestSafe` (`NewestIsOnItsWay`) and
`PanelImplementsBillboard` (`PanelKept`, step by step) assume that no plugin may claim the
caption: nothing in the code refuses it (section 5), and then two writers' sequence numbers meet
in one region and both are false. The invariant follows a frame: each region has one writer
(`ClaimsHold`), whose numbers are ahead of those it has used (`CoreSeqs`, `WidgetSeqs`: a plugin
frame is numbered before it is sent and counted after); the two byte streams hold rising numbers
above all that left them (`UplinkIsAhead`, `LinkIsAhead`); and a slot holds the latest frame
taken in, a batch nothing newer, the renderer nothing newer than its batch (`SlotsHoldLatest`).

`ExchangeProofs` also has `RiskySafe` (`RiskyRunsOnceApproved`), of two halves. A call is known
by the Job it answers, turn and round. That key is handed on from place to place (the worker's
stream, the broker's queue, the Job in hand, the answers, the mail, the report, a parked row, a
taken row, a resumed worker, the calls that ran) and the invariant `HandInv` says it is
never in two of them, nor twice in one (`OnePlace`, `SeqsDistinct`, `UpDistinct`,
`PausedDistinct`); a key that turns up is of a round nobody asked in before (`AllBegun`).
Nothing in the code checks for it: no place compares ids, and an answer may reach another worker
than the one that asked. `ConsentInv` follows the owner's answer: a parked row was asked about
under its own turn (`RowsWereAsked`), and the flag taken with it, handed to the fork and read by
the worker is a yes to that question (`ResumingConsent`, `ResumeConsent`, `RanConsent`).

`ChainIsCoherent` of `Timeouts`: write timeout < completion < reap < turn exactly for those
contents of the environment variable that are neither nan nor inf.

Only model-checked is liveness: `EveryAskEnds`, `MoodComesBack`, `PanelCatchesUp` and
`EveryMessageArrives` rest on fairness, which is out of the prover's reach. Every invariant and action property of a passing run, and both refinements,
are proved.

## 5. Where code and comments disagree

1. `stale`: `broker/service.py:60` says the echoed `turn_id` lets the worker correlate
   answers. The worker does not look at it, and a stale answer can become its own.
2. `spend`: `core/state.py:42-44` says a restart cannot overspend the daily cap. A crash
   before the next checkpoint can. `CrashForgetsOneTurn` bounds the damage to one turn
   per crash, given that a checkpoint comes round within a cooldown
   (`FlushBeatsCooldown`: 6 x 60 s against 30 minutes by default; nothing enforces it).
3. `vetted`: `core/selfcode.py:4-8` says only a passed and approved tool is promoted.
   Promotion is by name: a newer proposal of the same name goes live on the approval of
   the older one.

Seen while modelling, and shown by no run:

- `core/runtime.py:330` calls `_last_face` the face on screen. It is set (834) whether or not a
  display is there to get the frame (`bus/server.py:159-162`), and the launcher starts the
  display after core (`app.py:185-193`): a face dropped at boot is not sent until it changes.
- `validate_claims` refuses the face only, although `contracts/__init__.py:54-56` makes core
  the sole writer of the caption too: a plugin may claim it, and then two sequences of numbers
  compete for one region. `frames` therefore gives no plugin the caption.
- The comment at `core/runtime.py:742-747` says the slot is free when MESSAGE_ANSWERED is
  published; with messages folded behind the turn it is reserved again (`EmitEnds`).
- `transport/telegram.py:120-121` says an update is never fetched again. The offset lives in
  RAM, and after a death the last ones are, if no later poll confirmed them.
- A failed write of the chat file (`transport/telegram.py:106-117`) is not repeated while the
  chat stays the same, and `write_text` truncates the file first. `TargetSurvives` excepts it.
- A start whose fork fails says nothing to the owner, and the chat goes on showing "typing"
  until the next reply (`silent` in `Telegram`).
- Nothing restarts an adapter that dies while core lives (`app.py:196-204`).
- A conversation that was parked and resumed goes on with the prompt it had: its ops may
  overwrite files, and resolve recurrences, that it has never seen. Two parked proposals for
  DIRECTIVE.md may overwrite each other unseen in the same way, the later tap winning. Every
  other turn has seen what it overwrites (`OnlyTheParkedAreStale`).
- `worker/prompt.py:211-216`: one unreadable DIRECTIVE.md hides about, summary and knowledge
  from the prompt; an unreadable USER.md brings onboarding back (205-210).
- The buttons of an approval are sent before its row is parked, and stay when the parking op
  fails; a tap on them is answered as expired (`TakeResult`, `ReplyEnds`).
- Persona edits made before a completion that fails are dropped (`worker/worker.py:286-311`).
- `worker/worker.py:152-156` promises room for the Result's write; a reply that comes within
  the write timeout of the reap can still be cut off in the middle.
- `float()` accepts nan and inf, which no comparison of `timeouts.py` catches: then no timeout
  is before another (`ChainIsCoherent`).

## 6. Not modelled, and why

- Provider adapters: translations between formats, without state of their own.
- The bodies of file, web and note tools, and the text of the prompt: sequential functions.
  Path containment, size limits and markers of `core/memory.py` are in the same class.
- Drivers of the panel and the renderer: pure I/O; `Panel` has a refresh that fails.
- Contracts: type definitions, without behaviour.
- The registry of faces. `add_face` rebuilds the table of `faces.toml` from the copy in RAM, so
  an owner's edit since the start is lost with the next added face; and once the catch-all face
  has been replaced by one with another token, the next added face goes behind it, though
  `core/faces.py:62` says that it must stay last.
- The launcher's reading of the environment and its in-process mode for tests.
- The CLI transport, a loop over standard input; `TurnLoop` takes its messages as it takes any.
- Fan-out of events to plugins and the XP widget's file.
- Sockets with full buffers. The code awaits every drain without a bound, towards peers that
  may be awaiting a drain of their own; the models let every send end.
- A clock that jumps back: the daily cap then means nothing, and interval jobs stand still.
- Several parking ops in one Result of `TurnLoop` (`Soul` has them one by one): a risky call
  and a promotion under one turn id are decided by one tap.
