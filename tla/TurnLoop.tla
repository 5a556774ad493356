------------------------------- MODULE TurnLoop -------------------------------
(***************************************************************************)
(* The turn lifecycle of the core (core/runtime.py) with the arbiter, the  *)
(* turn fence and the fork-server guard it drives, at the granularity of   *)
(* the await points of its three tasks:                                    *)
(*   consumer  - run(): takes one envelope of core_inbox at a time         *)
(*   watch     - a fired _timeout_watch                                    *)
(*   scheduler - _scheduler_loop inside dispatch_turn_job                  *)
(* Code between two awaits of one task is one action.  Consecutive awaits  *)
(* with nothing but screen pushes between them are one control point.      *)
(* Durations are abstracted: a timer may fire, and the reaper may kill, at *)
(* any moment after it was armed.                                          *)
(***************************************************************************)
EXTENDS Naturals, Sequences

CONSTANTS
  MaxAsks,    \* messages the owner sends
  MaxAutos,   \* turns the scheduler gets past its budget
  MaxTaps,    \* Approve/Deny taps of the owner
  MaxDeaths,  \* times the core process dies and is started again
  Answers     \* the kinds of Result a worker may come back with

ASSUME BoundsAssumption ==
  /\ MaxAsks \in Nat /\ MaxAutos \in Nat /\ MaxTaps \in Nat /\ MaxDeaths \in Nat
  /\ Answers \subseteq {"plain", "call", "directive", "tool", "fail"}

VARIABLES
  inbox,      \* bus.core_inbox
  slot,       \* arbiter.worker_in_flight
  pending,    \* arbiter._pending
  fence,      \* fence.current, 0 for None
  closed,     \* fence._closed
  cur,        \* _current_turn_id, _current_turn_is_owner, _current_prompt
  armed,      \* the turn of _timeout_task while it sleeps, 0 for None
  reapTask,   \* _reap_task is not None
  guard,      \* ForkServer.worker_in_flight; its reap task runs while it is set
  child,      \* the turn of the forked worker while it runs, 0 for none
  wire,       \* Results written by a worker, not yet read by the hub
  at,         \* per task: the await it is suspended in and its locals
  parked,     \* pending_approvals and pending_promotions rows, by turn
  offered,    \* turns whose reply carries Approve/Deny buttons
  rows,       \* the history table, in insertion order
  turns,      \* every turn so far and what became of it (history variable)
  dropped,    \* asks discarded by a reset or a death (history variable)
  sent, autos, taps, deaths   \* how much of the environment's bounds is used

arbiterVars == <<slot, pending>>
fenceVars   == <<fence, closed>>
forkVars    == <<reapTask, guard, child, wire>>
storeVars   == <<parked, offered, rows>>
boundVars   == <<sent, autos, taps, deaths>>
vars == <<inbox, arbiterVars, fenceVars, cur, armed, forkVars, at, storeVars, turns,
          dropped, boundVars>>

-------------------------------------------------------------------------------
(* Types *)

Tasks    == {"consumer", "watch", "scheduler"}
Controls == {"idle", "start", "deliver", "gate", "reap", "emit", "note"}
Kinds    == {"owner", "auto", "resume"}
Results  == {"plain", "call", "directive", "tool", "fail"}
Parkable == {"call", "directive", "tool"}
Fates    == {"open", "answered", "degraded", "unspawned", "died"}

AsksOf(seq) == {seq[i] : i \in DOMAIN seq}

\* Turn ids are fresh: uuid4 in the code, 1, 2, 3, ... here; 0 stands for None.
TurnIds  == 1..Len(turns)

Envelope ==
  [kind : {"ask", "tap"}, id : Nat, res : {"none"}]
  \cup [kind : {"result"}, id : Nat, res : Results]
TaskState  == [pc : Controls, turn : Nat, res : Results, batch : Seq(Nat)]
Stash      == [id : Nat, kind : Kinds, asks : Seq(Nat)]
HistoryRow == [turn : Nat, kind : Kinds, asks : Seq(Nat), pet : {"reply", "degrade"}]
Turn       == [kind : Kinds, asks : Seq(Nat), of : Nat, fate : Fates]

TypeOK ==
  /\ inbox \in Seq(Envelope)
  /\ slot \in BOOLEAN /\ pending \in Seq(Nat)
  /\ fence \in Nat /\ closed \subseteq Nat
  /\ cur \in Stash
  /\ armed \in Nat
  /\ reapTask \in BOOLEAN /\ guard \in BOOLEAN
  /\ child \in Nat
  /\ wire \subseteq [id : Nat, res : Results]
  /\ at \in [Tasks -> TaskState]
  /\ parked \subseteq [id : Nat, what : Parkable]
  /\ offered \subseteq Nat
  /\ rows \in Seq(HistoryRow)
  /\ turns \in Seq(Turn)
  /\ dropped \subseteq Nat
  /\ sent \in Nat /\ autos \in Nat /\ taps \in Nat /\ deaths \in Nat

-------------------------------------------------------------------------------
(* Arbiter, fence and fork-server: the pieces the tasks call *)

\* Mutants, each a slip the real method could hide; a "pass" run must notice it.
CompleteKeepsPending == slot' = (pending # <<>>) /\ UNCHANGED pending

\* Arbiter.complete: either one catch-up turn inherits the slot or it is free.
Complete == slot' = (pending # <<>>) /\ pending' = <<>>

ResetKeepsSlot    == UNCHANGED slot /\ pending' = <<>> /\ UNCHANGED dropped
ResetKeepsPending == slot' = FALSE /\ UNCHANGED <<pending, dropped>>

\* Arbiter.reset, with the messages it throws away kept on record.
Reset ==
  /\ slot' = FALSE
  /\ pending' = <<>>
  /\ dropped' = dropped \cup AsksOf(pending)

\* TurnFence.open closes a turn it finds open.
FenceOpen(t) == fence' = t /\ closed' = closed \cup ({fence} \ {0, t})

\* TurnFence.close ends the current turn only if it is the one named.  The code
\* remembers the last 256 closed ids; ids are fresh, so forgetting is invisible.
FenceClose(t) == fence' = (IF fence = t THEN 0 ELSE fence) /\ closed' = closed \cup {t}

AcceptsAnyId(t) == t # 0 /\ fence # 0

\* TurnFence.accept
Accepts(t) == t # 0 /\ t = fence /\ t \notin closed

ReapNotAwaited == TRUE

\* _await_reap returns once the reap task it holds is over.
ReapIsOver == reapTask => ~guard

AsksApprovalOfAny(res) == res # "fail"

\* What a turn's Result leaves for a later Approve/Deny tap.  A directive change
\* proposed while the owner is away is dropped.
AsksApproval(res) == res = "call" \/ (res = "directive" /\ cur.kind # "auto")

Goto(task, control) == at' = [at EXCEPT ![task].pc = control]

Resting == [pc |-> "idle", turn |-> 0, res |-> "fail", batch |-> <<>>]

NoStash == [id |-> 0, kind |-> "auto", asks |-> <<>>]

Leave(task) == at' = [at EXCEPT ![task] = Resting]

Mark(t, fate) == turns' = [turns EXCEPT ![t].fate = fate]

\* The synchronous head of _start_turn and _start_resume_turn: stash the turn,
\* open the fence, suspend in the push of the "thinking" face.
Begin(task, kind, asks, of) ==
  LET t == Len(turns) + 1
  IN  /\ turns' = Append(turns, [kind |-> kind, asks |-> asks, of |-> of, fate |-> "open"])
      /\ cur' = [id |-> t, kind |-> kind, asks |-> asks]
      /\ FenceOpen(t)
      /\ at' = [at EXCEPT ![task] = [pc |-> "start", turn |-> t, res |-> "fail", batch |-> <<>>]]

NoTurnBegins == UNCHANGED <<turns, cur, fenceVars>>

-------------------------------------------------------------------------------
(* The tail of _start_turn, for whichever task is in it *)

\* The fork worked: one worker, its reap task and its timer come up together.
Spawn(task) ==
  /\ at[task].pc = "start" /\ ~guard
  /\ guard' = TRUE
  /\ child' = at[task].turn
  /\ reapTask' = TRUE
  /\ armed' = at[task].turn
  /\ Leave(task)
  /\ NoTurnBegins
  /\ UNCHANGED <<inbox, arbiterVars, wire, storeVars, dropped, boundVars>>

\* The fork was refused, by the kernel or by a guard still held.
SpawnFails(task) ==
  /\ at[task].pc = "start"
  /\ FenceClose(at[task].turn)
  /\ Reset
  /\ Mark(at[task].turn, "unspawned")
  /\ Leave(task)
  /\ UNCHANGED <<inbox, cur, armed, forkVars, storeVars, boundVars>>

-------------------------------------------------------------------------------
(* The consumer takes an envelope *)

Take(kind) ==
  /\ at["consumer"].pc = "idle"
  /\ inbox # <<>> /\ Head(inbox).kind = kind
  /\ inbox' = Tail(inbox)

AdmitUnchecked ==
  /\ Take("ask")
  /\ slot' = TRUE
  /\ Begin("consumer", "owner", <<Head(inbox).id>>, 0)
  /\ UNCHANGED <<pending, armed, forkVars, storeVars, dropped, boundVars>>

\* submit on a free slot starts a turn ...
Admit ==
  /\ Take("ask") /\ ~slot
  /\ slot' = TRUE
  /\ Begin("consumer", "owner", <<Head(inbox).id>>, 0)
  /\ UNCHANGED <<pending, armed, forkVars, storeVars, dropped, boundVars>>

\* ... on a reserved one it folds the message behind it.
Coalesce ==
  /\ Take("ask") /\ slot
  /\ pending' = Append(pending, Head(inbox).id)
  /\ NoTurnBegins
  /\ UNCHANGED <<slot, armed, forkVars, at, storeVars, dropped, boundVars>>

\* _handle_result up to its first await: the timer and the fence go first, then the
\* reply is sent, with buttons when it needs a tap, unless the send fails.
TakeResult ==
  /\ Take("result")
  /\ LET env == Head(inbox)
     IN  /\ Accepts(env.id)
         /\ armed' = 0
         /\ FenceClose(env.id)
         /\ Mark(env.id, IF env.res = "fail" THEN "degraded" ELSE "answered")
         /\ at' = [at EXCEPT !["consumer"] =
              [pc |-> "deliver", turn |-> env.id, res |-> env.res, batch |-> <<>>]]
         /\ \/ AsksApproval(env.res) /\ offered' = offered \cup {env.id}
            \/ UNCHANGED offered
  /\ UNCHANGED <<arbiterVars, cur, forkVars, parked, rows, dropped, boundVars>>

DiscardResult ==
  /\ Take("result")
  /\ ~Accepts(Head(inbox).id)
  /\ NoTurnBegins
  /\ UNCHANGED <<arbiterVars, armed, forkVars, at, storeVars, dropped, boundVars>>

Row(t, what) == [id |-> t, what |-> what]

PeekRow(t, table) == UNCHANGED parked

\* take_promotion and take_approval read a table's row for t and delete it at once.
TakeRow(t, table) == parked' = {row \in parked : ~(row.id = t /\ row.what \in table)}

Promotions == {"tool"}
Approvals  == {"call", "directive"}

\* _handle_approval_decision, the branches that only answer: a tool promotion
\* (decided before the slot is looked at), a busy slot, a row that is missing,
\* expired or corrupt, a directive change applied in core.
TapAnswered ==
  /\ Take("tap")
  /\ LET t == Head(inbox).id
     IN  \/ Row(t, "tool") \in parked /\ TakeRow(t, Promotions)
         \/ Row(t, "tool") \notin parked /\ slot /\ UNCHANGED parked
         \/ Row(t, "tool") \notin parked /\ ~slot /\ TakeRow(t, Approvals)
  /\ Goto("consumer", "note")
  /\ NoTurnBegins
  /\ UNCHANGED <<arbiterVars, armed, forkVars, offered, rows, dropped, boundVars>>

\* The branch that starts a turn: a live parked call, and the slot free.
TapResumes ==
  /\ Take("tap") /\ ~slot
  /\ slot' = TRUE
  /\ LET t == Head(inbox).id
     IN  /\ Row(t, "tool") \notin parked
         /\ Row(t, "call") \in parked
         /\ TakeRow(t, Approvals)
         /\ Begin("consumer", "resume", <<>>, t)
  /\ UNCHANGED <<pending, armed, forkVars, offered, rows, dropped, boundVars>>

NoteSent ==
  /\ at["consumer"].pc = "note"
  /\ Leave("consumer")
  /\ NoTurnBegins
  /\ UNCHANGED <<inbox, arbiterVars, armed, forkVars, storeVars, dropped, boundVars>>

-------------------------------------------------------------------------------
(* A turn is finished, by the consumer on a Result or by a fired watch *)

\* The fence is closed before the first await, so the turn now belongs to the
\* watch: its Result will be discarded.
Fire ==
  /\ armed # 0 /\ fence = armed
  /\ FenceClose(armed)
  /\ armed' = 0
  /\ Mark(armed, "degraded")
  /\ at' = [at EXCEPT !["watch"] =
       [pc |-> "deliver", turn |-> armed, res |-> "fail", batch |-> <<>>]]
  /\ UNCHANGED <<inbox, arbiterVars, cur, forkVars, storeVars, dropped, boundVars>>

\* _record_turn pairs the pet's words with the stash as it is now.
Record(pet) ==
  rows' = Append(rows, [turn |-> cur.id, kind |-> cur.kind, asks |-> cur.asks, pet |-> pet])

\* _degrade is over.  When one of its sends or the insert itself raised, the turn
\* goes on without its row.
DegradeEnds(task) ==
  /\ at[task].pc = "deliver" /\ at[task].res = "fail"
  /\ Record("degrade") \/ UNCHANGED rows
  /\ Goto(task, "reap")
  /\ NoTurnBegins
  /\ UNCHANGED <<inbox, arbiterVars, armed, forkVars, parked, offered, dropped, boundVars>>

\* The reply, face and caption are out (or raised: guarded).  _apply_proposed_ops
\* and _record_turn follow without an await, each free to fail on its own: buttons
\* whose row was not written stay in the chat.  A Result carries at most one op of
\* interest here.
ReplyEnds ==
  /\ at["consumer"].pc = "deliver" /\ at["consumer"].res # "fail"
  /\ LET res == at["consumer"].res
     IN  /\ \/ UNCHANGED parked
            \/ AsksApproval(res) /\ parked' = parked \cup {Row(cur.id, res)}
         /\ Goto("consumer", IF res = "tool" THEN "gate" ELSE "reap")
  /\ Record("reply") \/ UNCHANGED rows
  /\ NoTurnBegins
  /\ UNCHANGED <<inbox, arbiterVars, armed, forkVars, offered, dropped, boundVars>>

\* _handle_propose_tool: the gate subprocess and, its row parked, the note that asks.
GateEnds ==
  /\ at["consumer"].pc = "gate"
  /\ \/ /\ parked' = parked \cup {Row(at["consumer"].turn, "tool")}
        /\ offered' \in {offered, offered \cup {at["consumer"].turn}}
     \/ UNCHANGED <<parked, offered>>
  /\ Goto("consumer", "reap")
  /\ NoTurnBegins
  /\ UNCHANGED <<inbox, arbiterVars, armed, forkVars, rows, dropped, boundVars>>

\* The reap is over and the arbiter slot goes to the catch-up turn, or is freed.
\* A failed or timed-out turn starts the catch-up turn at once ...
DegradedTurnEnds(task) ==
  /\ at[task].pc = "reap" /\ at[task].res = "fail" /\ ReapIsOver
  /\ reapTask' = FALSE
  /\ Complete
  /\ IF pending = <<>>
     THEN Leave(task) /\ NoTurnBegins
     ELSE Begin(task, "owner", pending, 0)
  /\ UNCHANGED <<inbox, armed, guard, child, wire, storeVars, dropped, boundVars>>

\* ... an answered one publishes its event first, with the folded batch in hand.
AnsweredTurnEnds ==
  /\ at["consumer"].pc = "reap" /\ at["consumer"].res # "fail" /\ ReapIsOver
  /\ reapTask' = FALSE
  /\ Complete
  /\ at' = [at EXCEPT !["consumer"].pc = "emit", !["consumer"].batch = pending]
  /\ NoTurnBegins
  /\ UNCHANGED <<inbox, armed, guard, child, wire, storeVars, dropped, boundVars>>

EmitEnds ==
  /\ at["consumer"].pc = "emit"
  /\ IF at["consumer"].batch = <<>>
     THEN Leave("consumer") /\ NoTurnBegins
     ELSE Begin("consumer", "owner", at["consumer"].batch, 0)
  /\ UNCHANGED <<inbox, arbiterVars, armed, forkVars, storeVars, dropped, boundVars>>

-------------------------------------------------------------------------------
(* The scheduler, the worker and the owner *)

\* dispatch_turn_job admits a job: idle check, budget and submit have no await
\* between them.  A job deferred or skipped changes nothing here.
Dispatch ==
  /\ at["scheduler"].pc = "idle" /\ ~slot
  /\ autos < MaxAutos /\ autos' = autos + 1
  /\ slot' = TRUE
  /\ Begin("scheduler", "auto", <<>>, 0)
  /\ UNCHANGED <<inbox, pending, armed, forkVars, storeVars, dropped, sent, taps, deaths>>

\* The worker writes its one Result and exits.
WorkerAnswers ==
  /\ child # 0
  /\ \E res \in Answers : wire' = wire \cup {[id |-> child, res |-> res]}
  /\ child' = 0
  /\ NoTurnBegins
  /\ UNCHANGED <<inbox, arbiterVars, armed, reapTask, guard, at, storeVars, dropped, boundVars>>

\* The hub's handler of that connection gets round to the frame.
HubDelivers ==
  /\ \E r \in wire :
       /\ wire' = wire \ {r}
       /\ inbox' = Append(inbox, [kind |-> "result", id |-> r.id, res |-> r.res])
  /\ NoTurnBegins
  /\ UNCHANGED <<arbiterVars, armed, reapTask, guard, child, at, storeVars, dropped, boundVars>>

\* reap_current ends: the worker has exited, silently perhaps, or is killed.
Reap ==
  /\ guard
  /\ guard' = FALSE
  /\ child' = 0
  /\ NoTurnBegins
  /\ UNCHANGED <<inbox, arbiterVars, armed, reapTask, wire, at, storeVars, dropped, boundVars>>

OwnerAsks ==
  /\ sent < MaxAsks /\ sent' = sent + 1
  /\ inbox' = Append(inbox, [kind |-> "ask", id |-> sent + 1, res |-> "none"])
  /\ NoTurnBegins
  /\ UNCHANGED <<arbiterVars, armed, forkVars, at, storeVars, dropped, autos, taps, deaths>>

OwnerTaps ==
  /\ taps < MaxTaps /\ taps' = taps + 1
  /\ \E t \in offered : inbox' = Append(inbox, [kind |-> "tap", id |-> t, res |-> "none"])
  /\ NoTurnBegins
  /\ UNCHANGED <<arbiterVars, armed, forkVars, at, storeVars, dropped, sent, autos, deaths>>

\* Asks not yet part of a turn: queued, folded behind one, or about to start one.
Waiting ==
  {inbox[i].id : i \in {j \in DOMAIN inbox : inbox[j].kind = "ask"}}
  \cup AsksOf(pending) \cup AsksOf(at["consumer"].batch)

\* The process dies (power, a kill, an exception that leaves run()) and is started
\* again: whatever is in memory is gone, worker and sockets included; the history
\* database keeps its rows, the owner's chat keeps its buttons.
Die ==
  /\ deaths < MaxDeaths /\ deaths' = deaths + 1
  /\ inbox' = <<>>
  /\ slot' = FALSE /\ pending' = <<>>
  /\ fence' = 0 /\ closed' = {}
  /\ cur' = NoStash
  /\ armed' = 0
  /\ reapTask' = FALSE /\ guard' = FALSE /\ child' = 0 /\ wire' = {}
  /\ at' = [task \in Tasks |-> Resting]
  /\ turns' = [t \in TurnIds |->
       IF turns[t].fate = "open" THEN [turns[t] EXCEPT !.fate = "died"] ELSE turns[t]]
  /\ dropped' = dropped \cup Waiting
  /\ UNCHANGED <<storeVars, sent, autos, taps>>

\* The pet at rest with nothing left to come within the bounds.
Rest ==
  /\ inbox = <<>> /\ wire = {} /\ ~slot /\ ~guard
  /\ \A task \in Tasks : at[task] = Resting
  /\ UNCHANGED vars

-------------------------------------------------------------------------------

Init ==
  /\ inbox = <<>>
  /\ slot = FALSE /\ pending = <<>>
  /\ fence = 0 /\ closed = {}
  /\ cur = NoStash
  /\ armed = 0
  /\ reapTask = FALSE /\ guard = FALSE /\ child = 0 /\ wire = {}
  /\ at = [task \in Tasks |-> Resting]
  /\ parked = {} /\ offered = {} /\ rows = <<>>
  /\ turns = <<>> /\ dropped = {}
  /\ sent = 0 /\ autos = 0 /\ taps = 0 /\ deaths = 0

TakeEnvelope == Admit \/ Coalesce \/ TakeResult \/ DiscardResult \/ TapAnswered \/ TapResumes

\* What a suspended task does when its await is over.
Resume(task) ==
  Spawn(task) \/ SpawnFails(task) \/ DegradeEnds(task) \/ DegradedTurnEnds(task)

ConsumerResumes == ReplyEnds \/ GateEnds \/ AnsweredTurnEnds \/ EmitEnds \/ NoteSent

Environment == OwnerAsks \/ OwnerTaps \/ WorkerAnswers \/ Dispatch

Next ==
  \/ TakeEnvelope
  \/ ConsumerResumes
  \/ \E task \in Tasks : Resume(task)
  \/ Fire \/ Reap \/ HubDelivers
  \/ Environment
  \/ Die
  \/ Rest

Spec == Init /\ [][Next]_vars

\* Every await ends (peers read what core sends them, the gate and the reap are
\* bounded), an armed timer fires, the event loop runs what is ready.  Nothing is
\* asked of the owner, of the scheduler's policy or of the worker.
FairSpec ==
  /\ Spec
  /\ WF_vars(TakeEnvelope) /\ WF_vars(ConsumerResumes)
  /\ \A task \in Tasks : WF_vars(Resume(task))
  /\ WF_vars(Fire) /\ WF_vars(Reap) /\ WF_vars(HubDelivers)

-------------------------------------------------------------------------------
(* Properties *)

\* A task between reserving the slot and handing it on.
Holds(task) ==
  \/ at[task].pc \in {"start", "deliver", "gate", "reap"}
  \/ at[task].pc = "emit" /\ at[task].batch # <<>>

\* The slot is reserved exactly while one party will release it: one task in the
\* middle of a start or a finish, or the timer of a turn whose worker is out.  So
\* it neither leaks (arbiter.py, "can never wedge") nor is released under a turn.
SlotHasOneHolder ==
  /\ slot <=> (armed # 0 \/ \E task \in Tasks : Holds(task))
  /\ \A task \in Tasks : Holds(task) =>
       armed = 0 /\ \A other \in Tasks : Holds(other) => other = task

\* The fork-server guard is released before the arbiter slot, so a turn about to
\* be spawned never meets a busy fork-server (WorkerBusyError in _start_turn).
SpawnMeetsFreeGuard == \A task \in Tasks : at[task].pc = "start" => ~guard

\* A task that finishes a turn reads the stash (_current_turn_id, _current_prompt,
\* _current_turn_is_owner) after several awaits: it is still that turn's stash.
StashIsMine ==
  \A task \in Tasks : at[task].pc \in {"deliver", "gate"} => cur.id = at[task].turn

\* History holds at most one row per turn, in the order of the turns, pairing what
\* was asked in that turn with how that very turn ended: a late Result, or a degrade
\* overtaken by the next turn, never leaves its words under another turn.
HistoryIsFaithful ==
  /\ \A i, j \in DOMAIN rows : i < j => rows[i].turn < rows[j].turn
  /\ \A i \in DOMAIN rows :
       LET r == rows[i] t == turns[rows[i].turn]
       IN  /\ r.asks = t.asks /\ r.kind = t.kind
           /\ IF r.pet = "reply" THEN t.fate = "answered" ELSE t.fate = "degraded"

\* A message folded behind a turn always has someone who will pick it up.
PendingIsAttended == pending # <<>> => slot

\* One approval resumes at most one turn, that turn was offered to the owner, and
\* no row of the turn is left to be resumed again, across restarts too.
ApprovalsResumeOnce ==
  \A i \in TurnIds : turns[i].kind = "resume" =>
    /\ turns[i].of \in offered
    /\ Row(turns[i].of, "call") \notin parked
    /\ \A j \in TurnIds : turns[j].kind = "resume" /\ turns[j].of = turns[i].of => j = i

-------------------------------------------------------------------------------
(* What the owner is promised *)

InTurns(fates) == UNION {AsksOf(turns[t].asks) : t \in {u \in TurnIds : turns[u].fate \in fates}}

Unfinished == {t \in TurnIds : turns[t].fate = "open"}

Promise == INSTANCE TurnPromise WITH
  asked    <- sent,
  died     <- deaths,
  waiting  <- Waiting,
  thinking <- IF Unfinished = {} THEN <<>> ELSE <<InTurns({"open"})>>,
  settled  <- InTurns({"answered", "degraded"}),
  lost     <- dropped \cup InTurns({"unspawned", "died"})

\* The tasks, queues and workers add up to the promise: one batch at a time, in the
\* owner's order, each message in exactly one place, lost only to a failed start or a death.
PromiseKept == Promise!Spec

\* Every message ends in a settled turn, or was dropped by a failed start or a death.
EveryAskEnds == Promise!EveryAskEnds
=============================================================================
