------------------------------- MODULE Autonomy -------------------------------
(***************************************************************************)
(* The self-driven life of the pet and the credit it may spend on it:      *)
(* core/scheduler.py and the jobs core/runtime.py registers with it,       *)
(* core/dispatch.py, core/budget.py, core/power.py and the spend ledger in *)
(* core/state.py with its checkpoint file.  Time is counted in units the   *)
(* scheduler ticks many times in, so a tick never spans two units and no   *)
(* unit passes without one; but the owner, a turn's end or a death may     *)
(* come between two jobs of one tick.                                      *)
(***************************************************************************)
EXTENDS Naturals, Sequences, FiniteSets

CONSTANTS
  MaxTime,          \* the last instant
  DayLength,        \* units in a day of the owner
  QuietStart, QuietEnd,
  Cap,              \* daily_turn_budget
  Cooldown,         \* turn_cooldown
  CheckpointPeriod, ProactivePeriod, IdlePeriod,
  Cost,             \* the budget weight of each turn job
  Stretch,          \* cadence_scale, per backoff level
  MaxOwner,         \* messages of the owner
  MaxDeaths,        \* crashes and shutdowns
  MaxFaults         \* checkpoints that fail

Levels == {"lively", "eased", "low"}
TurnJobs == {"proactive", "dream"}

ASSUME AutonomyAssumption ==
  /\ MaxTime \in Nat \ {0} /\ MaxOwner \in Nat /\ MaxDeaths \in Nat /\ MaxFaults \in Nat
  /\ DayLength \in Nat \ {0}
  /\ QuietStart \in 0..(DayLength - 1) /\ QuietEnd \in 0..(DayLength - 1)
  /\ QuietStart # QuietEnd
  /\ Cap \in Nat \ {0} /\ Cooldown \in Nat \ {0}
  /\ CheckpointPeriod \in Nat \ {0}
  /\ ProactivePeriod \in Nat \ {0} /\ IdlePeriod \in Nat \ {0}
  /\ Cost \in [TurnJobs -> Nat \ {0}]
  /\ Stretch \in [Levels -> Nat \ {0}]

\* Defaults: 60 s stretched six times at most, against 30 minutes.
ASSUME FlushBeatsCooldown == \A l \in Levels : CheckpointPeriod * Stretch[l] <= Cooldown

VARIABLES
  now,         \* the clock; instants start at 1, 0 stands for None
  ticked,      \* a tick has begun in this unit
  level,       \* the backoff level of the power reading the last tick began with
  due,         \* the due jobs the tick has still to run
  busy,        \* not arbiter.is_idle
  ledger,      \* state.budget
  interaction, \* state.last_interaction
  dirty,       \* PersistentState._dirty
  disk,        \* the checkpoint file
  lastRun,     \* Scheduler._last_run
  admitted,    \* history: every turn admitted, in order
  spent,       \* history: per day, what the turns cost, by the place of their ledger entry
  owner, deaths, faults

stateVars == <<ledger, interaction, dirty, disk>>
tickVars  == <<ticked, level, due, lastRun>>
history   == <<admitted, spent>>
vars == <<now, busy, stateVars, tickVars, history, owner, deaths, faults>>

-------------------------------------------------------------------------------
(* Types *)

Jobs == {"checkpoint"} \cup TurnJobs

\* The jobs registered before this one, which a tick runs first.
Before(job) ==
  CASE job = "checkpoint" -> {}
    [] job = "proactive"  -> {"checkpoint"}
    [] job = "dream"      -> {"checkpoint", "proactive"}

Instants == 0..MaxTime

DayOf(t)  == 1 + (t \div DayLength)
HourOf(t) == t % DayLength

\* The owner's days the model sees.
Days == {DayOf(t) : t \in 1..MaxTime}

Ledger == [day : Nat, used : Nat, last : Instants]
File   == [ledger : Ledger, interaction : Instants]

\* Where the ledger entry of a turn is, or that a crash lost it.
Places == {"ram", "disk", "lost"}

Admission ==
  [job : TurnJobs, at : Instants, since : Instants, kept : Places, life : Nat]

TypeOK ==
  /\ now \in 1..MaxTime
  /\ ticked \in BOOLEAN
  /\ level \in Levels
  /\ due \in SUBSET Jobs
  /\ busy \in BOOLEAN
  /\ ledger \in Ledger /\ interaction \in Instants /\ dirty \in BOOLEAN
  /\ disk \in File
  /\ lastRun \in [Jobs -> Instants]
  /\ admitted \in Seq(Admission) /\ spent \in [Days -> [Places -> Nat]]
  /\ owner \in 0..MaxOwner /\ deaths \in 0..MaxDeaths /\ faults \in 0..MaxFaults

-------------------------------------------------------------------------------
(* The cadences *)

InQuietSameDay(h) == QuietStart <= h /\ h < QuietEnd

\* QuietHours._in_quiet, for a window that may cross midnight.
InQuiet(h) ==
  IF QuietStart < QuietEnd THEN QuietStart <= h /\ h < QuietEnd ELSE h >= QuietStart \/ h < QuietEnd

IntervalDue(job, period) ==
  lastRun[job] = 0 \/ now - lastRun[job] >= period

IdleDueAgain(job, period) == interaction # 0 /\ now - interaction >= period

\* Once per idle stretch: not again before the owner has been heard of.
IdleDue(job, period) ==
  /\ interaction # 0
  /\ now - interaction >= period
  /\ lastRun[job] <= interaction

IsDue(job, scale) ==
  CASE job = "checkpoint" -> IntervalDue(job, CheckpointPeriod * scale)
    [] job = "proactive"  -> ~InQuiet(HourOf(now)) /\ IntervalDue(job, ProactivePeriod * scale)
    [] job = "dream"      -> IdleDue(job, IdlePeriod * scale)

-------------------------------------------------------------------------------
(* The budget gate *)

\* _used_today: a count of another day does not block this one.
UsedToday(day) == IF ledger.day = day THEN ledger.used ELSE 0

NeverCoolsDown == FALSE

\* No stamp, or a stamp in the future, is no cooldown.
CoolingDown == ledger.last # 0 /\ ledger.last <= now /\ now - ledger.last < Cooldown

OverBudgetLate(cost) == UsedToday(DayOf(now)) >= Cap
OverBudget(cost)     == UsedToday(DayOf(now)) + cost > Cap

\* Only LIVELY lets a turn job through: no job is registered as essential.
Skipped == level # "lively"

-------------------------------------------------------------------------------
(* The scheduler *)

\* The head of tick: one power reading, and the jobs due with its stretch.
BeginTick ==
  /\ ~ticked /\ due = {}
  /\ ticked' = TRUE
  /\ level' \in Levels
  /\ due' = {job \in Jobs : IsDue(job, Stretch[level'])}
  /\ UNCHANGED <<now, busy, stateVars, lastRun, history, owner, deaths, faults>>

\* A job is marked before it runs, whatever becomes of it.
TakeDue(job) ==
  /\ job \in due /\ due \cap Before(job) = {}
  /\ due' = due \ {job}
  /\ lastRun' = [lastRun EXCEPT ![job] = now]
  /\ UNCHANGED <<now, ticked, level, owner, deaths>>

\* The ledger entries that were only in memory get to the disk, or are lost.
Moves(place) ==
  /\ admitted' = [i \in DOMAIN admitted |->
       IF admitted[i].kept = "ram" THEN [admitted[i] EXCEPT !.kept = place] ELSE admitted[i]]
  /\ spent' = [day \in Days |->
       [spent[day] EXCEPT !["ram"] = 0, ![place] = @ + spent[day]["ram"]]]

\* _checkpoint_if_dirty: temp file, fsync, rename.
Flush ==
  /\ IF dirty
     THEN /\ disk' = [ledger |-> ledger, interaction |-> interaction]
          /\ dirty' = FALSE
          /\ Moves("disk")
     ELSE UNCHANGED <<disk, dirty, history>>
  /\ UNCHANGED faults

\* A disk error leaves the file as it was and the state dirty; the job waits its period.
FlushFails ==
  /\ dirty /\ faults < MaxFaults /\ faults' = faults + 1
  /\ UNCHANGED <<disk, dirty, history>>

RunCheckpoint ==
  /\ TakeDue("checkpoint")
  /\ Flush \/ FlushFails
  /\ UNCHANGED <<busy, ledger, interaction>>

PatchesQuietly == UNCHANGED dirty

\* apply_patch
Patches == dirty' = TRUE

StampsDeadline == now + Cooldown

\* admission_patch stamps the admission itself.
Stamp == now

\* dispatch_turn_job past all its gates; nothing awaits between them.
Admit(job) ==
  /\ TakeDue(job)
  /\ ~Skipped /\ ~busy
  /\ ~OverBudget(Cost[job]) /\ ~CoolingDown
  /\ busy' = TRUE
  /\ ledger' = [day |-> DayOf(now), used |-> UsedToday(DayOf(now)) + Cost[job], last |-> Stamp]
  /\ Patches
  /\ admitted' = Append(admitted,
       [job |-> job, at |-> now, since |-> interaction, kept |-> "ram", life |-> deaths])
  /\ spent' = [spent EXCEPT ![DayOf(now)]["ram"] = @ + Cost[job]]
  /\ UNCHANGED <<interaction, disk, faults>>

\* Skipped on battery, an empty or failed prompt, the slot taken, the cooldown, the cap.
PassOver(job) ==
  /\ TakeDue(job)
  /\ UNCHANGED <<busy, stateVars, history, faults>>

-------------------------------------------------------------------------------
(* Everything else *)

\* A message takes or already finds the slot taken; a tap may leave it free.
OwnerWrites ==
  /\ owner < MaxOwner /\ owner' = owner + 1
  /\ interaction' = now
  /\ dirty' = TRUE
  /\ busy' \in {busy, TRUE}
  /\ UNCHANGED <<now, ledger, disk, tickVars, history, deaths, faults>>

\* Answered, degraded or never started: TurnLoop.
TurnEnds ==
  /\ busy /\ busy' = FALSE
  /\ UNCHANGED <<now, stateVars, tickVars, history, owner, deaths, faults>>

Advance ==
  /\ ticked /\ due = {} /\ now < MaxTime
  /\ now' = now + 1
  /\ ticked' = FALSE
  /\ UNCHANGED <<busy, stateVars, level, due, lastRun, history, owner, deaths, faults>>

\* A start: the clock of the jobs is new, except for the deferred first musing.
Boot ==
  /\ deaths < MaxDeaths /\ deaths' = deaths + 1
  /\ busy' = FALSE
  /\ ticked' = FALSE /\ due' = {}
  /\ lastRun' = [job \in Jobs |-> IF job = "proactive" THEN now ELSE 0]
  /\ UNCHANGED <<now, level, owner>>

\* The state comes back from the last checkpoint.
Crash ==
  /\ Boot
  /\ ledger' = disk.ledger /\ interaction' = disk.interaction
  /\ dirty' = FALSE
  /\ Moves("lost")
  /\ UNCHANGED <<disk, faults>>

\* _cleanup flushes on a graceful stop; if that fails it is a crash after all.
Shutdown ==
  /\ Boot
  /\ Flush
  /\ UNCHANGED <<ledger, interaction>>

Init ==
  /\ now = 1 /\ ticked = FALSE /\ due = {}
  /\ level = "lively"
  /\ busy = FALSE
  /\ ledger = [day |-> 0, used |-> 0, last |-> 0] /\ interaction = 0 /\ dirty = FALSE
  /\ disk = [ledger |-> ledger, interaction |-> interaction]
  /\ lastRun = [job \in Jobs |-> IF job = "proactive" THEN now ELSE 0]
  /\ admitted = <<>> /\ spent = [day \in Days |-> [place \in Places |-> 0]]
  /\ owner = 0 /\ deaths = 0 /\ faults = 0

Next ==
  \/ BeginTick \/ RunCheckpoint
  \/ \E job \in TurnJobs : Admit(job) \/ PassOver(job)
  \/ OwnerWrites \/ TurnEnds \/ Advance
  \/ Crash \/ Shutdown

Spec == Init /\ [][Next]_vars

-------------------------------------------------------------------------------
(* Properties *)

KeptOn(day) == spent[day]["ram"] + spent[day]["disk"]

\* On no day of the owner do the turns the ledger has kept cost more than the cap,
\* through midnight, restarts and heavier jobs.
CapHoldsForKeptTurns == \A day \in Days : KeptOn(day) <= Cap

Unflushed == {i \in DOMAIN admitted : admitted[i].kept = "ram"}
Lost      == {i \in DOMAIN admitted : admitted[i].kept = "lost"}

\* A crash makes the ledger forget one turn at the most, and one more for every failed
\* checkpoint: the next one comes round before the cooldown lets another turn in.
CrashForgetsOneTurn ==
  Cardinality(Unflushed) <= 1 + faults /\ Cardinality(Lost) <= deaths + faults

\* Two self-driven turns are a cooldown apart, unless a crash took the first one's stamp.
TurnsAreSpaced ==
  \A i \in 1..(Len(admitted) - 1) :
    admitted[i].kept = "lost" \/ admitted[i + 1].at - admitted[i].at >= Cooldown

\* The pet dreams once per idle stretch of one run of the core: between two dreams the owner wrote.
OneDreamPerStretch ==
  \A i, j \in DOMAIN admitted :
    /\ i < j /\ admitted[i].job = "dream" /\ admitted[j].job = "dream"
    /\ admitted[i].life = admitted[j].life
    => admitted[j].since >= admitted[i].at

\* The hours of the quiet window, counted off one by one from its start.
QuietHours == {(QuietStart + n) % DayLength : n \in 0..((QuietEnd + DayLength - QuietStart - 1) % DayLength)}

\* The pet does not speak up unprompted in the owner's quiet hours.
QuietNights ==
  \A i \in DOMAIN admitted :
    admitted[i].job = "proactive" => HourOf(admitted[i].at) \notin QuietHours

\* Whatever battery, budget, owner and restarts do, self-driven turns keep the three
\* distances: from each other, from the last dream, from the night.
Pacing == TurnsAreSpaced /\ OneDreamPerStretch /\ QuietNights

\* "Persisted with the rest of the state so a restart can't reset the daily cap and
\* overspend" (core/state.py, TurnBudget).
RestartCannotOverspend == \A day \in Days : KeptOn(day) + spent[day]["lost"] <= Cap
===============================================================================
