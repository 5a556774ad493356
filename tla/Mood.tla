--------------------------------- MODULE Mood ---------------------------------
(* The face and the caption of the pet, as core pushes them: the mood moves by    *)
(* itself and by the nudges of plugins, a turn shows its stages and its reaction, *)
(* and both write to the same two regions of the screen. core/runtime.py,         *)
(* core/reflexes.py, core/reactions.py, core/faces.py.                            *)
(*                                                                                *)
(* The tasks of core interleave where a push awaits the hub. Whether a push finds *)
(* a display, and how its frame gets on the panel, is module Panel.               *)
EXTENDS Integers, Sequences

CONSTANTS
  MaxTurns,     \* bounds: turns,
  MaxMoves,     \*   steps of the mood by itself,
  MaxEvents     \*   events the plugins emit

ASSUME MoodAssumption == {MaxTurns, MaxMoves, MaxEvents} \subseteq Nat

\* One coordinate stands for the three a face is selected by, in units of one nudge.
Valence == -1 .. 1

Nudges == {"positive", "negative"}

\* Kinds of event that reach core: the affects, and a fact that moves no mood.
Kinds == Nudges \cup {"pressed"}

\* The tasks of core that push: the last one runs only the timeout of a turn.
Tasks == {"scheduler", "consumer", "timer"}

None == "none"

Moods == {"grumpy", "content", "curious"}

Texts == Moods \cup {None, "thinking", "happy", "cant-think", "...", "reply"}

VARIABLES
  mood,        \* valence
  cooling,     \* affects whose cooldown still runs (_last_nudge)
  hold,        \* a reaction holds the screen (_reaction_hold_until)
  inbox,       \* events in core_inbox
  lastFace,    \* _last_face
  lastCaption, \* _last_caption
  owed,        \* per task, the caption a suspended mood push has still to send
  turn,        \* where the turn in flight is ("idle" if there is none)
  driver,      \*   and the task that is carrying it out, None while the worker runs
  turns, moves, events

screen == <<lastFace, lastCaption, owed>>
course == <<turn, driver, turns>>
core == <<mood, cooling, hold, inbox>>
vars == <<screen, course, core, moves, events>>

-------------------------------------------------------------------------------
\* _push_face remembers the face whether or not it reaches a display.
PushFace(face) == lastFace' = face

\* A caption that is already there is not sent again.
PushCaption(text) == lastCaption' = text

\* The first face whose region holds the mood.
FaceOf(v) == IF v < 0 THEN "grumpy" ELSE IF v > 0 THEN "curious" ELSE "content"

ScreenIsFreeOfReactions == ~hold

\* A turn in flight or a reaction owns the screen.
ScreenIsFree == turn = "idle" /\ ~hold

\* The caption goes out with a new face only.
PushMoodFaceOnly(t, v) ==
  \/ /\ ScreenIsFree
     /\ FaceOf(v) # lastFace
     /\ PushFace(FaceOf(v))
     /\ owed' = [owed EXCEPT ![t] = FaceOf(v)]
     /\ UNCHANGED lastCaption
  \/ /\ ScreenIsFree => FaceOf(v) = lastFace
     /\ UNCHANGED screen

\* _maybe_push_mood_face by task t for the mood v: a new face is sent first, and the
\* caption after the await; an unchanged face leaves only the caption.
PushMood(t, v) ==
  \/ /\ ScreenIsFree
     /\ FaceOf(v) # lastFace
     /\ PushFace(FaceOf(v))
     /\ owed' = [owed EXCEPT ![t] = FaceOf(v)]
     /\ UNCHANGED lastCaption
  \/ /\ ScreenIsFree
     /\ FaceOf(v) = lastFace
     /\ PushCaption(FaceOf(v))
     /\ UNCHANGED <<lastFace, owed>>
  \/ /\ ~ScreenIsFree
     /\ UNCHANGED screen

\* A suspended push is not waited for.
IsFreeTooSoon(t) == driver # t

\* A task takes its next job or message once it has carried out the last one.
IsFree(t) == owed[t] = None /\ driver # t

\* The rest of a mood push, after its await. The scheduler survives a push that raises and
\* drops the caption; in the consumer nothing catches it, and core would end.
MoodCaption(t) ==
  /\ owed[t] # None
  /\ owed' = [owed EXCEPT ![t] = None]
  /\ PushCaption(owed[t]) \/ (t = "scheduler" /\ UNCHANGED lastCaption)
  /\ UNCHANGED <<lastFace, course, core, moves, events>>

\* The reflex job: the mood may drift a step, and the screen follows.
ReflexTick ==
  /\ IsFree("scheduler")
  /\ \/ UNCHANGED <<mood, moves>>
     \/ /\ moves < MaxMoves
        /\ moves' = moves + 1
        /\ mood' \in {mood - 1, mood + 1} \cap Valence
  /\ PushMood("scheduler", mood')
  /\ UNCHANGED <<cooling, hold, inbox, course, events>>

Clamp(v) == IF v < -1 THEN -1 ELSE IF v > 1 THEN 1 ELSE v

\* An affect moves the valence by one unit within its bounds.
Nudged(kind, v) ==
  CASE kind = "positive" -> Clamp(v + 1)
    [] kind = "negative" -> Clamp(v - 1)
    [] OTHER -> v

\* The consumer takes an event: what moves no mood, or comes again within the cooldown
\* of its kind, is dropped.
HandleNudge ==
  /\ IsFree("consumer")
  /\ inbox # <<>>
  /\ inbox' = Tail(inbox)
  /\ LET kind == Head(inbox) IN
     \/ /\ Nudged(kind, mood) = mood \/ kind \in cooling
        /\ UNCHANGED <<mood, cooling, screen>>
     \/ /\ Nudged(kind, mood) # mood /\ kind \notin cooling
        /\ mood' = Nudged(kind, mood)
        /\ cooling' = cooling \cup {kind}
        /\ PushMood("consumer", mood')
  /\ UNCHANGED <<hold, moves, course, events>>

CooldownEnds ==
  /\ \E kind \in cooling : cooling' = cooling \ {kind}
  /\ UNCHANGED <<mood, hold, inbox, screen, moves, course, events>>

-------------------------------------------------------------------------------
(* What a turn shows *)

\* _start_turn by task t: the face first, a caption after the await.
Begin(t) ==
  /\ turns < MaxTurns
  /\ turns' = turns + 1
  /\ turn' = "starting"
  /\ driver' = t
  /\ PushFace("thinking")
  /\ UNCHANGED <<lastCaption, owed, core, moves, events>>

\* An owner's message reaches the consumer, or a job of the scheduler falls due.
StartTurn(t) ==
  /\ turn = "idle"
  /\ t # "timer" /\ IsFree(t)
  /\ Begin(t)

ThinkingCaption ==
  /\ turn = "starting"
  /\ turn' = "spawning"
  /\ PushCaption("...")
  /\ UNCHANGED <<driver, turns, lastFace, owed, core, moves, events>>

\* The worker runs, or the spawn failed and both guards are released.
Spawn ==
  /\ turn = "spawning"
  /\ turn' \in {"working", "idle"}
  /\ driver' = None
  /\ UNCHANGED <<turns, screen, core, moves, events>>

\* The result reaches the consumer, or the timeout fires: the reply goes out first.
Answer(t) ==
  /\ turn = "working"
  /\ t # "scheduler" /\ IsFree(t)
  /\ turn' = "replying" /\ driver' = t
  /\ UNCHANGED <<turns, screen, core, moves, events>>

\* Then a face: one the model picked, the usual one or that of a failure. A reply that
\* cannot be sent shows nothing.
AnswerFace ==
  /\ turn = "replying"
  /\ \/ /\ turn' = "answering"
        /\ \E face \in IF driver = "timer" THEN {"cant-think"} ELSE {"happy", "grumpy", "cant-think"} :
             PushFace(face)
        /\ UNCHANGED <<lastCaption, owed>>
     \/ /\ turn' = "closing"
        /\ UNCHANGED screen
  /\ UNCHANGED <<driver, turns, core, moves, events>>

\* The caption of a reaction holds the screen, also when it is the one already there; the
\* face's push may raise instead, and then the turn ends without.
AnswerCaption ==
  /\ turn = "answering"
  /\ turn' = "closing"
  /\ \/ hold' = TRUE /\ PushCaption("reply")
     \/ UNCHANGED <<hold, lastCaption>>
  /\ UNCHANGED <<driver, turns, lastFace, owed, mood, cooling, inbox, moves, events>>

HoldEnds ==
  /\ hold
  /\ hold' = FALSE
  /\ UNCHANGED <<mood, cooling, inbox, screen, moves, course, events>>

\* The slot is released, or passes to the message folded in the meantime.
Complete ==
  /\ turn = "closing"
  /\ \/ /\ turn' = "idle"
        /\ driver' = None
        /\ UNCHANGED <<turns, screen, core, moves, events>>
     \/ Begin(driver)

\* The hub forwards an event of a plugin.
EventArrives(kind) ==
  /\ events < MaxEvents
  /\ events' = events + 1
  /\ inbox' = Append(inbox, kind)
  /\ UNCHANGED <<mood, cooling, hold, screen, course, moves>>

-------------------------------------------------------------------------------
\* Core has just booted: nothing has been pushed.
Init ==
  /\ mood = 0 /\ cooling = {} /\ hold = FALSE /\ inbox = <<>>
  /\ lastFace = None /\ lastCaption = None
  /\ owed = [t \in Tasks |-> None]
  /\ turn = "idle" /\ driver = None
  /\ turns = 0 /\ moves = 0 /\ events = 0

Next ==
  \/ \E t \in Tasks : MoodCaption(t) \/ StartTurn(t) \/ Answer(t)
  \/ \E kind \in Kinds : EventArrives(kind)
  \/ ReflexTick \/ HandleNudge \/ CooldownEnds \/ HoldEnds
  \/ ThinkingCaption \/ Spawn \/ AnswerFace \/ AnswerCaption \/ Complete

Spec == Init /\ [][Next]_vars

\* Every task keeps running, every turn ends (its timeout), every dwell elapses;
\* nothing obliges a plugin or an owner to do anything.
Fairness ==
  /\ \A t \in Tasks : WF_vars(MoodCaption(t))
  /\ WF_vars(ReflexTick) /\ WF_vars(HandleNudge) /\ WF_vars(HoldEnds)
  /\ WF_vars(ThinkingCaption) /\ WF_vars(Spawn) /\ WF_vars(Answer("timer"))
  /\ WF_vars(AnswerFace) /\ WF_vars(AnswerCaption) /\ WF_vars(Complete)

FairSpec == Spec /\ Fairness

-------------------------------------------------------------------------------
(* Properties *)

\* Types; and a task owes the rest of a mood push only while it does nothing else: what it
\* suspended on, it comes back to before its next job (_maybe_push_mood_face).
TypeOK ==
  /\ mood \in Valence /\ cooling \subseteq Nudges /\ hold \in BOOLEAN
  /\ inbox \in Seq(Kinds)
  /\ lastFace \in Texts /\ lastCaption \in Texts
  /\ owed \in [Tasks -> Moods \cup {None}]
  /\ turn \in {"idle", "starting", "spawning", "working", "replying", "answering", "closing"}
  /\ driver \in Tasks \cup {None}
  /\ driver # None => owed[driver] = None

\* While the worker thinks and its reply goes out, the face is the one that says so: no push
\* of the mood, by whichever task, gets in between (_maybe_push_mood_face).
TurnOwnsTheFace ==
  turn \in {"starting", "spawning", "working", "replying"} => lastFace = "thinking"

\* After a turn, a reaction or a nudge, the face and the caption come back to the mood
\* (_maybe_push_mood_face pushes both, and either may have been left behind).
MoodComesBack == []<>(lastFace = FaceOf(mood) /\ lastCaption = FaceOf(mood))

===============================================================================
