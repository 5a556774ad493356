------------------------------ MODULE MoodProofs ------------------------------
(* What TLAPS proves of module Mood, for any number of turns, drifts and events: *)
(* the types, and that a turn keeps its face while its worker thinks.  The two    *)
(* together are inductive: a mood push is suspended only in a task that carries   *)
(* no turn, so the caption it owes never belongs to a turn's own steps.           *)
EXTENDS Mood, SequenceTheorems, TLAPS

IInv == TypeOK /\ TurnOwnsTheFace

\* What the push of a mood by a free task may change, the face of a thinking pet excepted.
LEMMA PushMoodKeeps ==
  ASSUME IInv, NEW t \in Tasks, IsFree(t), NEW v \in Valence, PushMood(t, v)
  PROVE  /\ lastFace' \in Texts /\ lastCaption' \in Texts
         /\ owed' \in [Tasks -> Moods \cup {None}]
         /\ driver # None => owed'[driver] = None
         /\ turn # "idle" => lastFace' = lastFace
<1>1. FaceOf(v) \in Moods
  BY DEF FaceOf, Moods
<1>2. /\ lastFace \in Texts /\ lastCaption \in Texts /\ owed \in [Tasks -> Moods \cup {None}]
      /\ driver \in Tasks \cup {None} /\ (driver # None => owed[driver] = None)
      /\ driver # t /\ Moods \subseteq Texts
  BY DEF IInv, TypeOK, IsFree, Texts
<1>3. CASE ScreenIsFree /\ FaceOf(v) # lastFace
  <2>1. turn = "idle"
    BY <1>3 DEF ScreenIsFree
  <2>2. lastFace' = FaceOf(v) /\ owed' = [owed EXCEPT ![t] = FaceOf(v)] /\ lastCaption' = lastCaption
    BY <1>3 DEF PushMood, PushFace
  <2>3. QED
    BY <1>1, <1>2, <2>1, <2>2
<1>4. CASE ScreenIsFree /\ FaceOf(v) = lastFace
  <2>1. lastCaption' = FaceOf(v) /\ UNCHANGED <<lastFace, owed>>
    BY <1>4 DEF PushMood, PushCaption
  <2>2. QED
    BY <1>1, <1>2, <2>1
<1>5. CASE ~ScreenIsFree
  <2>1. UNCHANGED <<lastFace, lastCaption, owed>>
    BY <1>5 DEF PushMood, screen
  <2>2. QED
    BY <1>2, <2>1
<1>6. QED
  BY <1>3, <1>4, <1>5

\* A step that leaves the turn alone and does not touch the face of a thinking pet.
LEMMA TurnUntouched ==
  ASSUME IInv, UNCHANGED course,
         mood' \in Valence, cooling' \subseteq Nudges, hold' \in BOOLEAN, inbox' \in Seq(Kinds),
         lastFace' \in Texts, lastCaption' \in Texts, owed' \in [Tasks -> Moods \cup {None}],
         driver # None => owed'[driver] = None,
         turn # "idle" => lastFace' = lastFace
  PROVE  IInv'
<1>1. TypeOK'
  BY DEF IInv, TypeOK, course
<1>2. TurnOwnsTheFace'
  BY DEF IInv, TurnOwnsTheFace, course
<1>3. QED
  BY <1>1, <1>2 DEF IInv

\* A step of the turn itself: it owes no mood caption, and shows what it must.
LEMMA TurnSteps ==
  ASSUME IInv, UNCHANGED <<mood, cooling, inbox, owed>>, hold' \in BOOLEAN,
         lastFace' \in Texts, lastCaption' \in Texts,
         turn' \in {"idle", "starting", "spawning", "working", "replying", "answering", "closing"},
         driver' \in Tasks \cup {None}, driver' # None => owed[driver'] = None,
         turn' \in {"starting", "spawning", "working", "replying"} => lastFace' = "thinking"
  PROVE  IInv'
<1>1. TypeOK'
  BY DEF IInv, TypeOK
<1>2. QED
  BY <1>1 DEF IInv, TurnOwnsTheFace

LEMMA Inductive == IInv /\ [Next]_vars => IInv'
<1> SUFFICES ASSUME IInv, [Next]_vars PROVE IInv'
  OBVIOUS
<1>0. /\ mood \in Valence /\ cooling \subseteq Nudges /\ inbox \in Seq(Kinds)
      /\ lastFace \in Texts /\ lastCaption \in Texts /\ owed \in [Tasks -> Moods \cup {None}]
      /\ turn \in {"idle", "starting", "spawning", "working", "replying", "answering", "closing"}
      /\ driver \in Tasks \cup {None} /\ (driver # None => owed[driver] = None)
  BY DEF IInv, TypeOK
<1>h. hold' \in BOOLEAN
  <2>1. UNCHANGED hold \/ hold' = TRUE \/ hold' = FALSE
    BY DEF Next, MoodCaption, StartTurn, Answer, EventArrives, ReflexTick, HandleNudge, CooldownEnds,
           HoldEnds, ThinkingCaption, Spawn, AnswerFace, AnswerCaption, Complete, Begin, core, vars
  <2>2. hold \in BOOLEAN
    BY DEF IInv, TypeOK
  <2>3. QED
    BY <2>1, <2>2, Zenon
<1>1. ASSUME NEW t \in Tasks, MoodCaption(t) PROVE IInv'
  <2>1. /\ lastCaption' \in Texts /\ owed' = [owed EXCEPT ![t] = None]
        /\ UNCHANGED <<lastFace, course, core>>
    BY <1>0, <1>h, <1>1 DEF MoodCaption, PushCaption, Texts
  <2>2. owed' \in [Tasks -> Moods \cup {None}] /\ (driver # None => owed'[driver] = None)
    BY <1>0, <1>h, <2>1
  <2>3. QED
    BY <1>0, <1>h, <2>1, <2>2, TurnUntouched DEF core
<1>2. ASSUME NEW t \in Tasks, Begin(t), owed[t] = None PROVE IInv'
  BY <1>0, <1>h, <1>2, TurnSteps DEF Begin, PushFace, core, Texts
<1>3. ASSUME NEW t \in Tasks, StartTurn(t) PROVE IInv'
  BY <1>2, <1>3 DEF StartTurn, IsFree
<1>4. ASSUME NEW t \in Tasks, Answer(t) PROVE IInv'
  <2>1. /\ owed[t] = None /\ driver' = t /\ turn' = "replying" /\ lastFace = "thinking"
        /\ UNCHANGED <<mood, cooling, hold, inbox, screen>>
    BY <1>4 DEF Answer, IsFree, core, IInv, TurnOwnsTheFace
  <2>2. QED
    BY <1>0, <1>h, <2>1, TurnSteps DEF screen
<1>5. ASSUME NEW kind \in Kinds, EventArrives(kind) PROVE IInv'
  <2>1. inbox' \in Seq(Kinds)
    BY <1>0, <1>h, <1>5, AppendProperties DEF EventArrives
  <2>2. UNCHANGED <<mood, cooling, hold, screen, course>>
    BY <1>5 DEF EventArrives
  <2>3. QED
    BY <1>0, <1>h, <2>1, <2>2, TurnUntouched DEF screen
<1>6. CASE ReflexTick
  <2>1. mood' \in Valence /\ "scheduler" \in Tasks
    BY <1>0, <1>h, <1>6 DEF ReflexTick, Tasks
  <2>2. /\ IsFree("scheduler") /\ PushMood("scheduler", mood')
        /\ UNCHANGED <<cooling, hold, inbox, course>>
    BY <1>6 DEF ReflexTick
  <2>3. QED
    BY <1>0, <1>h, <2>1, <2>2, PushMoodKeeps, TurnUntouched
<1>7. CASE HandleNudge
  <2> DEFINE kind == Head(inbox)
  <2>1. inbox' \in Seq(Kinds) /\ kind \in Kinds
    BY <1>0, <1>h, <1>7, HeadTailProperties DEF HandleNudge
  <2>2. UNCHANGED <<hold, course>> /\ IsFree("consumer") /\ "consumer" \in Tasks
    BY <1>7 DEF HandleNudge, Tasks
  <2>3. CASE UNCHANGED <<mood, cooling, screen>>
    BY <1>0, <1>h, <2>1, <2>2, <2>3, TurnUntouched DEF screen
  <2>4. CASE /\ Nudged(kind, mood) # mood /\ mood' = Nudged(kind, mood)
             /\ cooling' = cooling \cup {kind} /\ PushMood("consumer", mood')
    <3>1. mood' \in Valence
      BY <1>0, <1>h, <2>4 DEF Nudged, Clamp, Valence
    <3>2. cooling' \subseteq Nudges
      BY <1>0, <1>h, <2>1, <2>4 DEF Nudged, Kinds, Nudges
    <3>3. QED
      BY <1>0, <1>h, <2>1, <2>2, <2>4, <3>1, <3>2, PushMoodKeeps, TurnUntouched
  <2>5. QED
    BY <1>7, <2>3, <2>4 DEF HandleNudge
<1>8. CASE CooldownEnds
  BY <1>0, <1>h, <1>8, TurnUntouched DEF CooldownEnds, screen
<1>9. CASE HoldEnds
  BY <1>0, <1>h, <1>9, TurnUntouched DEF HoldEnds, screen
<1>10. CASE ThinkingCaption
  BY <1>0, <1>h, <1>10, TurnSteps DEF ThinkingCaption, PushCaption, core, Texts, IInv, TurnOwnsTheFace
<1>11. CASE Spawn
  BY <1>0, <1>h, <1>11, TurnSteps DEF Spawn, core, screen, IInv, TurnOwnsTheFace
<1>f. CASE AnswerFace
  <2>1. /\ turn' \in {"answering", "closing"}
        /\ UNCHANGED <<mood, cooling, hold, inbox, driver, owed, lastCaption>>
    BY <1>f DEF AnswerFace, core, screen
  <2>2. lastFace' \in Texts
    BY <1>0, <1>f DEF AnswerFace, PushFace, screen, Texts, Moods
  <2>3. QED
    BY <1>0, <1>h, <2>1, <2>2, TurnSteps
<1>12. CASE AnswerCaption
  BY <1>0, <1>h, <1>12, TurnSteps DEF AnswerCaption, PushCaption, Texts
<1>13. CASE Complete
  <2>1. CASE turn' = "idle" /\ driver' = None /\ UNCHANGED <<screen, core>>
    BY <1>0, <1>h, <2>1, TurnSteps DEF core, screen
  <2>2. CASE Begin(driver)
    BY <1>0, <1>h, <2>2, TurnSteps DEF Begin, PushFace, core, Texts
  <2>3. QED
    BY <1>13, <2>1, <2>2 DEF Complete
<1>14. CASE UNCHANGED vars
  BY <1>0, <1>h, <1>14, TurnUntouched DEF vars, screen, core
<1>15. QED
  BY <1>1, <1>3, <1>4, <1>5, <1>6, <1>7, <1>8, <1>9, <1>10, <1>11, <1>f, <1>12, <1>13, <1>14 DEF Next

LEMMA InvariantHolds == Spec => []IInv
<1>1. Init => IInv
  <2> SUFFICES ASSUME Init PROVE IInv
    OBVIOUS
  <2>1. hold \in BOOLEAN
    BY DEF Init
  <2>2. /\ mood \in Valence /\ cooling \subseteq Nudges /\ inbox \in Seq(Kinds)
        /\ lastFace \in Texts /\ lastCaption \in Texts
    BY EmptySeq DEF Init, Valence, Texts
  <2>3. /\ owed \in [Tasks -> Moods \cup {None}]
        /\ driver \in Tasks \cup {None} /\ ~(driver # None) /\ turn = "idle"
    BY DEF Init
  <2>4. QED
    BY <2>1, <2>2, <2>3 DEF IInv, TypeOK, TurnOwnsTheFace
<1>2. QED
  BY <1>1, Inductive, PTL DEF Spec

\* Every variable keeps its type, and a suspended mood push is never in a task that is
\* carrying a turn.
THEOREM TypeCorrect == Spec => []TypeOK
<1>1. IInv => TypeOK
  BY DEF IInv
<1>2. QED
  BY <1>1, InvariantHolds, PTL

\* From the start of a turn until its reply is sent the face says that the pet is thinking,
\* whichever tasks push a mood meanwhile.
THEOREM FaceIsTheTurns == Spec => []TurnOwnsTheFace
<1>1. IInv => TurnOwnsTheFace
  BY DEF IInv
<1>2. QED
  BY <1>1, InvariantHolds, PTL
===============================================================================
