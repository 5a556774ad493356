---------------------------- MODULE TurnLoopProofs ----------------------------
(***************************************************************************)
(* What holds of the turn loop for every number of messages, self-driven   *)
(* turns and taps and every kind of Result: types, who holds the slot, and *)
(* what follows from it for the fork-server guard, the stash, the history  *)
(* and the approvals; at the end, that the loop implements TurnPromise.    *)
(***************************************************************************)
EXTENDS TurnLoop, SequenceTheorems, TLAPS

-------------------------------------------------------------------------------
(* The inductive invariant *)

\* The stash is that of the open turn.
OpenTurnIsStashed == fence # 0 => cur.id = fence

\* A task still starting a turn is starting the open one.
StartIsOpen ==
  \A task \in Tasks : at[task].pc = "start" => at[task].turn # 0 /\ at[task].turn = fence

\* An open turn is waited for by its timer, or is still being started.
OpenTurnIsHeld == fence # 0 => armed # 0 \/ \E task \in Tasks : at[task].pc = "start"

\* The guard of the fork-server is up only between a fork and the end of its turn,
\* and its reap task is the one _await_reap waits for.
GuardIsHeld ==
  guard => /\ reapTask
           /\ armed # 0 \/ \E task \in Tasks : at[task].pc \in {"deliver", "gate", "reap"}

\* The turns a worker may still answer for, or has answered unheard.
Answering ==
  {child} \cup {r.id : r \in wire}
  \cup {inbox[i].id : i \in {j \in DOMAIN inbox : inbox[j].kind = "result"}}

\* A worker answers for a turn that has begun, and never for one still starting.
NoEarlyResult ==
  /\ \A t \in Answering : t <= Len(turns)
  /\ \A task \in Tasks : at[task].pc = "start" =>
       at[task].turn <= Len(turns) /\ at[task].turn \notin Answering

IInv ==
  /\ TypeOK
  /\ SlotHasOneHolder /\ PendingIsAttended /\ StashIsMine
  /\ OpenTurnIsStashed /\ StartIsOpen /\ OpenTurnIsHeld
  /\ GuardIsHeld /\ NoEarlyResult

-------------------------------------------------------------------------------
(* Types *)

LEMMA RestingTyped == Resting \in TaskState /\ Resting.pc = "idle" /\ <<>> \in Seq(Nat)
<1>1. <<>> \in Seq(Nat)
  BY EmptySeq
<1>2. QED
  BY <1>1 DEF Resting, TaskState, Controls, Results

LEMMA InitTypeOK == Init => TypeOK
<1> SUFFICES ASSUME Init PROVE TypeOK
  OBVIOUS
<1>1. at \in [Tasks -> TaskState]
  BY RestingTyped DEF Init
<1>2. cur \in Stash
  BY RestingTyped DEF Init, NoStash, Stash, Kinds
<1>3. inbox \in Seq(Envelope) /\ rows \in Seq(HistoryRow) /\ turns \in Seq(Turn) /\ pending \in Seq(Nat)
  BY EmptySeq DEF Init
<1>4. QED
  BY <1>1, <1>2, <1>3 DEF Init, TypeOK

\* A turn begins: whoever starts it, with whatever prompt, types are kept.
LEMMA BeginTyped ==
  ASSUME TypeOK, NEW task \in Tasks, NEW kind \in Kinds, NEW asks \in Seq(Nat), NEW of \in Nat,
         Begin(task, kind, asks, of)
  PROVE  /\ turns' \in Seq(Turn) /\ cur' \in Stash /\ at' \in [Tasks -> TaskState]
         /\ fence' \in Nat /\ closed' \subseteq Nat
<1> DEFINE t == Len(turns) + 1
           r == [kind |-> kind, asks |-> asks, of |-> of, fate |-> "open"]
<1>1. t \in Nat
  BY DEF TypeOK
<1>2. r \in Turn
  BY DEF Turn, Fates
<1>3. turns' \in Seq(Turn)
  <2>1. turns' = Append(turns, r)
    BY DEF Begin
  <2> HIDE DEF r
  <2>2. QED
    BY <2>1, <1>2 DEF TypeOK
<1>4. cur' \in Stash
  BY <1>1 DEF Begin, Stash
<1>5. at' \in [Tasks -> TaskState]
  <2> DEFINE s == [pc |-> "start", turn |-> t, res |-> "fail", batch |-> <<>>]
  <2>1. s \in TaskState
    BY <1>1 DEF TaskState, Controls, Results
  <2>2. at' = [at EXCEPT ![task] = s]
    BY DEF Begin
  <2> HIDE DEF s
  <2>3. QED
    BY <2>1, <2>2 DEF TypeOK
<1>6. fence' \in Nat /\ closed' \subseteq Nat
  BY <1>1 DEF Begin, FenceOpen, TypeOK
<1>7. QED
  BY <1>3, <1>4, <1>5, <1>6

LEMMA MarkTyped ==
  ASSUME TypeOK, NEW t \in Nat, NEW fate \in Fates, Mark(t, fate)
  PROVE  turns' \in Seq(Turn) /\ Len(turns') = Len(turns)
<1>1. turns \in Seq(Turn) /\ DOMAIN turns = 1..Len(turns) /\ turns \in [1..Len(turns) -> Turn]
  BY LenProperties DEF TypeOK
<1>2. CASE t \in 1..Len(turns)
  <2> DEFINE e == [turns[t] EXCEPT !.fate = fate]
  <2>1. turns[t] \in Turn
    BY <1>1, <1>2
  <2>2. e \in Turn
    BY <2>1 DEF Turn
  <2>3. turns' = [turns EXCEPT ![t] = e]
    BY DEF Mark
  <2> HIDE DEF e
  <2>4. QED
    BY <1>1, <1>2, <2>2, <2>3, ExceptSeq
<1>3. CASE t \notin 1..Len(turns)
  <2>1. turns' = turns
    BY <1>1, <1>3 DEF Mark
  <2>2. QED
    BY <1>1, <2>1
<1>4. QED
  BY <1>2, <1>3

\* A death ends the open turns, as histories go, and no other.
LEMMA DeathTyped ==
  ASSUME TypeOK, Die
  PROVE  turns' \in Seq(Turn) /\ Len(turns') = Len(turns)
<1> DEFINE e(t) == IF turns[t].fate = "open" THEN [turns[t] EXCEPT !.fate = "died"] ELSE turns[t]
<1>1. turns \in Seq(Turn) /\ Len(turns) \in Nat
  BY LenProperties DEF TypeOK
<1>2. \A t \in 1..Len(turns) : e(t) \in Turn
  <2> TAKE t \in 1..Len(turns)
  <2>1. turns[t] \in Turn
    BY <1>1, ElementOfSeq
  <2>2. [turns[t] EXCEPT !.fate = "died"] \in Turn
    BY <2>1 DEF Turn, Fates
  <2>3. QED
    BY <2>1, <2>2
<1>3. turns' = [t \in 1..Len(turns) |-> e(t)]
  BY DEF Die, TurnIds
<1> HIDE DEF e
<1>4. turns' \in [1..Len(turns) -> Turn]
  BY <1>2, <1>3
<1>5. turns' \in Seq(Turn)
  BY <1>1, <1>4, SeqDef
<1>6. QED
  BY <1>1, <1>4, <1>5, LenProperties

LEMMA WaitingTyped == TypeOK => Waiting \subseteq Nat
<1> SUFFICES ASSUME TypeOK PROVE Waiting \subseteq Nat
  OBVIOUS
<1>1. \A i \in DOMAIN inbox : inbox[i].id \in Nat
  BY LenProperties DEF TypeOK, Envelope
<1>2. at["consumer"].batch \in Seq(Nat) /\ pending \in Seq(Nat)
  BY DEF TypeOK, TaskState, Tasks
<1>3. \A s \in Seq(Nat) : AsksOf(s) \subseteq Nat
  BY LenProperties DEF AsksOf
<1>4. QED
  BY <1>1, <1>2, <1>3 DEF Waiting

LEMMA TakeTyped ==
  ASSUME TypeOK, NEW kind, Take(kind)
  PROVE  /\ inbox' \in Seq(Envelope) /\ Head(inbox) \in Envelope
         /\ Head(inbox).kind = kind /\ Head(inbox).id \in Nat
<1>1. inbox \in Seq(Envelope) /\ inbox # <<>>
  BY DEF TypeOK, Take
<1>2. Head(inbox) \in Envelope /\ Tail(inbox) \in Seq(Envelope)
  BY <1>1
<1>3. Head(inbox).id \in Nat
  BY <1>2 DEF Envelope
<1>4. QED
  BY <1>2, <1>3 DEF Take

\* A suspended task moves to another await, or is done.
LEMMA MoveTyped ==
  ASSUME TypeOK, NEW task \in Tasks
  PROVE  /\ Leave(task) => at' \in [Tasks -> TaskState]
         /\ \A control \in Controls : Goto(task, control) => at' \in [Tasks -> TaskState]
<1>1. at[task] \in TaskState
  BY DEF TypeOK
<1>2. \A control \in Controls : [at[task] EXCEPT !.pc = control] \in TaskState
  BY <1>1 DEF TaskState
<1>3. QED
  BY <1>2, RestingTyped DEF TypeOK, Leave, Goto

\* The row of a finished turn.
LEMMA RecordTyped ==
  ASSUME TypeOK, NEW pet \in {"reply", "degrade"}, Record(pet) \/ UNCHANGED rows
  PROVE  rows' \in Seq(HistoryRow)
<1> DEFINE r == [turn |-> cur.id, kind |-> cur.kind, asks |-> cur.asks, pet |-> pet]
<1>1. r \in HistoryRow
  BY DEF TypeOK, Stash, HistoryRow
<1>2. Record(pet) => rows' = Append(rows, r)
  BY DEF Record
<1> HIDE DEF r
<1>3. rows \in Seq(HistoryRow)
  BY DEF TypeOK
<1>4. Append(rows, r) \in Seq(HistoryRow)
  BY <1>1, <1>3
<1>5. QED
  BY <1>2, <1>3, <1>4

-------------------------------------------------------------------------------

LEMMA NextTypeOK == TypeOK /\ [Next]_vars => TypeOK'
<1> SUFFICES ASSUME TypeOK, [Next]_vars PROVE TypeOK'
  OBVIOUS
<1> USE DEF arbiterVars, fenceVars, forkVars, storeVars, boundVars, NoTurnBegins
<1>0. "consumer" \in Tasks /\ "watch" \in Tasks /\ "scheduler" \in Tasks
  BY DEF Tasks
<1>1. \A n \in Nat : <<n>> \in Seq(Nat) /\ <<>> \in Seq(Nat)
  BY EmptySeq
<1>2. CASE Admit
  <2>1. Head(inbox).id \in Nat /\ inbox' \in Seq(Envelope)
    BY <1>2, TakeTyped DEF Admit
  <2>2. <<Head(inbox).id>> \in Seq(Nat)
    BY <1>1, <2>1
  <2>3. QED
    BY <1>0, <1>2, <2>1, <2>2, BeginTyped DEF Admit, TypeOK, Kinds
<1>3. CASE Coalesce
  <2>1. Head(inbox).id \in Nat /\ inbox' \in Seq(Envelope)
    BY <1>3, TakeTyped DEF Coalesce
  <2>2. QED
    BY <1>3, <2>1 DEF Coalesce, TypeOK
<1>4. CASE TakeResult
  <2> DEFINE env == Head(inbox)
             s == [pc |-> "deliver", turn |-> env.id, res |-> env.res, batch |-> <<>>]
  <2>1. env.id \in Nat /\ inbox' \in Seq(Envelope) /\ env \in Envelope /\ env.kind = "result"
    BY <1>4, TakeTyped DEF TakeResult
  <2>2. s \in TaskState
    BY <1>1, <2>1 DEF TaskState, Controls, Envelope
  <2>3. turns' \in Seq(Turn)
    BY <1>4, <2>1, MarkTyped DEF TakeResult, Fates
  <2>4. at' = [at EXCEPT !["consumer"] = s]
    BY <1>4 DEF TakeResult
  <2>5. fence' \in Nat /\ closed' \subseteq Nat /\ armed' = 0
    BY <1>4, <2>1 DEF TakeResult, FenceClose, TypeOK
  <2>6. UNCHANGED <<arbiterVars, cur, forkVars, parked, rows, dropped, boundVars>>
    BY <1>4 DEF TakeResult
  <2>7. offered' \subseteq Nat
    <3>1. offered' \subseteq offered \cup {env.id}
      BY <1>4 DEF TakeResult
    <3>2. QED
      BY <2>1, <3>1 DEF TypeOK
  <2> HIDE DEF s
  <2>8. QED
    BY <2>1, <2>2, <2>3, <2>4, <2>5, <2>6, <2>7 DEF TypeOK
<1>5. CASE DiscardResult
  BY <1>5, TakeTyped DEF DiscardResult, TypeOK
<1>6. CASE TapAnswered
  <2>1. at' \in [Tasks -> TaskState]
    BY <1>0, <1>6, MoveTyped DEF TapAnswered, Controls
  <2>2. parked' \subseteq parked
    BY <1>6 DEF TapAnswered, TakeRow
  <2>3. inbox' \in Seq(Envelope)
    BY <1>6, TakeTyped DEF TapAnswered
  <2>4. QED
    BY <1>6, <2>1, <2>2, <2>3 DEF TapAnswered, TypeOK
<1>7. CASE TapResumes
  <2>1. Head(inbox).id \in Nat /\ inbox' \in Seq(Envelope)
    BY <1>7, TakeTyped DEF TapResumes
  <2>2. parked' \subseteq parked
    BY <1>7 DEF TapResumes, TakeRow
  <2>3. Begin("consumer", "resume", <<>>, Head(inbox).id)
    BY <1>7 DEF TapResumes
  <2>4. /\ turns' \in Seq(Turn) /\ cur' \in Stash /\ at' \in [Tasks -> TaskState]
        /\ fence' \in Nat /\ closed' \subseteq Nat
    BY <1>0, <1>1, <2>1, <2>3, BeginTyped DEF Kinds
  <2>5. QED
    BY <1>7, <2>1, <2>2, <2>4 DEF TapResumes, TypeOK
<1>8. CASE ReplyEnds
  <2> DEFINE res == at["consumer"].res
  <2>1. at' \in [Tasks -> TaskState]
    BY <1>0, <1>8, MoveTyped DEF ReplyEnds, Controls
  <2>2. rows' \in Seq(HistoryRow)
    BY <1>8, RecordTyped DEF ReplyEnds
  <2>3. at["consumer"] \in TaskState /\ cur \in Stash
    BY <1>0 DEF TypeOK
  <2>4. UNCHANGED offered
    BY <1>8 DEF ReplyEnds
  <2>5. parked' \subseteq [id : Nat, what : Parkable]
    BY <1>8, <2>3 DEF ReplyEnds, TypeOK, Stash, AsksApproval, Row, Parkable
  <2>6. UNCHANGED <<inbox, arbiterVars, armed, forkVars, dropped, boundVars, turns, cur, fenceVars>>
    BY <1>8 DEF ReplyEnds
  <2>7. QED
    BY <2>1, <2>2, <2>4, <2>5, <2>6 DEF TypeOK
<1>9. CASE GateEnds
  <2>1. at' \in [Tasks -> TaskState]
    BY <1>0, <1>9, MoveTyped DEF GateEnds, Controls
  <2>2. at["consumer"].turn \in Nat
    BY <1>0 DEF TypeOK, TaskState
  <2>3. offered' \subseteq Nat /\ parked' \subseteq [id : Nat, what : Parkable]
    <3>1. Row(at["consumer"].turn, "tool") \in [id : Nat, what : Parkable]
      BY <2>2 DEF Row, Parkable
    <3>2. parked' \subseteq parked \cup {Row(at["consumer"].turn, "tool")}
      BY <1>9 DEF GateEnds
    <3>3. offered' \subseteq offered \cup {at["consumer"].turn}
      BY <1>9 DEF GateEnds
    <3>4. QED
      BY <2>2, <3>1, <3>2, <3>3 DEF TypeOK
  <2>4. QED
    BY <1>9, <2>1, <2>3 DEF GateEnds, TypeOK
<1>10. CASE AnsweredTurnEnds
  <2> DEFINE s == [at["consumer"] EXCEPT !.pc = "emit", !.batch = pending]
  <2>1. s \in TaskState
    BY <1>0 DEF TypeOK, TaskState, Controls
  <2>2. at' = [at EXCEPT !["consumer"] = s]
    BY <1>10 DEF AnsweredTurnEnds
  <2>3. pending' = <<>> /\ slot' \in BOOLEAN /\ reapTask' = FALSE
    BY <1>10 DEF AnsweredTurnEnds, Complete
  <2>4. UNCHANGED <<inbox, armed, guard, child, wire, storeVars, dropped, boundVars, turns, cur, fenceVars>>
    BY <1>10 DEF AnsweredTurnEnds
  <2> HIDE DEF s
  <2>5. QED
    BY <1>1, <2>1, <2>2, <2>3, <2>4 DEF TypeOK
<1>11. CASE EmitEnds
  <2>1. CASE at["consumer"].batch = <<>>
    BY <1>0, <1>11, <2>1, MoveTyped DEF EmitEnds, TypeOK
  <2>2. CASE at["consumer"].batch # <<>>
    <3>1. at["consumer"].batch \in Seq(Nat)
      BY <1>0 DEF TypeOK, TaskState
    <3>2. Begin("consumer", "owner", at["consumer"].batch, 0)
      BY <1>11, <2>2 DEF EmitEnds
    <3>3. QED
      BY <1>0, <1>11, <3>1, <3>2, BeginTyped DEF EmitEnds, TypeOK, Kinds
  <2>3. QED
    BY <2>1, <2>2
<1>12. CASE NoteSent
  BY <1>0, <1>12, MoveTyped DEF NoteSent, TypeOK
<1>13. ASSUME NEW task \in Tasks, Resume(task) PROVE TypeOK'
  <2>0. at[task] \in TaskState /\ at[task].turn \in Nat
    BY DEF TypeOK, TaskState
  <2>1. CASE Spawn(task)
    BY <2>0, <2>1, MoveTyped DEF Spawn, TypeOK
  <2>2. CASE SpawnFails(task)
    <3>1. turns' \in Seq(Turn)
      BY <2>0, <2>2, MarkTyped DEF SpawnFails, Fates
    <3>2. dropped' \subseteq Nat
      <4>1. \A i \in DOMAIN pending : pending[i] \in Nat
        BY LenProperties DEF TypeOK
      <4>2. QED
        BY <2>2, <4>1 DEF SpawnFails, Reset, AsksOf, TypeOK
    <3>3. fence' \in Nat /\ closed' \subseteq Nat
      BY <2>0, <2>2 DEF SpawnFails, FenceClose, TypeOK
    <3>4. at' \in [Tasks -> TaskState]
      BY <2>2, MoveTyped DEF SpawnFails
    <3>5. slot' = FALSE /\ pending' = <<>>
      BY <2>2 DEF SpawnFails, Reset
    <3>6. QED
      BY <1>1, <2>2, <3>1, <3>2, <3>3, <3>4, <3>5 DEF SpawnFails, TypeOK
  <2>3. CASE DegradeEnds(task)
    <3>1. rows' \in Seq(HistoryRow)
      BY <2>3, RecordTyped DEF DegradeEnds
    <3>2. at' \in [Tasks -> TaskState]
      BY <2>3, MoveTyped DEF DegradeEnds, Controls
    <3>3. QED
      BY <2>3, <3>1, <3>2 DEF DegradeEnds, TypeOK
  <2>4. CASE DegradedTurnEnds(task)
    <3>1. pending' = <<>> /\ slot' \in BOOLEAN /\ reapTask' = FALSE
      BY <2>4 DEF DegradedTurnEnds, Complete
    <3>2. CASE pending = <<>>
      BY <1>1, <2>4, <3>1, <3>2, MoveTyped DEF DegradedTurnEnds, TypeOK
    <3>3. CASE pending # <<>>
      <4>1. Begin(task, "owner", pending, 0)
        BY <2>4, <3>3 DEF DegradedTurnEnds
      <4>2. /\ turns' \in Seq(Turn) /\ cur' \in Stash /\ at' \in [Tasks -> TaskState]
            /\ fence' \in Nat /\ closed' \subseteq Nat
        BY <4>1, BeginTyped DEF Kinds, TypeOK
      <4>3. QED
        BY <1>1, <2>4, <3>1, <4>2 DEF DegradedTurnEnds, TypeOK
    <3>4. QED
      BY <3>2, <3>3
  <2>5. QED
    BY <1>13, <2>1, <2>2, <2>3, <2>4 DEF Resume
<1>14. CASE Fire
  <2> DEFINE s == [pc |-> "deliver", turn |-> armed, res |-> "fail", batch |-> <<>>]
  <2>1. s \in TaskState
    BY <1>1 DEF TypeOK, TaskState, Controls, Results
  <2>2. at' = [at EXCEPT !["watch"] = s]
    BY <1>14 DEF Fire
  <2>3. turns' \in Seq(Turn)
    BY <1>14, MarkTyped DEF Fire, Fates, TypeOK
  <2>4. fence' \in Nat /\ closed' \subseteq Nat
    BY <1>14 DEF Fire, FenceClose, TypeOK
  <2>5. armed' = 0 /\ UNCHANGED <<inbox, arbiterVars, cur, forkVars, storeVars, dropped, boundVars>>
    BY <1>14 DEF Fire
  <2> HIDE DEF s
  <2>6. QED
    BY <2>1, <2>2, <2>3, <2>4, <2>5 DEF TypeOK
<1>15. CASE Reap
  BY <1>15 DEF Reap, TypeOK
<1>16. CASE HubDelivers
  <2> PICK r \in wire : /\ wire' = wire \ {r}
                        /\ inbox' = Append(inbox, [kind |-> "result", id |-> r.id, res |-> r.res])
    BY <1>16 DEF HubDelivers
  <2> DEFINE env == [kind |-> "result", id |-> r.id, res |-> r.res]
  <2>1. env \in Envelope
    BY DEF TypeOK, Envelope
  <2> HIDE DEF env
  <2>2. QED
    BY <1>16, <2>1 DEF HubDelivers, TypeOK, env
<1>17. CASE OwnerAsks
  <2> DEFINE env == [kind |-> "ask", id |-> sent + 1, res |-> "none"]
  <2>1. env \in Envelope
    BY DEF TypeOK, Envelope
  <2>2. inbox' = Append(inbox, env) /\ sent' = sent + 1
    BY <1>17 DEF OwnerAsks
  <2> HIDE DEF env
  <2>3. QED
    BY <1>17, <2>1, <2>2 DEF OwnerAsks, TypeOK
<1>18. CASE OwnerTaps
  <2> PICK t \in offered : inbox' = Append(inbox, [kind |-> "tap", id |-> t, res |-> "none"])
    BY <1>18 DEF OwnerTaps
  <2> DEFINE env == [kind |-> "tap", id |-> t, res |-> "none"]
  <2>1. env \in Envelope
    BY DEF TypeOK, Envelope
  <2>2. inbox' = Append(inbox, env) /\ taps' = taps + 1
    BY <1>18 DEF OwnerTaps
  <2> HIDE DEF env
  <2>3. QED
    BY <1>18, <2>1, <2>2 DEF OwnerTaps, TypeOK
<1>19. CASE WorkerAnswers
  <2> PICK res \in Answers : wire' = wire \cup {[id |-> child, res |-> res]}
    BY <1>19 DEF WorkerAnswers
  <2>1. res \in Results
    BY BoundsAssumption DEF Results
  <2>2. wire' \subseteq [id : Nat, res : Results]
    BY <2>1 DEF TypeOK
  <2>3. QED
    BY <1>19, <2>2 DEF WorkerAnswers, TypeOK
<1>20. CASE Dispatch
  <2>1. Begin("scheduler", "auto", <<>>, 0)
    BY <1>20 DEF Dispatch
  <2>2. /\ turns' \in Seq(Turn) /\ cur' \in Stash /\ at' \in [Tasks -> TaskState]
        /\ fence' \in Nat /\ closed' \subseteq Nat
    BY <1>0, <1>1, <2>1, BeginTyped DEF Kinds
  <2>3. QED
    BY <1>20, <2>2 DEF Dispatch, TypeOK
<1>21. CASE UNCHANGED vars
  BY <1>21 DEF vars, TypeOK
<1>22. CASE Die
  <2>1. inbox' \in Seq(Envelope) /\ pending' \in Seq(Nat)
    BY <1>22, EmptySeq DEF Die
  <2>2. cur' \in Stash /\ at' \in [Tasks -> TaskState]
    BY <1>1, <1>22, RestingTyped DEF Die, NoStash, Stash, Kinds
  <2>3. turns' \in Seq(Turn)
    BY <1>22, DeathTyped
  <2>4. dropped' \subseteq Nat
    BY <1>22, WaitingTyped DEF Die, TypeOK
  <2>5. /\ slot' = FALSE /\ fence' = 0 /\ closed' = {} /\ armed' = 0
        /\ reapTask' = FALSE /\ guard' = FALSE /\ child' = 0 /\ wire' = {}
        /\ deaths' = deaths + 1 /\ UNCHANGED <<storeVars, sent, autos, taps>>
    BY <1>22 DEF Die
  <2>6. /\ parked' \subseteq [id : Nat, what : Parkable]
        /\ offered' \subseteq Nat /\ rows' \in Seq(HistoryRow)
    BY <2>5 DEF TypeOK
  <2>7. sent' \in Nat /\ autos' \in Nat /\ taps' \in Nat /\ deaths' \in Nat
    BY <2>5 DEF TypeOK
  <2>8. /\ slot' \in BOOLEAN /\ fence' \in Nat /\ closed' \subseteq Nat /\ armed' \in Nat
        /\ reapTask' \in BOOLEAN /\ guard' \in BOOLEAN /\ child' \in Nat
        /\ wire' \subseteq [id : Nat, res : Results]
    BY <2>5
  <2>9. QED
    BY <2>1, <2>2, <2>3, <2>4, <2>6, <2>7, <2>8 DEF TypeOK
<1>23. QED
  BY <1>2, <1>3, <1>4, <1>5, <1>6, <1>7, <1>8, <1>9, <1>10, <1>11, <1>12, <1>13, <1>14, <1>15,
     <1>16, <1>17, <1>18, <1>19, <1>20, <1>21, <1>22
  DEF Next, TakeEnvelope, ConsumerResumes, Environment, Rest

\* Every variable of the loop keeps its type: in particular a parked row always names
\* something an Approve tap knows how to act on, never a plain or a failed Result.
THEOREM TypeCorrect == Spec => []TypeOK
  BY InitTypeOK, NextTypeOK, PTL DEF Spec

-------------------------------------------------------------------------------
(* Who holds the slot *)

LEMMA InitIInv == Init => IInv
<1> SUFFICES ASSUME Init PROVE IInv
  OBVIOUS
<1>1. \A task \in Tasks : at[task].pc = "idle"
  BY RestingTyped DEF Init
<1>2. Answering = {0} /\ Len(turns) = 0
  BY DEF Init, Answering
<1>3. QED
  BY <1>1, <1>2, InitTypeOK
  DEF Init, IInv, SlotHasOneHolder, PendingIsAttended, StashIsMine, OpenTurnIsStashed,
      StartIsOpen, OpenTurnIsHeld, GuardIsHeld, NoEarlyResult, Holds

\* While the slot is free nothing of a turn is left: no timer, no task, no worker.
LEMMA FreeSlot ==
  ASSUME IInv, ~slot
  PROVE  armed = 0 /\ ~guard /\ \A task \in Tasks : ~Holds(task)
  BY DEF IInv, SlotHasOneHolder, GuardIsHeld, Holds

\* What holds the slot holds it alone, and the slot is taken.
LEMMA Alone ==
  ASSUME IInv, NEW task \in Tasks, Holds(task)
  PROVE  slot /\ armed = 0 /\ \A other \in Tasks \ {task} : ~Holds(other)
  BY DEF IInv, SlotHasOneHolder

\* At the end of its turn, and in the publication that follows it, the guard is down.
LEMMA GuardIsDown ==
  ASSUME IInv, NEW task \in Tasks, Holds(task),
         \/ at[task].pc \in {"start", "emit"}
         \/ at[task].pc = "reap" /\ ReapIsOver
  PROVE  ~guard
  BY Alone DEF IInv, GuardIsHeld, ReapIsOver, Holds

\* How a step of one task shows in at.
LEMMA Moves ==
  ASSUME TypeOK, NEW task \in Tasks
  PROVE  /\ Leave(task) =>
              /\ at'[task].pc = "idle"
              /\ \A other \in Tasks \ {task} : at'[other] = at[other]
         /\ \A control \in Controls : Goto(task, control) =>
              /\ at'[task].pc = control
              /\ at'[task].turn = at[task].turn
              /\ \A other \in Tasks \ {task} : at'[other] = at[other]
         /\ \A kind, asks, of : Begin(task, kind, asks, of) =>
              /\ at'[task].pc = "start" /\ at'[task].turn = Len(turns) + 1
              /\ \A other \in Tasks \ {task} : at'[other] = at[other]
  BY RestingTyped DEF TypeOK, TaskState, Leave, Goto, Begin

\* What is in a queue after an envelope is taken, or put, was in it before or is new.
LEMMA TailEntries ==
  ASSUME NEW S, NEW s \in Seq(S), s # <<>>
  PROVE  \A i \in DOMAIN Tail(s) : \E j \in DOMAIN s : Tail(s)[i] = s[j]
<1>1. /\ Tail(s) \in Seq(S) /\ Len(Tail(s)) = Len(s) - 1
      /\ \A i \in 1..Len(Tail(s)) : Tail(s)[i] = s[i + 1]
  BY HeadTailProperties
<1>2. DOMAIN Tail(s) = 1..Len(Tail(s)) /\ DOMAIN s = 1..Len(s) /\ Len(s) \in Nat
  BY <1>1, LenProperties
<1>3. \A i \in 1..Len(Tail(s)) : i + 1 \in 1..Len(s)
  BY <1>1, <1>2
<1>4. QED
  BY <1>1, <1>2, <1>3

LEMMA AppendEntries ==
  ASSUME NEW S, NEW s \in Seq(S), NEW e \in S
  PROVE  \A i \in DOMAIN Append(s, e) :
           Append(s, e)[i] = e \/ \E j \in DOMAIN s : Append(s, e)[i] = s[j]
<1>1. /\ Append(s, e) \in Seq(S) /\ Len(Append(s, e)) = Len(s) + 1
      /\ \A i \in 1..Len(s) : Append(s, e)[i] = s[i]
      /\ Append(s, e)[Len(s) + 1] = e
  BY AppendProperties
<1>2. DOMAIN Append(s, e) = 1..Len(Append(s, e)) /\ DOMAIN s = 1..Len(s) /\ Len(s) \in Nat
  BY <1>1, LenProperties
<1>3. \A i \in 1..Len(Append(s, e)) : i = Len(s) + 1 \/ i \in 1..Len(s)
  BY <1>1, <1>2
<1>4. QED
  BY <1>1, <1>2, <1>3

\* Answers only travel: from a worker to the wire, to the inbox, to the consumer.
LEMMA AnswersTravel ==
  ASSUME TypeOK, TypeOK', child' \in {child, 0},
         \/ inbox' = inbox /\ wire' \subseteq wire
         \/ inbox # <<>> /\ inbox' = Tail(inbox) /\ wire' = wire
         \/ \E env \in Envelope :
              inbox' = Append(inbox, env) /\ env.kind # "result" /\ wire' = wire
         \/ \E r \in wire : /\ inbox' = Append(inbox, [kind |-> "result", id |-> r.id, res |-> r.res])
                            /\ wire' = wire \ {r}
         \/ \E res \in Results : inbox' = inbox /\ wire' = wire \cup {[id |-> child, res |-> res]}
  PROVE  Answering' \subseteq Answering \cup {0}
<1>1. inbox \in Seq(Envelope)
  BY DEF TypeOK
<1>2. /\ child \in Answering /\ \A r \in wire : r.id \in Answering
      /\ \A i \in DOMAIN inbox : inbox[i].kind = "result" => inbox[i].id \in Answering
  BY DEF Answering
<1>3. \A r \in wire' : r.id \in Answering
  <2>1. CASE wire' \subseteq wire
    BY <1>2, <2>1
  <2>2. ASSUME NEW res \in Results, wire' = wire \cup {[id |-> child, res |-> res]}
        PROVE  \A r \in wire' : r.id \in Answering
    BY <1>2, <2>2
  <2>3. QED
    BY <2>1, <2>2
<1>4. \A i \in DOMAIN inbox' : inbox'[i].kind = "result" => inbox'[i].id \in Answering
  <2>1. CASE inbox' = inbox
    BY <1>2, <2>1
  <2>2. CASE inbox # <<>> /\ inbox' = Tail(inbox)
    <3>1. \A i \in DOMAIN inbox' : \E j \in DOMAIN inbox : inbox'[i] = inbox[j]
      BY <1>1, <2>2, TailEntries
    <3>2. QED
      BY <1>2, <3>1
  <2>3. ASSUME NEW env \in Envelope, inbox' = Append(inbox, env),
               env.kind = "result" => env.id \in Answering
        PROVE  \A i \in DOMAIN inbox' : inbox'[i].kind = "result" => inbox'[i].id \in Answering
    <3>1. \A i \in DOMAIN inbox' : inbox'[i] = env \/ \E j \in DOMAIN inbox : inbox'[i] = inbox[j]
      BY <1>1, <2>3, AppendEntries
    <3>2. QED
      BY <1>2, <2>3, <3>1
  <2>4. ASSUME NEW r \in wire, inbox' = Append(inbox, [kind |-> "result", id |-> r.id, res |-> r.res])
        PROVE  \A i \in DOMAIN inbox' : inbox'[i].kind = "result" => inbox'[i].id \in Answering
    <3> DEFINE env == [kind |-> "result", id |-> r.id, res |-> r.res]
    <3>1. env \in Envelope /\ env.id \in Answering
      BY <1>2 DEF TypeOK, Envelope
    <3>2. inbox' = Append(inbox, env)
      BY <2>4
    <3> HIDE DEF env
    <3>3. QED
      BY <2>3, <3>1, <3>2
  <2>5. QED
    BY <2>1, <2>2, <2>3, <2>4
<1>5. QED
  BY <1>2, <1>3, <1>4 DEF Answering

\* A step that leaves the tasks, the slot, the timer and the fence alone.
LEMMA QuietStep ==
  ASSUME IInv, TypeOK', UNCHANGED <<slot, cur, fence, armed, reapTask, at, turns>>,
         guard' => guard, pending' # <<>> => slot, Answering' \subseteq Answering \cup {0}
  PROVE  IInv'
<1>1. SlotHasOneHolder' /\ PendingIsAttended' /\ StashIsMine'
  BY DEF IInv, SlotHasOneHolder, PendingIsAttended, StashIsMine, Holds
<1>2. OpenTurnIsStashed' /\ StartIsOpen' /\ OpenTurnIsHeld' /\ GuardIsHeld'
  BY DEF IInv, OpenTurnIsStashed, StartIsOpen, OpenTurnIsHeld, GuardIsHeld
<1>3. NoEarlyResult'
  <2>1. Len(turns) \in Nat
    BY LenProperties DEF IInv, TypeOK
  <2>2. QED
    BY <2>1 DEF IInv, NoEarlyResult, StartIsOpen
<1>4. QED
  BY <1>1, <1>2, <1>3 DEF IInv

\* A task moves between two controls in which it does not hold the slot.
LEMMA BystanderStep ==
  ASSUME IInv, TypeOK', NEW task \in Tasks, ~Holds(task), ~Holds(task)',
         \A other \in Tasks \ {task} : at'[other] = at[other],
         UNCHANGED <<slot, pending, cur, fence, armed, reapTask, guard, turns>>,
         Answering' \subseteq Answering \cup {0}
  PROVE  IInv'
<1>1. \A t \in Tasks : Holds(t)' <=> Holds(t)
  BY DEF Holds
<1>2. \A t \in Tasks : \A c \in {"start", "deliver", "gate", "reap"} :
        at'[t].pc = c <=> at[t].pc = c
  BY DEF Holds
<1>3. at[task].pc \notin {"start", "deliver", "gate", "reap"}
  BY DEF Holds
<1>4. SlotHasOneHolder' /\ PendingIsAttended' /\ StashIsMine'
  BY <1>1, <1>2, <1>3 DEF IInv, SlotHasOneHolder, PendingIsAttended, StashIsMine
<1>5. OpenTurnIsStashed' /\ StartIsOpen' /\ OpenTurnIsHeld' /\ GuardIsHeld'
  BY <1>2, <1>3 DEF IInv, OpenTurnIsStashed, StartIsOpen, OpenTurnIsHeld, GuardIsHeld
<1>6. NoEarlyResult'
  <2>1. Len(turns) \in Nat
    BY LenProperties DEF IInv, TypeOK
  <2>2. QED
    BY <1>2, <1>3, <2>1 DEF IInv, NoEarlyResult, StartIsOpen
<1>7. QED
  BY <1>4, <1>5, <1>6 DEF IInv

\* A turn begins on a slot nobody else holds.
LEMMA BeginStep ==
  ASSUME IInv, TypeOK', NEW task \in Tasks, NEW kind, NEW asks, NEW of,
         Begin(task, kind, asks, of),
         slot', armed = 0, ~guard, \A other \in Tasks \ {task} : ~Holds(other),
         armed' = armed, guard' = guard, Answering' \subseteq Answering \cup {0}
  PROVE  IInv'
<1> DEFINE t == Len(turns) + 1
<1>1. Len(turns) \in Nat
  BY LenProperties DEF IInv, TypeOK
<1>2. /\ at'[task].pc = "start" /\ at'[task].turn = t
      /\ \A other \in Tasks \ {task} : at'[other] = at[other]
  BY Moves DEF IInv
<1>3. Len(turns') = t /\ fence' = t /\ cur'.id = t
  <2>1. turns \in Seq(Turn)
    BY DEF IInv, TypeOK
  <2>2. Len(turns') = t
    BY <2>1 DEF Begin
  <2>3. QED
    BY <2>2 DEF Begin, FenceOpen
<1>4. \A other \in Tasks \ {task} : ~Holds(other)' /\ at'[other].pc \notin {"start", "deliver", "gate", "reap"}
  BY <1>2 DEF Holds
<1>5. SlotHasOneHolder' /\ PendingIsAttended' /\ StashIsMine'
  BY <1>2, <1>4 DEF SlotHasOneHolder, PendingIsAttended, StashIsMine, Holds
<1>6. OpenTurnIsStashed' /\ StartIsOpen' /\ OpenTurnIsHeld' /\ GuardIsHeld'
  BY <1>1, <1>2, <1>3, <1>4 DEF OpenTurnIsStashed, StartIsOpen, OpenTurnIsHeld, GuardIsHeld
<1>7. NoEarlyResult'
  <2>1. \A u \in Answering' : u \in Nat /\ u <= Len(turns)
    <3>1. \A u \in Answering : u \in Nat
      <4>1. \A i \in DOMAIN inbox : inbox[i] \in Envelope
        BY LenProperties DEF IInv, TypeOK
      <4>2. QED
        BY <4>1 DEF IInv, TypeOK, Answering, Envelope
    <3>2. QED
      BY <1>1, <3>1 DEF IInv, NoEarlyResult
  <2>2. QED
    BY <1>1, <1>2, <1>3, <1>4, <2>1 DEF NoEarlyResult
<1>8. QED
  BY <1>5, <1>6, <1>7 DEF IInv

\* The open turn is taken from its timer by the task that will finish it.
LEMMA CloseStep ==
  ASSUME IInv, TypeOK', NEW task \in Tasks, fence # 0, armed # 0,
         armed' = 0, fence' = 0,
         at'[task].pc = "deliver", at'[task].turn = fence,
         \A other \in Tasks \ {task} : at'[other] = at[other],
         UNCHANGED <<slot, pending, cur, reapTask, guard>>, Len(turns') = Len(turns),
         Answering' \subseteq Answering \cup {0}
  PROVE  IInv'
<1>1. slot /\ \A t \in Tasks : ~Holds(t)
  BY Alone DEF IInv, SlotHasOneHolder
<1>2. \A other \in Tasks \ {task} : ~Holds(other)' /\ at'[other].pc \notin {"start", "deliver", "gate", "reap"}
  BY <1>1 DEF Holds
<1>3. SlotHasOneHolder' /\ PendingIsAttended'
  BY <1>1, <1>2 DEF SlotHasOneHolder, PendingIsAttended, Holds
<1>4. StashIsMine'
  BY <1>2 DEF IInv, StashIsMine, OpenTurnIsStashed
<1>5. OpenTurnIsStashed' /\ StartIsOpen' /\ OpenTurnIsHeld' /\ GuardIsHeld'
  BY <1>2 DEF IInv, OpenTurnIsStashed, StartIsOpen, OpenTurnIsHeld, GuardIsHeld
<1>6. NoEarlyResult'
  <2>1. Len(turns) \in Nat
    BY LenProperties DEF IInv, TypeOK
  <2>2. QED
    BY <1>2, <2>1 DEF IInv, NoEarlyResult
<1>7. QED
  BY <1>3, <1>4, <1>5, <1>6 DEF IInv

\* The task that finishes a turn goes on to its gate or its reap.
LEMMA FinishStep ==
  ASSUME IInv, TypeOK', NEW task \in Tasks, NEW control \in {"gate", "reap"},
         at[task].pc \in {"deliver", "gate"}, Goto(task, control),
         UNCHANGED <<inbox, slot, pending, fence, cur, armed, forkVars, turns>>
  PROVE  IInv'
<1>1. /\ at'[task].pc = control /\ at'[task].turn = at[task].turn
      /\ \A other \in Tasks \ {task} : at'[other] = at[other]
  BY Moves DEF IInv, Controls
<1>2. \A t \in Tasks : /\ Holds(t)' <=> Holds(t)
                       /\ at'[t].pc = "start" <=> at[t].pc = "start"
                       /\ at'[t].turn = at[t].turn
                       /\ at[t].pc \in {"deliver", "gate", "reap"} <=> at'[t].pc \in {"deliver", "gate", "reap"}
                       /\ at'[t].pc \in {"deliver", "gate"} => at[t].pc \in {"deliver", "gate"}
  BY <1>1 DEF Holds
<1>3. SlotHasOneHolder' /\ PendingIsAttended' /\ StashIsMine'
  BY <1>2 DEF IInv, SlotHasOneHolder, PendingIsAttended, StashIsMine
<1>4. OpenTurnIsStashed' /\ StartIsOpen' /\ OpenTurnIsHeld' /\ GuardIsHeld'
  BY <1>2 DEF IInv, OpenTurnIsStashed, StartIsOpen, OpenTurnIsHeld, GuardIsHeld, forkVars
<1>5. NoEarlyResult'
  BY <1>2 DEF IInv, NoEarlyResult, Answering, forkVars
<1>6. QED
  BY <1>3, <1>4, <1>5 DEF IInv

\* A task gives up the slot, or keeps it through the publication that follows.
LEMMA ReleaseStep ==
  ASSUME IInv, TypeOK', NEW task \in Tasks, Holds(task), ~guard, pending' = <<>>,
         at'[task].pc \in {"idle", "emit"},
         slot' <=> (at'[task].pc = "emit" /\ at'[task].batch # <<>>),
         \A other \in Tasks \ {task} : at'[other] = at[other],
         fence' \in {fence, 0}, at[task].pc = "start" => fence' = 0,
         UNCHANGED <<cur, armed, guard>>, Len(turns') = Len(turns),
         Answering' \subseteq Answering \cup {0}
  PROVE  IInv'
<1>1. armed = 0 /\ \A other \in Tasks \ {task} : ~Holds(other)
  BY Alone
<1>2. \A other \in Tasks \ {task} :
        ~Holds(other)' /\ at[other].pc # "start" /\ at'[other].pc \notin {"start", "deliver", "gate", "reap"}
  BY <1>1 DEF Holds
<1>3. SlotHasOneHolder' /\ PendingIsAttended' /\ StashIsMine'
  BY <1>1, <1>2 DEF SlotHasOneHolder, PendingIsAttended, StashIsMine, Holds
<1>4. fence' = 0
  BY <1>1, <1>2 DEF IInv, OpenTurnIsHeld
<1>5. OpenTurnIsStashed' /\ StartIsOpen' /\ OpenTurnIsHeld' /\ GuardIsHeld'
  BY <1>2, <1>4 DEF OpenTurnIsStashed, StartIsOpen, OpenTurnIsHeld, GuardIsHeld
<1>6. NoEarlyResult'
  <2>1. Len(turns) \in Nat
    BY LenProperties DEF IInv, TypeOK
  <2>2. QED
    BY <1>2, <2>1 DEF IInv, NoEarlyResult
<1>7. QED
  BY <1>3, <1>5, <1>6 DEF IInv

LEMMA NextIInv == IInv /\ [Next]_vars => IInv'
<1> SUFFICES ASSUME IInv, [Next]_vars PROVE IInv'
  OBVIOUS
<1> USE DEF arbiterVars, fenceVars, forkVars, storeVars, boundVars, NoTurnBegins
<1>0. "consumer" \in Tasks /\ "watch" \in Tasks /\ "scheduler" \in Tasks
  BY DEF Tasks
<1>1. TypeOK /\ TypeOK'
  BY NextTypeOK DEF IInv
<1>2. CASE Admit
  <2>1. inbox # <<>> /\ inbox' = Tail(inbox) /\ UNCHANGED <<child, wire>>
    BY <1>2 DEF Admit, Take
  <2>2. Answering' \subseteq Answering \cup {0}
    BY <1>1, <2>1, AnswersTravel
  <2>3. Begin("consumer", "owner", <<Head(inbox).id>>, 0) /\ slot' /\ ~slot /\ armed' = armed /\ guard' = guard
    BY <1>2 DEF Admit
  <2>4. QED
    BY <1>0, <1>1, <2>2, <2>3, FreeSlot, BeginStep
<1>3. CASE Coalesce
  <2>1. inbox # <<>> /\ inbox' = Tail(inbox) /\ UNCHANGED <<child, wire>>
    BY <1>3 DEF Coalesce, Take
  <2>2. Answering' \subseteq Answering \cup {0}
    BY <1>1, <2>1, AnswersTravel
  <2>3. QED
    BY <1>1, <1>3, <2>2, QuietStep DEF Coalesce
<1>4. CASE TakeResult
  <2> DEFINE id == Head(inbox).id
  <2>1. inbox # <<>> /\ inbox' = Tail(inbox) /\ UNCHANGED <<child, wire>>
    BY <1>4 DEF TakeResult, Take
  <2>2. Answering' \subseteq Answering \cup {0}
    BY <1>1, <2>1, AnswersTravel
  <2>3. id \in Nat /\ Head(inbox).kind = "result" /\ Head(inbox) \in Envelope
    BY <1>1, <1>4, TakeTyped DEF TakeResult
  <2>4. fence = id /\ id # 0 /\ fence' = 0 /\ armed' = 0
    BY <1>4 DEF TakeResult, Accepts, FenceClose
  <2>5. id \in Answering
    <3>1. 1 \in DOMAIN inbox /\ inbox[1] = Head(inbox)
      BY <1>1, <2>1, EmptySeq, LenProperties DEF TypeOK
    <3>2. QED
      BY <2>3, <3>1 DEF Answering
  <2>6. armed # 0
    BY <2>4, <2>5 DEF IInv, OpenTurnIsHeld, StartIsOpen, NoEarlyResult
  <2>7. /\ at'["consumer"].pc = "deliver" /\ at'["consumer"].turn = id
        /\ \A other \in Tasks \ {"consumer"} : at'[other] = at[other]
    <3> DEFINE s == [pc |-> "deliver", turn |-> id, res |-> Head(inbox).res, batch |-> <<>>]
    <3>1. at' = [at EXCEPT !["consumer"] = s]
      BY <1>4 DEF TakeResult
    <3>2. QED
      BY <1>0, <1>1, <3>1 DEF TypeOK
  <2>8. Len(turns') = Len(turns)
    BY <1>1, <1>4, <2>3, MarkTyped DEF TakeResult, Fates
  <2>9. UNCHANGED <<slot, pending, cur, reapTask, guard>>
    BY <1>4 DEF TakeResult
  <2>10. QED
    BY <1>0, <1>1, <2>2, <2>4, <2>6, <2>7, <2>8, <2>9, CloseStep
<1>5. CASE DiscardResult
  <2>1. inbox # <<>> /\ inbox' = Tail(inbox) /\ UNCHANGED <<child, wire>>
    BY <1>5 DEF DiscardResult, Take
  <2>2. Answering' \subseteq Answering \cup {0}
    BY <1>1, <2>1, AnswersTravel
  <2>3. QED
    BY <1>1, <1>5, <2>2, QuietStep DEF DiscardResult, IInv, PendingIsAttended
<1>6. CASE TapAnswered
  <2>1. inbox # <<>> /\ inbox' = Tail(inbox) /\ UNCHANGED <<child, wire>>
    BY <1>6 DEF TapAnswered, Take
  <2>2. Answering' \subseteq Answering \cup {0}
    BY <1>1, <2>1, AnswersTravel
  <2>3. /\ at["consumer"].pc = "idle" /\ at'["consumer"].pc = "note"
        /\ \A other \in Tasks \ {"consumer"} : at'[other] = at[other]
    BY <1>0, <1>1, <1>6, Moves DEF TapAnswered, Take, Controls
  <2>4. UNCHANGED <<slot, pending, cur, fence, armed, reapTask, guard, turns>>
    BY <1>6 DEF TapAnswered
  <2>5. QED
    BY <1>0, <1>1, <2>2, <2>3, <2>4, BystanderStep DEF Holds
<1>7. CASE TapResumes
  <2>1. inbox # <<>> /\ inbox' = Tail(inbox) /\ UNCHANGED <<child, wire>>
    BY <1>7 DEF TapResumes, Take
  <2>2. Answering' \subseteq Answering \cup {0}
    BY <1>1, <2>1, AnswersTravel
  <2>3. Begin("consumer", "resume", <<>>, Head(inbox).id) /\ slot' /\ ~slot /\ armed' = armed /\ guard' = guard
    BY <1>7 DEF TapResumes
  <2>4. QED
    BY <1>0, <1>1, <2>2, <2>3, FreeSlot, BeginStep
<1>8. CASE ReplyEnds
  <2>1. /\ at["consumer"].pc = "deliver"
        /\ Goto("consumer", "gate") \/ Goto("consumer", "reap")
        /\ UNCHANGED <<inbox, slot, pending, fence, cur, armed, forkVars, turns>>
    BY <1>8 DEF ReplyEnds
  <2>2. QED
    BY <1>0, <1>1, <2>1, FinishStep
<1>9. CASE GateEnds
  <2>1. /\ at["consumer"].pc = "gate" /\ Goto("consumer", "reap")
        /\ UNCHANGED <<inbox, slot, pending, fence, cur, armed, forkVars, turns>>
    BY <1>9 DEF GateEnds
  <2>2. QED
    BY <1>0, <1>1, <2>1, FinishStep
<1>10. CASE AnsweredTurnEnds
  <2>1. Holds("consumer") /\ ~guard
    BY <1>0, <1>10, GuardIsDown DEF AnsweredTurnEnds, Holds
  <2>2. /\ at'["consumer"].pc = "emit" /\ at'["consumer"].batch = pending
        /\ \A other \in Tasks \ {"consumer"} : at'[other] = at[other]
    <3>1. at' = [at EXCEPT !["consumer"].pc = "emit", !["consumer"].batch = pending]
      BY <1>10 DEF AnsweredTurnEnds
    <3>2. QED
      BY <1>0, <1>1, <3>1 DEF TypeOK, TaskState
  <2>3. /\ slot' = (pending # <<>>) /\ pending' = <<>>
        /\ UNCHANGED <<inbox, child, wire, fence, cur, armed, guard, turns>>
    BY <1>10 DEF AnsweredTurnEnds, Complete
  <2>4. Answering' = Answering
    BY <2>3 DEF Answering
  <2>5. at["consumer"].pc # "start"
    BY <1>10 DEF AnsweredTurnEnds
  <2>6. QED
    BY <1>0, <1>1, <2>1, <2>2, <2>3, <2>4, <2>5, ReleaseStep
<1>11. CASE EmitEnds
  <2>1. at["consumer"].pc = "emit" /\ UNCHANGED <<inbox, slot, pending, armed, forkVars>>
    BY <1>11 DEF EmitEnds
  <2>2. Answering' = Answering
    BY <2>1 DEF Answering
  <2>3. CASE at["consumer"].batch = <<>>
    <3>1. Leave("consumer") /\ UNCHANGED <<turns, cur, fence>>
      BY <1>11, <2>3 DEF EmitEnds
    <3>2. /\ at'["consumer"].pc = "idle"
          /\ \A other \in Tasks \ {"consumer"} : at'[other] = at[other]
      BY <1>0, <1>1, <3>1, Moves
    <3>3. QED
      BY <1>0, <1>1, <2>1, <2>2, <2>3, <3>1, <3>2, BystanderStep DEF Holds
  <2>4. CASE at["consumer"].batch # <<>>
    <3>1. Holds("consumer") /\ Begin("consumer", "owner", at["consumer"].batch, 0)
      BY <1>11, <2>1, <2>4 DEF EmitEnds, Holds
    <3>2. slot /\ armed = 0 /\ ~guard /\ \A other \in Tasks \ {"consumer"} : ~Holds(other)
      BY <1>0, <2>1, <3>1, Alone, GuardIsDown
    <3>3. QED
      BY <1>0, <1>1, <2>1, <2>2, <3>1, <3>2, BeginStep
  <2>5. QED
    BY <2>3, <2>4
<1>12. CASE NoteSent
  <2>1. /\ at["consumer"].pc = "note" /\ Leave("consumer")
        /\ UNCHANGED <<inbox, slot, pending, cur, fence, armed, forkVars, turns>>
    BY <1>12 DEF NoteSent
  <2>2. /\ at'["consumer"].pc = "idle"
        /\ \A other \in Tasks \ {"consumer"} : at'[other] = at[other]
    BY <1>0, <1>1, <2>1, Moves
  <2>3. QED
    BY <1>0, <1>1, <2>1, <2>2, BystanderStep DEF Holds, Answering
<1>13. ASSUME NEW task \in Tasks, Resume(task) PROVE IInv'
  <2>0. at[task].turn \in Nat
    BY <1>1 DEF TypeOK, TaskState
  <2>1. CASE Spawn(task)
    <3>1. /\ at[task].pc = "start" /\ Leave(task) /\ guard' /\ reapTask'
          /\ armed' = at[task].turn /\ child' = at[task].turn
          /\ UNCHANGED <<inbox, slot, pending, wire, turns, cur, fence>>
      BY <2>1 DEF Spawn
    <3>2. at[task].turn # 0 /\ at[task].turn = fence
      BY <3>1 DEF IInv, StartIsOpen
    <3>3. slot /\ \A other \in Tasks \ {task} : ~Holds(other)
      BY <3>1, Alone DEF Holds
    <3>4. \A t \in Tasks : ~Holds(t)' /\ at'[t].pc \notin {"start", "deliver", "gate", "reap"}
      <4>1. /\ at'[task].pc = "idle"
            /\ \A other \in Tasks \ {task} : at'[other] = at[other]
        BY <1>1, <3>1, Moves
      <4>2. QED
        BY <3>3, <4>1 DEF Holds
    <3>5. SlotHasOneHolder' /\ PendingIsAttended' /\ StashIsMine'
      BY <3>1, <3>2, <3>3, <3>4 DEF SlotHasOneHolder, PendingIsAttended, StashIsMine
    <3>6. OpenTurnIsStashed' /\ StartIsOpen' /\ OpenTurnIsHeld' /\ GuardIsHeld'
      BY <3>1, <3>2, <3>4 DEF IInv, OpenTurnIsStashed, StartIsOpen, OpenTurnIsHeld, GuardIsHeld
    <3>7. NoEarlyResult'
      <4>1. Answering' \subseteq Answering \cup {at[task].turn}
        BY <3>1 DEF Answering
      <4>2. QED
        BY <3>1, <3>4, <4>1 DEF IInv, NoEarlyResult
    <3>8. QED
      BY <1>1, <3>5, <3>6, <3>7 DEF IInv
  <2>2. CASE SpawnFails(task)
    <3>1. at[task].pc = "start" /\ Holds(task) /\ ~guard
      BY <2>2, GuardIsDown DEF SpawnFails, Holds
    <3>2. fence = at[task].turn /\ fence' = 0
      BY <2>2, <3>1 DEF IInv, StartIsOpen, SpawnFails, FenceClose
    <3>3. /\ at'[task].pc = "idle"
          /\ \A other \in Tasks \ {task} : at'[other] = at[other]
      BY <1>1, <2>2, Moves DEF SpawnFails
    <3>4. Len(turns') = Len(turns)
      BY <1>1, <2>0, <2>2, MarkTyped DEF SpawnFails, Fates
    <3>5. ~slot' /\ pending' = <<>> /\ UNCHANGED <<inbox, cur, armed, forkVars>>
      BY <2>2 DEF SpawnFails, Reset
    <3>6. QED
      BY <1>1, <3>1, <3>2, <3>3, <3>4, <3>5, ReleaseStep DEF Answering
  <2>3. CASE DegradeEnds(task)
    <3>1. /\ at[task].pc = "deliver" /\ Goto(task, "reap")
          /\ UNCHANGED <<inbox, slot, pending, fence, cur, armed, forkVars, turns>>
      BY <2>3 DEF DegradeEnds
    <3>2. QED
      BY <1>1, <3>1, FinishStep
  <2>4. CASE DegradedTurnEnds(task)
    <3>1. Holds(task) /\ ~guard /\ at[task].pc = "reap"
      BY <2>4, GuardIsDown DEF DegradedTurnEnds, Holds
    <3>2. armed = 0 /\ \A other \in Tasks \ {task} : ~Holds(other)
      BY <3>1, Alone
    <3>3. /\ slot' = (pending # <<>>) /\ pending' = <<>>
          /\ UNCHANGED <<inbox, child, wire, armed, guard>>
      BY <2>4 DEF DegradedTurnEnds, Complete
    <3>4. Answering' = Answering
      BY <3>3 DEF Answering
    <3>5. CASE pending = <<>>
      <4>1. Leave(task) /\ UNCHANGED <<turns, cur, fence>>
        BY <2>4, <3>5 DEF DegradedTurnEnds
      <4>2. /\ at'[task].pc = "idle"
            /\ \A other \in Tasks \ {task} : at'[other] = at[other]
        BY <1>1, <4>1, Moves
      <4>3. QED
        BY <1>1, <3>1, <3>3, <3>4, <3>5, <4>1, <4>2, ReleaseStep
    <3>6. CASE pending # <<>>
      <4>1. Begin(task, "owner", pending, 0)
        BY <2>4, <3>6 DEF DegradedTurnEnds
      <4>2. QED
        BY <1>1, <3>1, <3>2, <3>3, <3>4, <3>6, <4>1, BeginStep
    <3>7. QED
      BY <3>5, <3>6
  <2>5. QED
    BY <1>13, <2>1, <2>2, <2>3, <2>4 DEF Resume
<1>14. CASE Fire
  <2>1. /\ fence # 0 /\ armed # 0 /\ armed = fence /\ fence' = 0 /\ armed' = 0
        /\ UNCHANGED <<inbox, slot, pending, cur, forkVars>>
    BY <1>14 DEF Fire, FenceClose
  <2>2. /\ at'["watch"].pc = "deliver" /\ at'["watch"].turn = armed
        /\ \A other \in Tasks \ {"watch"} : at'[other] = at[other]
    <3> DEFINE s == [pc |-> "deliver", turn |-> armed, res |-> "fail", batch |-> <<>>]
    <3>1. at' = [at EXCEPT !["watch"] = s]
      BY <1>14 DEF Fire
    <3>2. QED
      BY <1>0, <1>1, <3>1 DEF TypeOK
  <2>3. Len(turns') = Len(turns)
    BY <1>1, <1>14, MarkTyped DEF Fire, Fates, TypeOK
  <2>4. Answering' = Answering
    BY <2>1 DEF Answering
  <2>5. QED
    BY <1>0, <1>1, <2>1, <2>2, <2>3, <2>4, CloseStep
<1>15. CASE Reap
  <2>1. Answering' \subseteq Answering \cup {0}
    BY <1>1, <1>15, AnswersTravel DEF Reap
  <2>2. QED
    BY <1>1, <1>15, <2>1, QuietStep DEF Reap, IInv, PendingIsAttended
<1>16. CASE HubDelivers
  <2>1. Answering' \subseteq Answering \cup {0}
    BY <1>1, <1>16, AnswersTravel DEF HubDelivers
  <2>2. QED
    BY <1>1, <1>16, <2>1, QuietStep DEF HubDelivers, IInv, PendingIsAttended
<1>17. CASE OwnerAsks
  <2> DEFINE env == [kind |-> "ask", id |-> sent + 1, res |-> "none"]
  <2>1. env \in Envelope /\ env.kind # "result"
    BY <1>1 DEF TypeOK, Envelope
  <2>2. inbox' = Append(inbox, env) /\ UNCHANGED <<child, wire>>
    BY <1>17 DEF OwnerAsks
  <2> HIDE DEF env
  <2>3. Answering' \subseteq Answering \cup {0}
    BY <1>1, <2>1, <2>2, AnswersTravel
  <2>4. QED
    BY <1>1, <1>17, <2>3, QuietStep DEF OwnerAsks, IInv, PendingIsAttended
<1>18. CASE OwnerTaps
  <2> PICK t \in offered : inbox' = Append(inbox, [kind |-> "tap", id |-> t, res |-> "none"])
    BY <1>18 DEF OwnerTaps
  <2> DEFINE env == [kind |-> "tap", id |-> t, res |-> "none"]
  <2>1. env \in Envelope /\ env.kind # "result"
    BY <1>1 DEF TypeOK, Envelope
  <2>2. inbox' = Append(inbox, env) /\ UNCHANGED <<child, wire>>
    BY <1>18 DEF OwnerTaps
  <2> HIDE DEF env
  <2>3. Answering' \subseteq Answering \cup {0}
    BY <1>1, <2>1, <2>2, AnswersTravel
  <2>4. QED
    BY <1>1, <1>18, <2>3, QuietStep DEF OwnerTaps, IInv, PendingIsAttended
<1>19. CASE WorkerAnswers
  <2>1. Answering' \subseteq Answering \cup {0}
    <3>1. Answers \subseteq Results
      BY BoundsAssumption DEF Results
    <3>2. QED
      BY <1>1, <1>19, <3>1, AnswersTravel DEF WorkerAnswers
  <2>2. QED
    BY <1>1, <1>19, <2>1, QuietStep DEF WorkerAnswers, IInv, PendingIsAttended
<1>20. CASE Dispatch
  <2>1. Begin("scheduler", "auto", <<>>, 0) /\ slot' /\ ~slot /\ UNCHANGED <<inbox, armed, forkVars>>
    BY <1>20 DEF Dispatch
  <2>2. Answering' = Answering
    BY <2>1 DEF Answering
  <2>3. QED
    BY <1>0, <1>1, <2>1, <2>2, FreeSlot, BeginStep
<1>21. CASE UNCHANGED vars
  <2>1. Answering' = Answering
    BY <1>21 DEF vars, Answering
  <2>2. QED
    BY <1>1, <1>21, <2>1, QuietStep DEF vars, IInv, PendingIsAttended
<1>22. CASE Die
  <2>1. \A task \in Tasks : at'[task].pc = "idle"
    BY <1>22, RestingTyped DEF Die
  <2>2. Answering' = {0}
    BY <1>22 DEF Die, Answering
  <2>3. Len(turns') \in Nat
    BY <1>1, LenProperties DEF TypeOK
  <2>4. /\ ~slot' /\ pending' = <<>> /\ fence' = 0 /\ armed' = 0 /\ ~guard'
    BY <1>22 DEF Die
  <2>5. QED
    BY <1>1, <2>1, <2>2, <2>3, <2>4
    DEF IInv, SlotHasOneHolder, PendingIsAttended, StashIsMine, OpenTurnIsStashed,
        StartIsOpen, OpenTurnIsHeld, GuardIsHeld, NoEarlyResult, Holds
<1>23. QED
  BY <1>2, <1>3, <1>4, <1>5, <1>6, <1>7, <1>8, <1>9, <1>10, <1>11, <1>12, <1>13, <1>14, <1>15,
     <1>16, <1>17, <1>18, <1>19, <1>20, <1>21, <1>22
  DEF Next, TakeEnvelope, ConsumerResumes, Environment, Rest

LEMMA IInvCorrect == Spec => []IInv
  BY InitIInv, NextIInv, PTL DEF Spec

\* The arbiter slot is reserved exactly while one task or one timer will release it.
THEOREM SlotSafe == Spec => []SlotHasOneHolder
<1>1. IInv => SlotHasOneHolder
  BY DEF IInv
<1>2. QED
  BY <1>1, IInvCorrect, PTL

\* No turn is spawned into a fork-server that still counts a worker: the reap is always
\* over before the slot is handed on.
THEOREM SpawnSafe == Spec => []SpawnMeetsFreeGuard
<1>1. IInv => SpawnMeetsFreeGuard
  BY GuardIsDown DEF SpawnMeetsFreeGuard, Holds
<1>2. QED
  BY <1>1, IInvCorrect, PTL

\* Whoever finishes a turn finds that turn in the stash, after any number of awaits.
THEOREM StashSafe == Spec => []StashIsMine
<1>1. IInv => StashIsMine
  BY DEF IInv
<1>2. QED
  BY <1>1, IInvCorrect, PTL

\* A message folded behind a turn is never left without a turn to fold behind.
THEOREM PendingSafe == Spec => []PendingIsAttended
<1>1. IInv => PendingIsAttended
  BY DEF IInv
<1>2. QED
  BY <1>1, IInvCorrect, PTL

-------------------------------------------------------------------------------
(***************************************************************************)
(* The history and the approvals: no turn is recorded under another's      *)
(* words, and one approval resumes one turn.  Both rest on IInv, for the   *)
(* task that finishes a turn is alone.                                     *)
(***************************************************************************)

(* The inductive invariant of the history *)

\* The stash is that of the latest turn, or nobody's after a death.
StashIsLatest ==
  /\ cur.id \in {0, Len(turns)}
  /\ cur.id # 0 => turns[cur.id].asks = cur.asks /\ turns[cur.id].kind = cur.kind

\* The turn behind the fence is still to be decided.
OpenIsOpen == fence # 0 => turns[fence].fate = "open"

FateOf(res) == IF res = "fail" THEN "degraded" ELSE "answered"

\* A task that finishes a turn finishes it the way it was decided.
FinisherKnowsFate ==
  \A task \in Tasks :
    /\ at[task].pc \in {"deliver", "gate"} => at[task].turn # 0
    /\ at[task].pc = "deliver" => turns[at[task].turn].fate = FateOf(at[task].res)

\* A turn that may still be recorded has no row, nor has a later one.
RowIsDue ==
  (fence # 0 \/ \E task \in Tasks : at[task].pc = "deliver") =>
    \A i \in DOMAIN rows : rows[i].turn < cur.id

RowsBegan == \A i \in DOMAIN rows : rows[i].turn \in TurnIds

HInv ==
  /\ StashIsLatest /\ OpenIsOpen /\ FinisherKnowsFate
  /\ RowIsDue /\ RowsBegan /\ HistoryIsFaithful

-------------------------------------------------------------------------------
(* What becomes of the turns in a step *)

\* Turns are only added, and what was decided of one stays.
TurnsKept ==
  /\ Len(turns) <= Len(turns')
  /\ \A t \in TurnIds :
       /\ turns'[t].asks = turns[t].asks /\ turns'[t].kind = turns[t].kind
       /\ turns'[t].of = turns[t].of
       /\ turns[t].fate \in {"answered", "degraded"} => turns'[t].fate = turns[t].fate

LEMMA TurnsTyped ==
  ASSUME TypeOK
  PROVE  /\ turns \in Seq(Turn) /\ Len(turns) \in Nat /\ DOMAIN turns = TurnIds
         /\ \A t \in TurnIds : turns[t] \in Turn /\ t \in Nat /\ t # 0
         /\ rows \in Seq(HistoryRow) /\ Len(rows) \in Nat /\ DOMAIN rows = 1..Len(rows)
  BY LenProperties, ElementOfSeq DEF TypeOK, TurnIds

LEMMA SameTurns ==
  ASSUME TypeOK, turns' = turns
  PROVE  TurnsKept
  BY TurnsTyped DEF TurnsKept

LEMMA BeginKeepsTurns ==
  ASSUME TypeOK, NEW task \in Tasks, NEW kind \in Kinds, NEW asks \in Seq(Nat), NEW of \in Nat,
         Begin(task, kind, asks, of)
  PROVE  /\ TurnsKept /\ Len(turns') = Len(turns) + 1
         /\ turns'[Len(turns) + 1] = [kind |-> kind, asks |-> asks, of |-> of, fate |-> "open"]
<1> DEFINE r == [kind |-> kind, asks |-> asks, of |-> of, fate |-> "open"]
<1>1. r \in Turn
  BY DEF Turn, Fates
<1>2. turns' = Append(turns, r)
  BY DEF Begin
<1> HIDE DEF r
<1>3. /\ Len(turns') = Len(turns) + 1 /\ turns'[Len(turns) + 1] = r
      /\ \A t \in 1..Len(turns) : turns'[t] = turns[t]
  BY <1>1, <1>2, TurnsTyped, AppendProperties
<1>4. TurnsKept
  BY <1>3, TurnsTyped DEF TurnsKept, TurnIds
<1>5. QED
  BY <1>3, <1>4 DEF r

\* Deciding the open turn.
LEMMA MarkKeepsTurns ==
  ASSUME TypeOK, NEW t \in TurnIds, turns[t].fate = "open", NEW fate \in Fates, Mark(t, fate)
  PROVE  TurnsKept /\ Len(turns') = Len(turns) /\ turns'[t].fate = fate
<1>1. Len(turns') = Len(turns)
  BY TurnsTyped, MarkTyped
<1>2. /\ turns'[t] = [turns[t] EXCEPT !.fate = fate]
      /\ \A u \in TurnIds : u # t => turns'[u] = turns[u]
  BY TurnsTyped DEF Mark
<1>3. turns[t] \in Turn
  BY TurnsTyped
<1>4. /\ turns'[t].asks = turns[t].asks /\ turns'[t].kind = turns[t].kind
      /\ turns'[t].of = turns[t].of /\ turns'[t].fate = fate
  BY <1>2, <1>3 DEF Turn
<1>5. TurnsKept
  <2>1. ASSUME NEW u \in TurnIds
        PROVE  /\ turns'[u].asks = turns[u].asks /\ turns'[u].kind = turns[u].kind
               /\ turns'[u].of = turns[u].of
               /\ turns[u].fate \in {"answered", "degraded"} => turns'[u].fate = turns[u].fate
    <3>1. CASE u = t
      BY <1>4, <3>1
    <3>2. CASE u # t
      <4>1. turns'[u] = turns[u]
        BY <1>2, <3>2
      <4>2. QED
        BY <4>1
    <3>3. QED
      BY <3>1, <3>2
  <2>2. QED
    BY <1>1, <2>1, TurnsTyped DEF TurnsKept
<1>6. QED
  BY <1>1, <1>4, <1>5

LEMMA DeathKeepsTurns ==
  ASSUME TypeOK, Die
  PROVE  TurnsKept /\ Len(turns') = Len(turns)
<1>1. Len(turns') = Len(turns)
  BY DeathTyped
<1>2. ASSUME NEW t \in TurnIds
      PROVE  /\ turns'[t].asks = turns[t].asks /\ turns'[t].kind = turns[t].kind
             /\ turns'[t].of = turns[t].of
             /\ turns[t].fate \in {"answered", "degraded"} => turns'[t].fate = turns[t].fate
  <2>1. turns'[t] = IF turns[t].fate = "open" THEN [turns[t] EXCEPT !.fate = "died"] ELSE turns[t]
    BY <1>2 DEF Die
  <2>2. turns[t] \in Turn
    BY <1>2, TurnsTyped
  <2>3. CASE turns[t].fate = "open"
    BY <2>1, <2>2, <2>3 DEF Turn
  <2>4. CASE turns[t].fate # "open"
    BY <2>1, <2>4
  <2>5. QED
    BY <2>3, <2>4
<1>3. QED
  BY <1>1, <1>2, TurnsTyped DEF TurnsKept

\* No step but a record changes the rows: what they say stays true.
LEMMA RowsKept ==
  ASSUME TypeOK, TypeOK', HInv, TurnsKept, rows' = rows
  PROVE  RowsBegan' /\ HistoryIsFaithful'
<1>1. /\ RowsBegan /\ HistoryIsFaithful /\ Len(turns) \in Nat /\ Len(turns') \in Nat
      /\ Len(turns) <= Len(turns')
  BY TurnsTyped, LenProperties DEF HInv, TurnsKept, TypeOK
<1>2. RowsBegan'
  BY <1>1 DEF RowsBegan, TurnIds
<1>3. ASSUME NEW i \in DOMAIN rows
      PROVE  /\ rows[i].asks = turns'[rows[i].turn].asks /\ rows[i].kind = turns'[rows[i].turn].kind
             /\ IF rows[i].pet = "reply" THEN turns'[rows[i].turn].fate = "answered"
                                         ELSE turns'[rows[i].turn].fate = "degraded"
  <2>1. rows[i].turn \in TurnIds
    BY <1>1, <1>3 DEF RowsBegan
  <2>2. /\ rows[i].asks = turns[rows[i].turn].asks /\ rows[i].kind = turns[rows[i].turn].kind
        /\ IF rows[i].pet = "reply" THEN turns[rows[i].turn].fate = "answered"
                                    ELSE turns[rows[i].turn].fate = "degraded"
    BY <1>1, <1>3 DEF HistoryIsFaithful
  <2>3. QED
    BY <2>1, <2>2 DEF TurnsKept
<1>4. HistoryIsFaithful'
  BY <1>1, <1>3 DEF HistoryIsFaithful
<1>5. QED
  BY <1>2, <1>4

\* The history through a step that records nothing.
LEMMA HistoryStep ==
  ASSUME IInv, TypeOK', HInv, TurnsKept, rows' = rows, StashIsLatest', OpenIsOpen',
         \A task \in Tasks :
           \/ at'[task].pc \notin {"deliver", "gate"}
           \/ at'[task] = at[task]
           \/ at'[task].pc = "gate" /\ at'[task].turn # 0
           \/ /\ at'[task].pc = "deliver" /\ at'[task].turn # 0
              /\ turns'[at'[task].turn].fate = FateOf(at'[task].res),
         (fence' # 0 \/ \E task \in Tasks : at'[task].pc = "deliver") =>
           \/ cur'.id = Len(turns) + 1
           \/ /\ cur'.id = cur.id
              /\ fence # 0 \/ \E task \in Tasks : at[task].pc = "deliver"
  PROVE  HInv'
<1>1. RowsBegan' /\ HistoryIsFaithful'
  BY RowsKept DEF IInv
<1>2. FinisherKnowsFate'
  <2> SUFFICES ASSUME NEW task \in Tasks
               PROVE  /\ at'[task].pc \in {"deliver", "gate"} => at'[task].turn # 0
                      /\ at'[task].pc = "deliver" =>
                           turns'[at'[task].turn].fate = FateOf(at'[task].res)
    BY DEF FinisherKnowsFate, FateOf
  <2>1. CASE at'[task] = at[task]
    <3>1. at[task].pc \in {"deliver", "gate"} => at[task].turn # 0 /\ at[task].turn \in TurnIds
      BY TurnsTyped DEF HInv, FinisherKnowsFate, StashIsLatest, IInv, StashIsMine, TurnIds
    <3>2. at[task].pc = "deliver" => turns[at[task].turn].fate = FateOf(at[task].res)
      BY DEF HInv, FinisherKnowsFate
    <3>3. FateOf(at[task].res) \in {"answered", "degraded"}
      BY DEF FateOf
    <3>4. QED
      BY <2>1, <3>1, <3>2, <3>3 DEF TurnsKept
  <2>2. QED
    BY <2>1
<1>3. RowIsDue'
  <2>1. \A i \in DOMAIN rows : rows[i].turn \in Nat /\ rows[i].turn < Len(turns) + 1
    BY TurnsTyped DEF IInv, HInv, RowsBegan, TurnIds
  <2>2. QED
    BY <2>1 DEF HInv, RowIsDue
<1>4. QED
  BY <1>1, <1>2, <1>3 DEF HInv

\* A row is written by the task that finishes the turn in the stash, which is alone.
LEMMA RecordStep ==
  ASSUME IInv, TypeOK', HInv, NEW task \in Tasks, at[task].pc = "deliver",
         NEW pet \in {"reply", "degrade"}, pet = "degrade" <=> at[task].res = "fail", Record(pet),
         NEW control \in {"gate", "reap"}, Goto(task, control),
         UNCHANGED <<turns, cur, fence>>
  PROVE  HInv'
<1> DEFINE t == cur.id
           r == [turn |-> t, kind |-> cur.kind, asks |-> cur.asks, pet |-> pet]
<1>1. /\ t = at[task].turn /\ t = Len(turns) /\ t \in TurnIds
      /\ turns[t].asks = cur.asks /\ turns[t].kind = cur.kind
      /\ turns[t].fate = FateOf(at[task].res)
      /\ \A i \in DOMAIN rows : rows[i].turn < t
  BY TurnsTyped DEF IInv, StashIsMine, HInv, StashIsLatest, FinisherKnowsFate, RowIsDue, TurnIds
<1>2. /\ at'[task].pc = control /\ at'[task].turn = at[task].turn
      /\ \A other \in Tasks \ {task} : at'[other] = at[other]
  BY Moves DEF IInv, Controls
<1>3. fence = 0 /\ \A other \in Tasks \ {task} : at[other].pc \notin {"start", "deliver", "gate", "reap"}
  <2>1. Holds(task) /\ at[task].pc # "start"
    BY DEF Holds
  <2>2. armed = 0 /\ \A other \in Tasks \ {task} : ~Holds(other)
    BY <2>1, Alone
  <2>3. QED
    BY <2>1, <2>2 DEF IInv, OpenTurnIsHeld, Holds
<1>4. /\ rows' = Append(rows, r) /\ r \in HistoryRow
  <2>1. cur \in Stash
    BY DEF IInv, TypeOK
  <2>2. QED
    BY <2>1 DEF Record, HistoryRow, Stash
<1>5. /\ r.turn = t /\ r.asks = turns[t].asks /\ r.kind = turns[t].kind
      /\ IF r.pet = "reply" THEN turns[t].fate = "answered" ELSE turns[t].fate = "degraded"
  BY <1>1 DEF FateOf
<1> HIDE DEF t, r
<1>6. /\ DOMAIN rows = 1..Len(rows) /\ Len(rows) \in Nat
      /\ DOMAIN rows' = 1..(Len(rows) + 1)
      /\ \A i \in 1..Len(rows) : rows'[i] = rows[i]
      /\ rows'[Len(rows) + 1] = r
  BY <1>4, TurnsTyped, AppendProperties, LenProperties DEF IInv
<1>7. ASSUME NEW i \in DOMAIN rows'
      PROVE  \/ i = Len(rows) + 1 /\ rows'[i] = r
             \/ i \in DOMAIN rows /\ rows'[i] = rows[i]
  BY <1>6
<1>8. RowsBegan'
  BY <1>1, <1>5, <1>7 DEF RowsBegan, HInv, TurnIds
<1>9. HistoryIsFaithful'
  <2>1. ASSUME NEW i \in DOMAIN rows', NEW j \in DOMAIN rows', i < j
        PROVE  rows'[i].turn < rows'[j].turn
    <3>1. i \in DOMAIN rows /\ rows'[i] = rows[i]
      BY <1>6, <2>1
    <3>2. CASE j = Len(rows) + 1
      BY <1>1, <1>5, <1>6, <3>1, <3>2
    <3>3. CASE j \in DOMAIN rows /\ rows'[j] = rows[j]
      BY <2>1, <3>1, <3>3 DEF HInv, HistoryIsFaithful
    <3>4. QED
      BY <1>7, <3>2, <3>3
  <2>2. ASSUME NEW i \in DOMAIN rows'
        PROVE  /\ rows'[i].asks = turns[rows'[i].turn].asks /\ rows'[i].kind = turns[rows'[i].turn].kind
               /\ IF rows'[i].pet = "reply" THEN turns[rows'[i].turn].fate = "answered"
                                            ELSE turns[rows'[i].turn].fate = "degraded"
    <3>1. CASE rows'[i] = r
      BY <1>5, <3>1
    <3>2. CASE i \in DOMAIN rows /\ rows'[i] = rows[i]
      BY <3>2 DEF HInv, HistoryIsFaithful
    <3>3. QED
      BY <1>7, <3>1, <3>2
  <2>3. QED
    BY <2>1, <2>2 DEF HistoryIsFaithful
<1>10. FinisherKnowsFate'
  BY <1>1, <1>2, <1>3, TurnsTyped DEF FinisherKnowsFate, FateOf, IInv
<1>11. RowIsDue'
  BY <1>2, <1>3 DEF RowIsDue
<1>12. StashIsLatest' /\ OpenIsOpen'
  BY DEF HInv, StashIsLatest, OpenIsOpen
<1>13. QED
  BY <1>8, <1>9, <1>10, <1>11, <1>12 DEF HInv

LEMMA HistoryBegin ==
  ASSUME IInv, TypeOK', HInv, NEW task \in Tasks, NEW kind \in Kinds, NEW asks \in Seq(Nat),
         NEW of \in Nat, Begin(task, kind, asks, of), rows' = rows
  PROVE  HInv'
<1>1. /\ TurnsKept /\ Len(turns') = Len(turns) + 1 /\ Len(turns) \in Nat
      /\ turns'[Len(turns) + 1] = [kind |-> kind, asks |-> asks, of |-> of, fate |-> "open"]
  BY BeginKeepsTurns, TurnsTyped DEF IInv
<1>2. /\ cur'.id = Len(turns) + 1 /\ cur'.asks = asks /\ cur'.kind = kind
      /\ fence' = Len(turns) + 1
  BY DEF Begin, FenceOpen
<1>3. StashIsLatest' /\ OpenIsOpen'
  BY <1>1, <1>2 DEF StashIsLatest, OpenIsOpen
<1>4. \A t \in Tasks : at'[t] = at[t] \/ at'[t].pc = "start"
  BY Moves DEF IInv
<1>5. QED
  BY <1>1, <1>2, <1>3, <1>4, HistoryStep

\* Nothing is begun, decided or recorded.
LEMMA HistoryQuiet ==
  ASSUME IInv, TypeOK', HInv, UNCHANGED <<turns, cur, fence, rows>>,
         \A task \in Tasks : \/ at'[task] = at[task]
                             \/ at'[task].pc \notin {"deliver", "gate"}
                             \/ at'[task].pc = "gate" /\ at'[task].turn # 0
  PROVE  HInv'
<1>1. TurnsKept
  BY SameTurns DEF IInv
<1>2. StashIsLatest' /\ OpenIsOpen'
  BY DEF HInv, StashIsLatest, OpenIsOpen
<1>3. (\E task \in Tasks : at'[task].pc = "deliver") => \E task \in Tasks : at[task].pc = "deliver"
  OBVIOUS
<1>4. QED
  BY <1>1, <1>2, <1>3, HistoryStep

\* The open turn is decided: by its Result, its timer, or a fork that failed.
LEMMA HistoryDecide ==
  ASSUME IInv, TypeOK', HInv, NEW task \in Tasks, fence # 0, NEW fate \in Fates,
         Mark(fence, fate), fence' = 0, UNCHANGED <<cur, rows>>,
         \A other \in Tasks \ {task} : at'[other] = at[other],
         \/ at'[task].pc = "idle"
         \/ /\ at'[task].pc = "deliver" /\ at'[task].turn = fence
            /\ fate = FateOf(at'[task].res)
  PROVE  HInv'
<1>1. fence \in TurnIds /\ cur.id = fence /\ turns[fence].fate = "open"
  BY TurnsTyped DEF IInv, OpenTurnIsStashed, HInv, StashIsLatest, OpenIsOpen, TurnIds
<1>2. TurnsKept /\ Len(turns') = Len(turns) /\ turns'[fence].fate = fate
  BY <1>1, MarkKeepsTurns DEF IInv
<1>3. StashIsLatest' /\ OpenIsOpen'
  BY <1>1, <1>2 DEF HInv, StashIsLatest, OpenIsOpen, TurnsKept
<1>4. QED
  BY <1>1, <1>2, <1>3, HistoryStep

LEMMA NextHInv ==
  ASSUME IInv, HInv, [Next]_vars
  PROVE  HInv'
<1> USE DEF arbiterVars, fenceVars, forkVars, storeVars, boundVars, NoTurnBegins
<1>0. "consumer" \in Tasks /\ "watch" \in Tasks /\ "scheduler" \in Tasks
  BY DEF Tasks
<1>1. TypeOK /\ TypeOK' /\ << >> \in Seq(Nat) /\ pending \in Seq(Nat)
  BY NextTypeOK, RestingTyped DEF IInv, TypeOK
<1>2. \A task \in Tasks : at[task] \in TaskState
  BY <1>1 DEF TypeOK
<1>3. CASE Admit
  <2>1. Head(inbox) \in Envelope
    BY <1>1, <1>3, HeadTailProperties DEF Admit, Take, TypeOK
  <2>2. <<Head(inbox).id>> \in Seq(Nat)
    BY <2>1 DEF Envelope
  <2>3. Begin("consumer", "owner", <<Head(inbox).id>>, 0) /\ rows' = rows
    BY <1>3 DEF Admit
  <2>4. QED
    BY <1>0, <1>1, <2>2, <2>3, HistoryBegin DEF Kinds
<1>4. CASE TapResumes
  <2>1. Head(inbox) \in Envelope
    BY <1>1, <1>4, HeadTailProperties DEF TapResumes, Take, TypeOK
  <2>2. Head(inbox).id \in Nat
    BY <2>1 DEF Envelope
  <2>3. Begin("consumer", "resume", << >>, Head(inbox).id) /\ rows' = rows
    BY <1>4 DEF TapResumes
  <2>4. QED
    BY <1>0, <1>1, <2>2, <2>3, HistoryBegin DEF Kinds
<1>5. CASE Dispatch
  <2>1. Begin("scheduler", "auto", << >>, 0) /\ rows' = rows
    BY <1>5 DEF Dispatch
  <2>2. QED
    BY <1>0, <1>1, <2>1, HistoryBegin DEF Kinds
<1>6. CASE EmitEnds
  <2>1. CASE at["consumer"].batch = << >>
    <3>1. Leave("consumer") /\ UNCHANGED <<turns, cur, fence, rows>>
      BY <1>6, <2>1 DEF EmitEnds
    <3>2. QED
      BY <1>0, <1>1, <3>1, Moves, HistoryQuiet
  <2>2. CASE at["consumer"].batch # << >>
    <3>1. Begin("consumer", "owner", at["consumer"].batch, 0) /\ rows' = rows
      BY <1>6, <2>2 DEF EmitEnds
    <3>2. at["consumer"].batch \in Seq(Nat)
      BY <1>0, <1>2 DEF TaskState
    <3>3. QED
      BY <1>0, <1>1, <3>1, <3>2, HistoryBegin DEF Kinds
  <2>3. QED
    BY <2>1, <2>2
<1>7. ASSUME NEW task \in Tasks, DegradedTurnEnds(task)
      PROVE  HInv'
  <2>1. CASE pending = << >>
    <3>1. Leave(task) /\ UNCHANGED <<turns, cur, fence, rows>>
      BY <1>7, <2>1 DEF DegradedTurnEnds
    <3>2. QED
      BY <1>1, <1>7, <3>1, Moves, HistoryQuiet
  <2>2. CASE pending # << >>
    <3>1. Begin(task, "owner", pending, 0) /\ rows' = rows
      BY <1>7, <2>2 DEF DegradedTurnEnds
    <3>2. QED
      BY <1>1, <1>7, <3>1, HistoryBegin DEF Kinds
  <2>3. QED
    BY <2>1, <2>2
<1>8. CASE TakeResult
  <2> DEFINE env == Head(inbox)
  <2>1. /\ Accepts(env.id) /\ FenceClose(env.id)
        /\ Mark(env.id, IF env.res = "fail" THEN "degraded" ELSE "answered")
        /\ at' = [at EXCEPT !["consumer"] =
             [pc |-> "deliver", turn |-> env.id, res |-> env.res, batch |-> << >>]]
        /\ UNCHANGED <<cur, rows>>
    BY <1>8 DEF TakeResult
  <2> HIDE DEF env
  <2>2. fence # 0 /\ fence = env.id /\ fence' = 0
    BY <2>1 DEF Accepts, FenceClose
  <2>3. Mark(fence, FateOf(env.res)) /\ FateOf(env.res) \in Fates
    BY <2>1, <2>2 DEF FateOf, Fates
  <2>4. /\ at'["consumer"].pc = "deliver" /\ at'["consumer"].turn = fence
        /\ at'["consumer"].res = env.res
        /\ \A other \in Tasks \ {"consumer"} : at'[other] = at[other]
    BY <1>0, <1>1, <2>1, <2>2 DEF TypeOK
  <2>5. QED
    BY <1>0, <1>1, <2>1, <2>2, <2>3, <2>4, HistoryDecide
<1>9. CASE Fire
  <2>1. /\ fence # 0 /\ fence = armed /\ fence' = 0 /\ Mark(fence, "degraded")
        /\ at' = [at EXCEPT !["watch"] =
             [pc |-> "deliver", turn |-> fence, res |-> "fail", batch |-> << >>]]
        /\ UNCHANGED <<cur, rows>>
    BY <1>9 DEF Fire, FenceClose
  <2>2. /\ at'["watch"].pc = "deliver" /\ at'["watch"].turn = fence
        /\ FateOf(at'["watch"].res) = "degraded"
        /\ \A other \in Tasks \ {"watch"} : at'[other] = at[other]
    BY <1>0, <1>1, <2>1 DEF TypeOK, FateOf
  <2>3. QED
    BY <1>0, <1>1, <2>1, <2>2, HistoryDecide DEF Fates
<1>10. ASSUME NEW task \in Tasks, SpawnFails(task)
       PROVE  HInv'
  <2>1. /\ at[task].pc = "start" /\ FenceClose(at[task].turn) /\ Mark(at[task].turn, "unspawned")
        /\ Leave(task) /\ UNCHANGED <<cur, rows>>
    BY <1>10 DEF SpawnFails
  <2>2. fence # 0 /\ at[task].turn = fence
    BY <1>10, <2>1 DEF IInv, StartIsOpen
  <2>3. QED
    BY <1>1, <1>10, <2>1, <2>2, Moves, HistoryDecide DEF FenceClose, Fates
<1>11. ASSUME NEW task \in Tasks, DegradeEnds(task)
       PROVE  HInv'
  <2>1. /\ at[task].pc = "deliver" /\ at[task].res = "fail" /\ Goto(task, "reap")
        /\ UNCHANGED <<turns, cur, fence>>
    BY <1>11 DEF DegradeEnds
  <2>2. CASE Record("degrade")
    BY <1>1, <1>11, <2>1, <2>2, RecordStep
  <2>3. CASE UNCHANGED rows
    BY <1>1, <1>11, <2>1, <2>3, Moves, HistoryQuiet DEF Controls
  <2>4. QED
    BY <1>11, <2>2, <2>3 DEF DegradeEnds
<1>12. CASE ReplyEnds
  <2> DEFINE control == IF at["consumer"].res = "tool" THEN "gate" ELSE "reap"
  <2>1. /\ at["consumer"].pc = "deliver" /\ at["consumer"].res # "fail" /\ Goto("consumer", control)
        /\ UNCHANGED <<turns, cur, fence>> /\ control \in {"gate", "reap"}
    BY <1>12 DEF ReplyEnds
  <2>2. at["consumer"].turn # 0
    BY <1>0, <2>1 DEF HInv, FinisherKnowsFate
  <2> HIDE DEF control
  <2>3. CASE Record("reply")
    BY <1>0, <1>1, <2>1, <2>3, RecordStep
  <2>4. CASE UNCHANGED rows
    <3>1. /\ at'["consumer"].pc = control /\ at'["consumer"].turn # 0
          /\ \A other \in Tasks \ {"consumer"} : at'[other] = at[other]
      BY <1>0, <1>1, <2>1, <2>2, Moves DEF Controls
    <3>2. QED
      BY <1>1, <2>1, <2>4, <3>1, HistoryQuiet
  <2>5. QED
    BY <1>12, <2>3, <2>4 DEF ReplyEnds
<1>13. CASE Die
  <2>1. TurnsKept
    BY <1>1, <1>13, DeathKeepsTurns
  <2>2. /\ cur'.id = 0 /\ fence' = 0 /\ rows' = rows
        /\ \A task \in Tasks : at'[task].pc = "idle"
    BY <1>13, RestingTyped DEF Die, NoStash
  <2>3. StashIsLatest' /\ OpenIsOpen'
    BY <2>2 DEF StashIsLatest, OpenIsOpen
  <2>4. QED
    BY <1>1, <2>1, <2>2, <2>3, HistoryStep
<1>14. CASE Coalesce \/ DiscardResult \/ Reap \/ HubDelivers \/ OwnerAsks \/ OwnerTaps \/ WorkerAnswers
            \/ Rest \/ UNCHANGED vars
  <2>1. UNCHANGED <<turns, cur, fence, rows, at>>
    BY <1>14 DEF Coalesce, DiscardResult, Reap, HubDelivers, OwnerAsks, OwnerTaps, WorkerAnswers,
       Rest, vars
  <2>2. QED
    BY <1>1, <2>1, HistoryQuiet
<1>15. CASE TapAnswered
  BY <1>0, <1>1, <1>15, Moves, HistoryQuiet DEF TapAnswered, Controls
<1>16. CASE NoteSent
  BY <1>0, <1>1, <1>16, Moves, HistoryQuiet DEF NoteSent
<1>17. CASE GateEnds
  BY <1>0, <1>1, <1>17, Moves, HistoryQuiet DEF GateEnds, Controls
<1>18. CASE AnsweredTurnEnds
  <2>1. /\ at' = [at EXCEPT !["consumer"].pc = "emit", !["consumer"].batch = pending]
        /\ UNCHANGED <<turns, cur, fence, rows>>
    BY <1>18 DEF AnsweredTurnEnds
  <2>2. \A task \in Tasks : at'[task] = at[task] \/ at'[task].pc = "emit"
    BY <1>1, <1>2, <2>1 DEF TypeOK, TaskState
  <2>3. QED
    BY <1>1, <2>1, <2>2, HistoryQuiet
<1>19. ASSUME NEW task \in Tasks, Spawn(task)
       PROVE  HInv'
  BY <1>1, <1>19, Moves, HistoryQuiet DEF Spawn
<1>20. QED
  BY <1>3, <1>4, <1>5, <1>6, <1>7, <1>8, <1>9, <1>10, <1>11, <1>12, <1>13, <1>14, <1>15, <1>16,
     <1>17, <1>18, <1>19
  DEF Next, TakeEnvelope, ConsumerResumes, Resume, Environment

LEMMA HInvCorrect == Spec => [](IInv /\ HInv)
<1>1. Init => HInv
  <2> SUFFICES ASSUME Init PROVE HInv
    OBVIOUS
  <2>1. /\ cur.id = 0 /\ fence = 0 /\ rows = << >> /\ \A task \in Tasks : at[task].pc = "idle"
    BY RestingTyped DEF Init, NoStash
  <2>2. DOMAIN rows = {}
    BY <2>1
  <2>3. QED
    BY <2>1, <2>2 DEF HInv, StashIsLatest, OpenIsOpen, FinisherKnowsFate, RowIsDue, RowsBegan,
       HistoryIsFaithful
<1>2. IInv /\ HInv /\ [Next]_vars => HInv'
  BY NextHInv
<1>3. QED
  BY <1>1, <1>2, IInvCorrect, PTL DEF Spec

\* history.db pairs every ask with the words its own turn ended with: the stash that
\* _record_turn reads after its awaits, the fence and the single holder of the slot see to it.
THEOREM HistorySafe == Spec => []HistoryIsFaithful
<1>1. HInv => HistoryIsFaithful
  BY DEF HInv
<1>2. QED
  BY <1>1, HInvCorrect, PTL

-------------------------------------------------------------------------------
(* The inductive invariant of the approvals *)

OfferedBegan ==
  offered \subseteq TurnIds /\ \A row \in parked : row.what = "call" => row.id \in TurnIds

\* The owner taps on buttons that were shown.
TapsAreOffered ==
  \A i \in DOMAIN inbox : inbox[i].kind = "tap" => inbox[i].id \in offered

Unparked(t) ==
  /\ Row(t, "call") \notin parked
  /\ \A i \in TurnIds : turns[i].kind = "resume" => turns[i].of # t

\* A turn that may still be parked is not, and has not been resumed, though its buttons
\* may be in the chat.
ParkedAtTheEnd ==
  /\ fence # 0 => Unparked(fence)
  /\ at["consumer"].pc = "deliver" => Unparked(at["consumer"].turn)

AInv == OfferedBegan /\ TapsAreOffered /\ ParkedAtTheEnd /\ ApprovalsResumeOnce

\* Buttons stay in the chat, and an envelope the core finds is one it was sent.
LEMMA InboxMoves ==
  ASSUME TypeOK, [Next]_vars
  PROVE  /\ offered \subseteq offered'
         /\ \/ inbox' \in {inbox, << >>}
            \/ inbox # << >> /\ inbox' = Tail(inbox)
            \/ \E env \in Envelope :
                 inbox' = Append(inbox, env) /\ (env.kind = "tap" => env.id \in offered)
<1> USE DEF storeVars
<1>1. CASE TakeEnvelope
  BY <1>1 DEF TakeEnvelope, Admit, Coalesce, TakeResult, DiscardResult, TapAnswered, TapResumes, Take
<1>2. CASE ConsumerResumes
  BY <1>2 DEF ConsumerResumes, ReplyEnds, GateEnds, AnsweredTurnEnds, EmitEnds, NoteSent
<1>3. CASE \E task \in Tasks : Resume(task)
  BY <1>3 DEF Resume, Spawn, SpawnFails, DegradeEnds, DegradedTurnEnds
<1>4. CASE Fire \/ Reap \/ Die \/ Rest \/ UNCHANGED vars \/ WorkerAnswers \/ Dispatch
  BY <1>4 DEF Fire, Reap, Die, Rest, vars, WorkerAnswers, Dispatch
<1>5. CASE HubDelivers
  <2>1. PICK r \in wire : inbox' = Append(inbox, [kind |-> "result", id |-> r.id, res |-> r.res])
    BY <1>5 DEF HubDelivers
  <2> DEFINE env == [kind |-> "result", id |-> r.id, res |-> r.res]
  <2>2. env \in Envelope /\ env.kind # "tap"
    BY DEF TypeOK, Envelope
  <2>3. inbox' = Append(inbox, env) /\ UNCHANGED offered
    BY <1>5, <2>1 DEF HubDelivers
  <2> HIDE DEF env
  <2>4. QED
    BY <2>2, <2>3
<1>6. CASE OwnerAsks
  <2> DEFINE env == [kind |-> "ask", id |-> sent + 1, res |-> "none"]
  <2>1. env \in Envelope /\ env.kind # "tap"
    BY DEF TypeOK, Envelope
  <2>2. inbox' = Append(inbox, env) /\ UNCHANGED offered
    BY <1>6 DEF OwnerAsks
  <2> HIDE DEF env
  <2>3. QED
    BY <2>1, <2>2
<1>7. CASE OwnerTaps
  <2>1. PICK t \in offered : inbox' = Append(inbox, [kind |-> "tap", id |-> t, res |-> "none"])
    BY <1>7 DEF OwnerTaps
  <2> DEFINE env == [kind |-> "tap", id |-> t, res |-> "none"]
  <2>2. env \in Envelope /\ env.id = t
    BY <2>1 DEF TypeOK, Envelope
  <2>3. inbox' = Append(inbox, env) /\ UNCHANGED offered
    BY <1>7, <2>1 DEF OwnerTaps
  <2> HIDE DEF env
  <2>4. QED
    BY <2>2, <2>3
<1>8. QED
  BY <1>1, <1>2, <1>3, <1>4, <1>5, <1>6, <1>7 DEF Next, Environment

LEMMA NextTaps ==
  ASSUME TypeOK, TapsAreOffered, [Next]_vars
  PROVE  TapsAreOffered' /\ offered \subseteq offered'
<1>1. inbox \in Seq(Envelope) /\ offered \subseteq offered'
  BY InboxMoves DEF TypeOK
<1>2. CASE inbox' = inbox
  BY <1>1, <1>2 DEF TapsAreOffered
<1>3. CASE inbox' = << >>
  <2>1. \A i \in DOMAIN inbox' : FALSE
    BY <1>3
  <2>2. TapsAreOffered'
    BY <2>1 DEF TapsAreOffered
  <2>3. QED
    BY <1>1, <2>2
<1>4. CASE inbox # << >> /\ inbox' = Tail(inbox)
  <2>1. \A i \in DOMAIN inbox' : \E j \in DOMAIN inbox : inbox'[i] = inbox[j]
    BY <1>1, <1>4, TailEntries
  <2>2. QED
    BY <1>1, <2>1 DEF TapsAreOffered
<1>5. ASSUME NEW env \in Envelope, inbox' = Append(inbox, env), env.kind = "tap" => env.id \in offered
      PROVE  TapsAreOffered'
  <2>1. \A i \in DOMAIN inbox' : inbox'[i] = env \/ \E j \in DOMAIN inbox : inbox'[i] = inbox[j]
    BY <1>1, <1>5, AppendEntries
  <2>2. QED
    BY <1>1, <1>5, <2>1 DEF TapsAreOffered
<1>6. QED
  BY <1>1, <1>2, <1>3, <1>4, <1>5, InboxMoves

\* No turn begins: a call is parked only for a turn that was neither parked nor resumed.
LEMMA ApprovalStep ==
  ASSUME IInv, HInv, AInv, TapsAreOffered', TurnsKept, Len(turns') = Len(turns),
         fence' \in {fence, 0}, offered \subseteq offered', offered' \subseteq TurnIds,
         at'["consumer"].pc = "deliver" => Unparked(at'["consumer"].turn),
         \A row \in parked' : row.what = "call" =>
           \/ row \in parked
           \/ /\ row.id \in TurnIds /\ Unparked(row.id) /\ fence' = 0
              /\ at'["consumer"].pc # "deliver"
  PROVE  AInv'
<1>1. Len(turns) \in Nat /\ TurnIds' = TurnIds
  BY TurnsTyped DEF IInv, TurnIds
<1>2. OfferedBegan'
  BY <1>1 DEF AInv, OfferedBegan
<1>3. \A j \in TurnIds : turns'[j].kind = turns[j].kind /\ turns'[j].of = turns[j].of
  BY DEF TurnsKept
<1>4. ASSUME NEW t, Unparked(t), fence' # 0 \/ at'["consumer"].pc = "deliver"
      PROVE  Unparked(t)'
  <2>1. Row(t, "call") \notin parked'
    BY <1>4 DEF Unparked, Row
  <2>2. \A i \in TurnIds' : turns'[i].kind = "resume" => turns'[i].of # t
    BY <1>1, <1>3, <1>4 DEF Unparked
  <2>3. QED
    BY <2>1, <2>2 DEF Unparked, Row
<1>5. ParkedAtTheEnd'
  <2>1. fence' # 0 => Unparked(fence')
    BY DEF AInv, ParkedAtTheEnd
  <2>2. fence' # 0 => (Unparked(fence))'
    <3>1. fence' # 0 => fence' = fence
      OBVIOUS
    <3>2. QED
      BY <1>1, <1>3, <2>1, <3>1 DEF Unparked, Row
  <2>3. at'["consumer"].pc = "deliver" => (Unparked(at["consumer"].turn))'
    BY <1>1, <1>3 DEF Unparked, Row
  <2>4. QED
    BY <2>2, <2>3 DEF ParkedAtTheEnd
<1>6. ASSUME NEW i \in TurnIds, turns'[i].kind = "resume"
      PROVE  /\ turns'[i].of \in offered'
             /\ Row(turns'[i].of, "call") \notin parked'
             /\ \A j \in TurnIds : turns'[j].kind = "resume" /\ turns'[j].of = turns'[i].of => j = i
  <2>1. /\ turns[i].of \in offered /\ Row(turns[i].of, "call") \notin parked
        /\ \A j \in TurnIds : turns[j].kind = "resume" /\ turns[j].of = turns[i].of => j = i
    BY <1>3, <1>6 DEF AInv, ApprovalsResumeOnce
  <2>2. ~Unparked(turns[i].of)
    BY <1>3, <1>6 DEF Unparked
  <2>3. Row(turns[i].of, "call") \notin parked'
    BY <2>1, <2>2 DEF Row
  <2>4. QED
    BY <1>3, <1>6, <2>1, <2>3
<1>7. ApprovalsResumeOnce'
  BY <1>1, <1>6 DEF ApprovalsResumeOnce
<1>8. QED
  BY <1>2, <1>5, <1>7 DEF AInv

\* A turn begins; one that resumes takes the row it resumes, after a tap on its buttons.
LEMMA ApprovalBegin ==
  ASSUME IInv, HInv, AInv, TapsAreOffered', NEW task \in Tasks, NEW kind \in Kinds,
         NEW asks \in Seq(Nat), NEW of \in Nat, Begin(task, kind, asks, of),
         offered' = offered, parked' \subseteq parked,
         kind = "resume" =>
           of \in offered /\ Row(of, "call") \in parked /\ Row(of, "call") \notin parked'
  PROVE  AInv'
<1> DEFINE t == Len(turns) + 1
<1>1. /\ TurnsKept /\ Len(turns') = t /\ Len(turns) \in Nat
      /\ turns'[t].kind = kind /\ turns'[t].of = of
      /\ fence' = t
  <2>1. /\ TurnsKept /\ Len(turns') = t /\ Len(turns) \in Nat
        /\ turns'[t] = [kind |-> kind, asks |-> asks, of |-> of, fate |-> "open"]
    BY BeginKeepsTurns, TurnsTyped DEF IInv
  <2>2. fence' = t
    BY DEF Begin, FenceOpen
  <2>3. QED
    BY <2>1, <2>2
<1>2. TurnIds' = TurnIds \cup {t} /\ t \notin TurnIds
  BY <1>1 DEF TurnIds
<1>3. at'["consumer"] = at["consumer"] \/ at'["consumer"].pc = "start"
  BY Moves DEF IInv, Tasks
<1>4. OfferedBegan'
  BY <1>2 DEF AInv, OfferedBegan
<1>5. \A j \in TurnIds : turns'[j].kind = turns[j].kind /\ turns'[j].of = turns[j].of
  BY <1>1 DEF TurnsKept
<1> HIDE DEF t
<1>6. ASSUME NEW i \in TurnIds, turns'[i].kind = "resume"
      PROVE  /\ turns'[i].of \in offered /\ Row(turns'[i].of, "call") \notin parked
             /\ \A j \in TurnIds : turns'[j].kind = "resume" /\ turns'[j].of = turns'[i].of => j = i
  BY <1>5, <1>6 DEF AInv, ApprovalsResumeOnce
<1>7. (Unparked(fence))'
  <2>1. Row(t, "call") \notin parked
    BY <1>2 DEF AInv, OfferedBegan, Row
  <2>2. \A i \in TurnIds' : turns'[i].kind = "resume" => turns'[i].of # t
    <3>1. kind = "resume" => of # t
      BY <1>2 DEF AInv, OfferedBegan
    <3>2. \A i \in TurnIds : turns'[i].kind = "resume" => turns'[i].of # t
      BY <1>2, <1>6 DEF AInv, OfferedBegan
    <3>3. QED
      BY <1>1, <1>2, <3>1, <3>2
  <2>3. QED
    BY <1>1, <2>1, <2>2 DEF Unparked, Row
<1>8. at'["consumer"].pc = "deliver" => (Unparked(at["consumer"].turn))'
  <2> SUFFICES ASSUME at'["consumer"].pc = "deliver"
               PROVE  (Unparked(at["consumer"].turn))'
    OBVIOUS
  <2>1. at'["consumer"] = at["consumer"]
    BY <1>3
  <2>2. Unparked(at["consumer"].turn)
    BY <2>1 DEF AInv, ParkedAtTheEnd
  <2>3. \A i \in TurnIds' : turns'[i].kind = "resume" => turns'[i].of # at["consumer"].turn
    <3>1. kind = "resume" => of # at["consumer"].turn
      BY <2>2 DEF Unparked
    <3>2. \A i \in TurnIds : turns'[i].kind = "resume" => turns'[i].of # at["consumer"].turn
      BY <1>5, <2>2 DEF Unparked
    <3>3. QED
      BY <1>1, <1>2, <3>1, <3>2
  <2>4. QED
    BY <2>1, <2>2, <2>3 DEF Unparked, Row
<1>9. ParkedAtTheEnd'
  BY <1>7, <1>8 DEF ParkedAtTheEnd
<1>10. CASE kind = "resume"
  <2>1. \A i \in TurnIds : turns'[i].kind = "resume" => turns'[i].of # of
    BY <1>6, <1>10
  <2>2. ApprovalsResumeOnce'
    BY <1>1, <1>2, <1>6, <1>10, <2>1 DEF ApprovalsResumeOnce, Row
  <2>3. QED
    BY <1>4, <1>9, <2>2 DEF AInv
<1>11. CASE kind # "resume"
  <2>1. ApprovalsResumeOnce'
    BY <1>1, <1>2, <1>6, <1>11 DEF ApprovalsResumeOnce, Row
  <2>2. QED
    BY <1>4, <1>9, <2>1 DEF AInv
<1>12. QED
  BY <1>10, <1>11

\* The consumer, finishing a turn, finishes the latest one, and none is open.
LEMMA FinisherIsLast ==
  ASSUME IInv, HInv, at["consumer"].pc \in {"deliver", "gate"}
  PROVE  /\ at["consumer"].turn = cur.id /\ cur.id \in TurnIds /\ fence = 0 /\ 0 \notin TurnIds
<1>1. "consumer" \in Tasks /\ Holds("consumer") /\ at["consumer"].pc # "start"
  BY DEF Tasks, Holds
<1>2. armed = 0 /\ \A other \in Tasks \ {"consumer"} : ~Holds(other)
  BY <1>1, Alone
<1>3. fence = 0
  BY <1>1, <1>2 DEF IInv, OpenTurnIsHeld, Holds
<1>4. at["consumer"].turn = cur.id /\ cur.id # 0 /\ cur.id \in {0, Len(turns)}
  BY <1>1 DEF IInv, StashIsMine, HInv, FinisherKnowsFate, StashIsLatest
<1>5. QED
  BY <1>3, <1>4, TurnsTyped DEF IInv, TurnIds

\* Nothing is parked, and the consumer does not come to a new turn's end but the open one's.
LEMMA ApprovalQuiet ==
  ASSUME IInv, HInv, AInv, TapsAreOffered', TurnsKept, Len(turns') = Len(turns),
         fence' \in {fence, 0}, offered \subseteq offered', offered' \subseteq TurnIds,
         parked' \subseteq parked,
         \/ at'["consumer"] = at["consumer"]
         \/ at'["consumer"].pc # "deliver"
         \/ fence # 0 /\ at'["consumer"].turn = fence
  PROVE  AInv'
<1>1. at'["consumer"].pc = "deliver" => Unparked(at'["consumer"].turn)
  BY DEF AInv, ParkedAtTheEnd
<1>2. QED
  BY <1>1, ApprovalStep

LEMMA NextAInv ==
  ASSUME IInv, HInv, AInv, [Next]_vars
  PROVE  AInv'
<1> USE DEF arbiterVars, fenceVars, forkVars, storeVars, boundVars, NoTurnBegins
<1>0. "consumer" \in Tasks /\ "watch" \in Tasks /\ "scheduler" \in Tasks
  BY DEF Tasks
<1>1. TypeOK /\ << >> \in Seq(Nat) /\ pending \in Seq(Nat)
  BY RestingTyped DEF IInv, TypeOK
<1>2. \A task \in Tasks : at[task] \in TaskState
  BY <1>1 DEF TypeOK
<1>2a. TapsAreOffered' /\ offered \subseteq offered' /\ offered \subseteq TurnIds
  BY <1>1, NextTaps DEF AInv, OfferedBegan
<1>3. CASE Admit
  <2>1. Head(inbox) \in Envelope
    BY <1>1, <1>3, HeadTailProperties DEF Admit, Take, TypeOK
  <2>2. <<Head(inbox).id>> \in Seq(Nat)
    BY <2>1 DEF Envelope
  <2>3. Begin("consumer", "owner", <<Head(inbox).id>>, 0) /\ offered' = offered /\ parked' \subseteq parked
    BY <1>3 DEF Admit
  <2>4. QED
    BY <1>0, <1>1, <2>2, <2>3, ApprovalBegin, <1>2a DEF Kinds
<1>4. CASE TapResumes
  <2> DEFINE t == Head(inbox).id
  <2>1. Head(inbox) \in Envelope
    BY <1>1, <1>4, HeadTailProperties DEF TapResumes, Take, TypeOK
  <2>2. t \in Nat
    BY <2>1 DEF Envelope
  <2>3. /\ Begin("consumer", "resume", << >>, t) /\ offered' = offered
        /\ Row(t, "call") \in parked /\ Take("tap")
        /\ parked' = {row \in parked : ~(row.id = t /\ row.what \in Approvals)}
    BY <1>4 DEF TapResumes, TakeRow
  <2> HIDE DEF t
  <2>4. parked' \subseteq parked /\ Row(t, "call") \notin parked'
    BY <2>3 DEF Row, Approvals
  <2>5. t \in offered
    <3>1. inbox # << >> /\ Head(inbox).kind = "tap"
      BY <2>3 DEF Take
    <3>2. 1 \in DOMAIN inbox /\ inbox[1] = Head(inbox)
      BY <1>1, <3>1, EmptySeq, LenProperties DEF TypeOK
    <3>3. QED
      BY <3>1, <3>2 DEF AInv, TapsAreOffered, t
  <2>6. QED
    BY <1>0, <1>1, <2>2, <2>3, <2>4, <2>5, ApprovalBegin, <1>2a DEF Kinds
<1>5. CASE Dispatch
  <2>1. Begin("scheduler", "auto", << >>, 0) /\ offered' = offered /\ parked' \subseteq parked
    BY <1>5 DEF Dispatch
  <2>2. QED
    BY <1>0, <1>1, <2>1, ApprovalBegin, <1>2a DEF Kinds
<1>6. CASE EmitEnds
  <2>1. CASE at["consumer"].batch = << >>
    <3>1. Leave("consumer") /\ UNCHANGED <<turns, fence, offered, parked>>
      BY <1>6, <2>1 DEF EmitEnds
    <3>2. QED
      BY <1>0, <1>1, <3>1, Moves, SameTurns, ApprovalQuiet, <1>2a
  <2>2. CASE at["consumer"].batch # << >>
    <3>1. /\ Begin("consumer", "owner", at["consumer"].batch, 0)
          /\ offered' = offered /\ parked' \subseteq parked
      BY <1>6, <2>2 DEF EmitEnds
    <3>2. at["consumer"].batch \in Seq(Nat)
      BY <1>0, <1>2 DEF TaskState
    <3>3. QED
      BY <1>0, <1>1, <3>1, <3>2, ApprovalBegin, <1>2a DEF Kinds
  <2>3. QED
    BY <2>1, <2>2
<1>7. ASSUME NEW task \in Tasks, DegradedTurnEnds(task)
      PROVE  AInv'
  <2>1. CASE pending = << >>
    <3>1. Leave(task) /\ UNCHANGED <<turns, fence, offered, parked>>
      BY <1>7, <2>1 DEF DegradedTurnEnds
    <3>2. QED
      BY <1>0, <1>1, <1>7, <3>1, Moves, SameTurns, ApprovalQuiet, <1>2a
  <2>2. CASE pending # << >>
    <3>1. Begin(task, "owner", pending, 0) /\ offered' = offered /\ parked' \subseteq parked
      BY <1>7, <2>2 DEF DegradedTurnEnds
    <3>2. QED
      BY <1>1, <1>7, <3>1, ApprovalBegin, <1>2a DEF Kinds
  <2>3. QED
    BY <2>1, <2>2
<1>8. ASSUME fence # 0
      PROVE  fence \in TurnIds /\ turns[fence].fate = "open"
  BY <1>8, TurnsTyped DEF IInv, OpenTurnIsStashed, HInv, StashIsLatest, OpenIsOpen, TurnIds
<1>9. CASE TakeResult
  <2> DEFINE env == Head(inbox)
  <2>1. /\ Accepts(env.id) /\ FenceClose(env.id)
        /\ Mark(env.id, FateOf(env.res)) /\ FateOf(env.res) \in Fates
        /\ at' = [at EXCEPT !["consumer"] =
             [pc |-> "deliver", turn |-> env.id, res |-> env.res, batch |-> << >>]]
        /\ UNCHANGED parked /\ offered' \subseteq offered \cup {env.id}
    BY <1>9 DEF TakeResult, FateOf, Fates
  <2> HIDE DEF env
  <2>2. fence # 0 /\ fence = env.id /\ fence' = 0
    BY <2>1 DEF Accepts, FenceClose
  <2>3. at'["consumer"].turn = fence
    BY <1>0, <1>1, <2>1, <2>2 DEF TypeOK
  <2>4. offered' \subseteq TurnIds
    BY <1>8, <1>2a, <2>1, <2>2
  <2>5. QED
    BY <1>1, <1>8, <2>1, <2>2, <2>3, <2>4, MarkKeepsTurns, ApprovalQuiet, <1>2a
<1>10. CASE Fire
  <2>1. /\ fence # 0 /\ fence' = 0 /\ Mark(fence, "degraded")
        /\ at'["consumer"] = at["consumer"] /\ UNCHANGED <<offered, parked>>
    BY <1>0, <1>1, <1>10 DEF Fire, FenceClose, TypeOK
  <2>2. QED
    BY <1>1, <1>8, <2>1, MarkKeepsTurns, ApprovalQuiet, <1>2a DEF Fates
<1>11. ASSUME NEW task \in Tasks, SpawnFails(task)
       PROVE  AInv'
  <2>1. /\ at[task].pc = "start" /\ FenceClose(at[task].turn) /\ Mark(at[task].turn, "unspawned")
        /\ Leave(task) /\ UNCHANGED <<offered, parked>>
    BY <1>11 DEF SpawnFails
  <2>2. fence # 0 /\ at[task].turn = fence /\ fence' = 0
    BY <1>11, <2>1 DEF IInv, StartIsOpen, FenceClose
  <2>3. at'["consumer"] = at["consumer"] \/ at'["consumer"].pc = "idle"
    BY <1>0, <1>1, <1>11, <2>1, Moves
  <2>4. QED
    BY <1>1, <1>8, <2>1, <2>2, <2>3, MarkKeepsTurns, ApprovalQuiet, <1>2a DEF Fates
<1>12. CASE ReplyEnds
  <2> DEFINE res == at["consumer"].res
             turn == at["consumer"].turn
             control == IF res = "tool" THEN "gate" ELSE "reap"
  <2>1. /\ at["consumer"].pc = "deliver" /\ Goto("consumer", control) /\ control \in {"gate", "reap"}
        /\ UNCHANGED parked \/ (AsksApproval(res) /\ parked' = parked \cup {Row(cur.id, res)})
        /\ UNCHANGED <<turns, fence, offered>>
    BY <1>12 DEF ReplyEnds
  <2>2. turn = cur.id /\ cur.id \in TurnIds /\ fence = 0 /\ 0 \notin TurnIds
    BY <2>1, FinisherIsLast
  <2>3. at'["consumer"].pc # "deliver"
    BY <1>0, <1>1, <2>1, Moves DEF Controls
  <2>4. Unparked(turn)
    BY <2>1 DEF AInv, ParkedAtTheEnd
  <2> HIDE DEF res, turn, control
  <2>5. \A row \in parked' : row.what = "call" =>
          row \in parked \/ (row.id \in TurnIds /\ Unparked(row.id))
    BY <2>1, <2>2, <2>4 DEF Row
  <2>6. QED
    BY <1>1, <2>1, <2>2, <2>3, <2>5, SameTurns, ApprovalStep, <1>2a
<1>13. CASE GateEnds
  <2> DEFINE turn == at["consumer"].turn
  <2>1. /\ at["consumer"].pc = "gate" /\ Goto("consumer", "reap") /\ UNCHANGED <<turns, fence>>
        /\ parked' \subseteq parked \cup {Row(turn, "tool")}
        /\ offered' \subseteq offered \cup {turn}
    BY <1>13 DEF GateEnds
  <2>2. turn \in TurnIds /\ fence = 0 /\ 0 \notin TurnIds
    BY <2>1, FinisherIsLast
  <2>3. at'["consumer"].pc # "deliver" /\ offered' \subseteq TurnIds
    BY <1>0, <1>1, <1>2a, <2>1, <2>2, Moves DEF Controls
  <2> HIDE DEF turn
  <2>4. \A row \in parked' : row.what = "call" => row \in parked
    BY <2>1 DEF Row
  <2>5. QED
    BY <1>1, <2>1, <2>2, <2>3, <2>4, SameTurns, ApprovalStep, <1>2a
<1>14. CASE Die
  <2>1. TurnsKept /\ Len(turns') = Len(turns)
    BY <1>1, <1>14, DeathKeepsTurns
  <2>2. fence' = 0 /\ UNCHANGED <<offered, parked>> /\ at'["consumer"].pc = "idle"
    BY <1>0, <1>14, RestingTyped DEF Die
  <2>3. QED
    BY <2>1, <2>2, ApprovalQuiet, <1>2a
<1>15. CASE Coalesce \/ DiscardResult \/ Reap \/ HubDelivers \/ OwnerAsks \/ OwnerTaps \/ WorkerAnswers
            \/ Rest \/ UNCHANGED vars
  <2>1. UNCHANGED <<turns, fence, offered, parked, at>>
    BY <1>15 DEF Coalesce, DiscardResult, Reap, HubDelivers, OwnerAsks, OwnerTaps, WorkerAnswers,
       Rest, vars
  <2>2. QED
    BY <1>1, <2>1, SameTurns, ApprovalQuiet, <1>2a
<1>16. CASE TapAnswered
  <2>1. Goto("consumer", "note") /\ UNCHANGED <<turns, fence, offered>> /\ parked' \subseteq parked
    BY <1>16 DEF TapAnswered, TakeRow
  <2>2. QED
    BY <1>0, <1>1, <2>1, Moves, SameTurns, ApprovalQuiet, <1>2a DEF Controls
<1>17. CASE NoteSent
  <2>1. Leave("consumer") /\ UNCHANGED <<turns, fence, offered, parked>>
    BY <1>17 DEF NoteSent
  <2>2. QED
    BY <1>0, <1>1, <2>1, Moves, SameTurns, ApprovalQuiet, <1>2a
<1>18. CASE AnsweredTurnEnds
  <2>1. /\ at' = [at EXCEPT !["consumer"].pc = "emit", !["consumer"].batch = pending]
        /\ UNCHANGED <<turns, fence, offered, parked>>
    BY <1>18 DEF AnsweredTurnEnds
  <2>2. at'["consumer"].pc = "emit"
    BY <1>0, <1>1, <1>2, <2>1 DEF TypeOK, TaskState
  <2>3. QED
    BY <1>1, <2>1, <2>2, SameTurns, ApprovalQuiet, <1>2a
<1>19. ASSUME NEW task \in Tasks, Spawn(task) \/ DegradeEnds(task)
       PROVE  AInv'
  <2>1. /\ Leave(task) \/ Goto(task, "reap")
        /\ UNCHANGED <<turns, fence, offered, parked>>
    BY <1>19 DEF Spawn, DegradeEnds
  <2>2. at'["consumer"] = at["consumer"] \/ at'["consumer"].pc # "deliver"
    BY <1>0, <1>1, <1>19, <2>1, Moves DEF Controls
  <2>3. QED
    BY <1>1, <2>1, <2>2, SameTurns, ApprovalQuiet, <1>2a
<1>20. QED
  BY <1>3, <1>4, <1>5, <1>6, <1>7, <1>9, <1>10, <1>11, <1>12, <1>13, <1>14, <1>15, <1>16,
     <1>17, <1>18, <1>19
  DEF Next, TakeEnvelope, ConsumerResumes, Resume, Environment

\* One tap resumes one turn: a row of pending_approvals is consumed by the first tap that
\* finds it, is written once per turn, and survives a restart without being resumed twice.
THEOREM ResumeOnce == Spec => []ApprovalsResumeOnce
<1>1. Init => AInv
  <2> SUFFICES ASSUME Init PROVE AInv
    OBVIOUS
  <2>1. /\ fence = 0 /\ offered = {} /\ parked = {} /\ at["consumer"].pc = "idle" /\ TurnIds = {}
        /\ DOMAIN inbox = {}
    BY RestingTyped DEF Init, Tasks, TurnIds
  <2>2. QED
    BY <2>1 DEF AInv, OfferedBegan, TapsAreOffered, ParkedAtTheEnd, ApprovalsResumeOnce
<1>2. IInv /\ HInv /\ AInv /\ [Next]_vars => AInv'
  BY NextAInv
<1>3. AInv => ApprovalsResumeOnce
  BY DEF AInv
<1>4. QED
  BY <1>1, <1>2, <1>3, HInvCorrect, PTL DEF Spec

-------------------------------------------------------------------------------
(***************************************************************************)
(* The promise to the owner.  Messages stand in one line: the batch being  *)
(* published, those folded behind a turn, those in the inbox; a turn takes *)
(* the head of it.  At most one turn is undecided, the one behind the      *)
(* fence.                                                                  *)
(***************************************************************************)

(* The inductive invariant of the promise *)

Batch == at["consumer"].batch

AsksIn(q) == {q[i].id : i \in {j \in DOMAIN q : q[j].kind = "ask"}}

\* A folded batch is in the consumer's hand only while it publishes.
BatchIsPublished == Batch # <<>> => at["consumer"].pc = "emit" /\ pending = <<>>

InboxInOrder ==
  \A i, j \in DOMAIN inbox :
    i < j /\ inbox[i].kind = "ask" /\ inbox[j].kind = "ask" => inbox[i].id < inbox[j].id

FoldedFirst == \A x \in AsksOf(Batch) \cup AsksOf(pending), y \in AsksIn(inbox) : x < y

WaitingSent == \A m \in Waiting : m <= sent

LineInv == BatchIsPublished /\ InboxInOrder /\ FoldedFirst /\ WaitingSent

\* No turn but the one behind the fence is undecided.
OneUndecided == \A t \in TurnIds : turns[t].fate = "open" => t = fence

PromiseInv == LineInv /\ OneUndecided

-------------------------------------------------------------------------------
(* The line of messages *)

LEMMA WaitingIs == Waiting = AsksIn(inbox) \cup AsksOf(pending) \cup AsksOf(Batch)
  BY DEF Waiting, AsksIn, Batch

LEMMA WaitingWillBe == Waiting' = AsksIn(inbox') \cup AsksOf(pending') \cup AsksOf(Batch')
  BY DEF Waiting, AsksIn, Batch, AsksOf

LEMMA AsksOfNone == AsksOf(<<>>) = {}
<1>1. DOMAIN <<>> = {}
  OBVIOUS
<1>2. QED
  BY <1>1 DEF AsksOf

LEMMA AsksOfOne == \A x : AsksOf(<<x>>) = {x}
<1> TAKE x
<1>1. DOMAIN <<x>> = {1} /\ <<x>>[1] = x
  OBVIOUS
<1>2. QED
  BY <1>1 DEF AsksOf

LEMMA AsksOfAppend ==
  ASSUME NEW q \in Seq(Nat), NEW x \in Nat
  PROVE  AsksOf(Append(q, x)) = AsksOf(q) \cup {x}
<1>1. /\ Append(q, x) \in Seq(Nat) /\ Len(Append(q, x)) = Len(q) + 1
      /\ \A i \in 1..Len(q) : Append(q, x)[i] = q[i]
      /\ Append(q, x)[Len(q) + 1] = x
  BY AppendProperties
<1>2. DOMAIN Append(q, x) = 1..(Len(q) + 1) /\ DOMAIN q = 1..Len(q) /\ Len(q) \in Nat
  BY <1>1, LenProperties
<1>3. QED
  BY <1>1, <1>2 DEF AsksOf

\* What a queue of envelopes loses with its head.
LEMMA TailAsks ==
  ASSUME NEW q \in Seq(Envelope), q # <<>>
  PROVE  /\ Head(q).kind # "ask" => AsksIn(Tail(q)) = AsksIn(q)
         /\ Head(q).kind = "ask" => AsksIn(q) = {Head(q).id} \cup AsksIn(Tail(q))
<1>1. /\ Tail(q) \in Seq(Envelope) /\ Len(Tail(q)) = Len(q) - 1 /\ Head(q) = q[1]
      /\ \A i \in 1..Len(Tail(q)) : Tail(q)[i] = q[i + 1]
  BY HeadTailProperties
<1>2. /\ DOMAIN Tail(q) = 1..Len(Tail(q)) /\ DOMAIN q = 1..Len(q) /\ Len(q) \in Nat \ {0}
      /\ Len(Tail(q)) \in Nat
  BY <1>1, LenProperties, EmptySeq
<1>3. AsksIn(Tail(q)) \subseteq AsksIn(q)
  <2> SUFFICES ASSUME NEW i \in 1..Len(Tail(q)), Tail(q)[i].kind = "ask"
               PROVE  Tail(q)[i].id \in AsksIn(q)
    BY <1>2 DEF AsksIn
  <2>1. i + 1 \in 1..Len(q) /\ Tail(q)[i] = q[i + 1]
    BY <1>1, <1>2
  <2>2. QED
    BY <1>2, <2>1 DEF AsksIn
<1>4. ASSUME NEW i \in 1..Len(q), q[i].kind = "ask", i # 1
      PROVE  q[i].id \in AsksIn(Tail(q))
  <2>1. i - 1 \in 1..Len(Tail(q)) /\ Tail(q)[i - 1] = q[i - 1 + 1] /\ i - 1 + 1 = i
    BY <1>1, <1>2, <1>4
  <2>2. QED
    BY <1>2, <1>4, <2>1 DEF AsksIn
<1>5. AsksIn(q) = {q[i].id : i \in {j \in 1..Len(q) : q[j].kind = "ask"}} /\ 1 \in 1..Len(q)
  BY <1>2 DEF AsksIn
<1>6. QED
  BY <1>1, <1>3, <1>4, <1>5

LEMMA AppendAsks ==
  ASSUME NEW q \in Seq(Envelope), NEW e \in Envelope
  PROVE  AsksIn(Append(q, e)) = AsksIn(q) \cup (IF e.kind = "ask" THEN {e.id} ELSE {})
<1>1. PICK a : a = Append(q, e)
  OBVIOUS
<1>2. /\ a \in Seq(Envelope) /\ Len(a) = Len(q) + 1
      /\ \A i \in 1..Len(q) : a[i] = q[i]
      /\ a[Len(q) + 1] = e
  BY <1>1, AppendProperties
<1>3. DOMAIN a = 1..(Len(q) + 1) /\ DOMAIN q = 1..Len(q) /\ Len(q) \in Nat
  BY <1>2, LenProperties
<1>4. \A i : i \in 1..(Len(q) + 1) <=> i \in 1..Len(q) \/ i = Len(q) + 1
  BY <1>3
<1>5. AsksIn(a) = AsksIn(q) \cup (IF e.kind = "ask" THEN {e.id} ELSE {})
  <2>1. \A x : x \in AsksIn(a) <=> \E i \in 1..(Len(q) + 1) : a[i].kind = "ask" /\ x = a[i].id
    BY <1>3 DEF AsksIn
  <2>2. \A x : x \in AsksIn(q) <=> \E i \in 1..Len(q) : q[i].kind = "ask" /\ x = q[i].id
    BY <1>3 DEF AsksIn
  <2>3. \A x : x \in AsksIn(a) <=> x \in AsksIn(q) \/ (e.kind = "ask" /\ x = e.id)
    BY <1>2, <1>4, <2>1, <2>2
  <2>4. QED
    BY <2>3
<1>6. QED
  BY <1>1, <1>5

\* The head of an ordered queue is the oldest, and the rest is in order.
LEMMA TailInOrder ==
  ASSUME TypeOK, InboxInOrder, inbox # <<>>, inbox' = Tail(inbox)
  PROVE  /\ InboxInOrder'
         /\ Head(inbox).kind = "ask" => \A y \in AsksIn(inbox') : Head(inbox).id < y
<1>1. inbox \in Seq(Envelope)
  BY DEF TypeOK
<1>2. /\ inbox' \in Seq(Envelope) /\ Len(inbox') = Len(inbox) - 1 /\ Head(inbox) = inbox[1]
      /\ \A i \in 1..Len(inbox') : inbox'[i] = inbox[i + 1]
  BY <1>1, HeadTailProperties
<1>3. /\ DOMAIN inbox' = 1..Len(inbox') /\ DOMAIN inbox = 1..Len(inbox)
      /\ Len(inbox) \in Nat \ {0} /\ Len(inbox') \in Nat
  BY <1>1, <1>2, LenProperties, EmptySeq
<1>4. ASSUME NEW i \in 1..Len(inbox')
      PROVE  /\ inbox'[i] = inbox[i + 1] /\ i \in Nat /\ i + 1 \in 1..Len(inbox)
             /\ 1 \in 1..Len(inbox) /\ 1 < i + 1
  BY <1>2, <1>3
<1>5. ASSUME NEW i \in 1..Len(inbox'), NEW j \in 1..Len(inbox'), i < j,
             inbox'[i].kind = "ask", inbox'[j].kind = "ask"
      PROVE  inbox'[i].id < inbox'[j].id
  <2>1. /\ inbox'[i] = inbox[i + 1] /\ inbox'[j] = inbox[j + 1]
        /\ i + 1 \in 1..Len(inbox) /\ j + 1 \in 1..Len(inbox) /\ i + 1 < j + 1
    BY <1>4, <1>5
  <2>2. inbox[i + 1].id < inbox[j + 1].id
    BY <1>3, <1>5, <2>1 DEF InboxInOrder
  <2>3. QED
    BY <2>1, <2>2
<1>6. ASSUME NEW i \in 1..Len(inbox'), inbox[1].kind = "ask", inbox'[i].kind = "ask"
      PROVE  inbox[1].id < inbox'[i].id
  <2>1. inbox'[i] = inbox[i + 1] /\ i + 1 \in 1..Len(inbox) /\ 1 \in 1..Len(inbox) /\ 1 < i + 1
    BY <1>4
  <2>2. QED
    BY <1>3, <1>6, <2>1 DEF InboxInOrder
<1>7. InboxInOrder'
  BY <1>3, <1>5 DEF InboxInOrder
<1>8. QED
  BY <1>2, <1>3, <1>6, <1>7 DEF AsksIn

\* An envelope put at the end is no message, or the latest.
LEMMA AppendInOrder ==
  ASSUME TypeOK, InboxInOrder, NEW e \in Envelope, inbox' = Append(inbox, e),
         e.kind = "ask" => \A x \in AsksIn(inbox) : x < e.id
  PROVE  InboxInOrder'
<1>1. /\ inbox' \in Seq(Envelope) /\ Len(inbox') = Len(inbox) + 1
      /\ \A i \in 1..Len(inbox) : inbox'[i] = inbox[i]
      /\ inbox'[Len(inbox) + 1] = e
  BY AppendProperties DEF TypeOK
<1>2. DOMAIN inbox' = 1..(Len(inbox) + 1) /\ DOMAIN inbox = 1..Len(inbox) /\ Len(inbox) \in Nat
  BY <1>1, LenProperties DEF TypeOK
<1> SUFFICES ASSUME NEW i \in 1..(Len(inbox) + 1), NEW j \in 1..(Len(inbox) + 1), i < j,
                    inbox'[i].kind = "ask", inbox'[j].kind = "ask"
             PROVE  inbox'[i].id < inbox'[j].id
  BY <1>2 DEF InboxInOrder
<1>3. i \in 1..Len(inbox) /\ inbox'[i] = inbox[i]
  BY <1>1, <1>2
<1>4. CASE j \in 1..Len(inbox)
  BY <1>1, <1>2, <1>3, <1>4 DEF InboxInOrder
<1>5. CASE j = Len(inbox) + 1
  BY <1>1, <1>2, <1>3, <1>5 DEF AsksIn
<1>6. QED
  BY <1>2, <1>4, <1>5

\* What is in the line, by type.
LEMMA LineTyped ==
  ASSUME TypeOK
  PROVE  /\ inbox \in Seq(Envelope) /\ pending \in Seq(Nat) /\ Batch \in Seq(Nat)
         /\ AsksIn(inbox) \subseteq Nat /\ AsksOf(pending) \subseteq Nat /\ AsksOf(Batch) \subseteq Nat
         /\ sent \in Nat
<1>1. inbox \in Seq(Envelope) /\ pending \in Seq(Nat) /\ Batch \in Seq(Nat) /\ sent \in Nat
  BY DEF TypeOK, TaskState, Tasks, Batch
<1>2. AsksIn(inbox) \subseteq Nat /\ AsksOf(pending) \subseteq Nat /\ AsksOf(Batch) \subseteq Nat
  BY WaitingTyped, WaitingIs
<1>3. QED
  BY <1>1, <1>2

\* The line stays as it is.
LEMMA LineStays ==
  ASSUME TypeOK, LineInv, UNCHANGED <<inbox, pending, sent>>, Batch' = Batch,
         Batch # <<>> => at'["consumer"].pc = "emit"
  PROVE  LineInv' /\ Waiting' = Waiting
<1>1. Waiting' = Waiting
  BY WaitingIs, WaitingWillBe
<1>2. BatchIsPublished' /\ InboxInOrder' /\ FoldedFirst' /\ WaitingSent'
  BY <1>1 DEF LineInv, BatchIsPublished, InboxInOrder, FoldedFirst, WaitingSent
<1>3. QED
  BY <1>1, <1>2 DEF LineInv

\* An envelope that is no message leaves the inbox.
LEMMA OtherTaken ==
  ASSUME TypeOK, LineInv, inbox # <<>>, Head(inbox).kind # "ask", inbox' = Tail(inbox),
         UNCHANGED <<pending, sent>>, Batch = <<>>, Batch' = <<>>
  PROVE  LineInv' /\ Waiting' = Waiting
<1>1. AsksIn(inbox') = AsksIn(inbox)
  BY LineTyped, TailAsks
<1>2. Waiting' = Waiting
  BY <1>1, WaitingIs, WaitingWillBe
<1>3. InboxInOrder'
  BY TailInOrder DEF LineInv
<1>4. BatchIsPublished' /\ FoldedFirst' /\ WaitingSent'
  BY <1>1, <1>2 DEF LineInv, BatchIsPublished, FoldedFirst, WaitingSent
<1>5. QED
  BY <1>2, <1>3, <1>4 DEF LineInv

\* A message leaves the inbox and is folded behind the others.
LEMMA MessageFolded ==
  ASSUME TypeOK, LineInv, inbox # <<>>, Head(inbox).kind = "ask", inbox' = Tail(inbox),
         pending' = Append(pending, Head(inbox).id), UNCHANGED sent, Batch = <<>>, Batch' = <<>>
  PROVE  LineInv' /\ Waiting' = Waiting
<1>1. PICK m : m = Head(inbox).id
  OBVIOUS
<1>2. m \in Nat /\ AsksIn(inbox) = {m} \cup AsksIn(inbox') /\ \A y \in AsksIn(inbox') : m < y
  <2>1. Head(inbox) \in Envelope
    BY LineTyped, HeadTailProperties
  <2>2. m \in Nat
    BY <1>1, <2>1 DEF Envelope
  <2>3. QED
    BY <1>1, <2>2, LineTyped, TailAsks, TailInOrder DEF LineInv
<1>3. AsksOf(pending') = AsksOf(pending) \cup {m}
  BY <1>1, <1>2, LineTyped, AsksOfAppend
<1>4. Waiting' = Waiting
  BY <1>2, <1>3, WaitingIs, WaitingWillBe
<1>5. InboxInOrder'
  BY TailInOrder DEF LineInv
<1>6. FoldedFirst'
  BY <1>2, <1>3 DEF LineInv, FoldedFirst
<1>7. BatchIsPublished' /\ WaitingSent'
  BY <1>4 DEF LineInv, BatchIsPublished, WaitingSent
<1>8. QED
  BY <1>4, <1>5, <1>6, <1>7 DEF LineInv

\* A message leaves the inbox for a turn of its own: it is the oldest.
LEMMA MessageTaken ==
  ASSUME TypeOK, LineInv, inbox # <<>>, Head(inbox).kind = "ask", inbox' = Tail(inbox),
         pending = <<>>, UNCHANGED <<pending, sent>>, Batch = <<>>, Batch' = <<>>
  PROVE  /\ LineInv' /\ Promise!Oldest({Head(inbox).id})
         /\ Waiting' = Waiting \ {Head(inbox).id}
<1>1. PICK m : m = Head(inbox).id
  OBVIOUS
<1>2. AsksIn(inbox) = {m} \cup AsksIn(inbox') /\ \A y \in AsksIn(inbox') : m < y
  BY <1>1, LineTyped, TailAsks, TailInOrder DEF LineInv
<1>3. Waiting = {m} \cup AsksIn(inbox') /\ Waiting' = AsksIn(inbox')
  BY <1>2, AsksOfNone, WaitingIs, WaitingWillBe
<1>4. m \in Nat /\ m \notin AsksIn(inbox')
  <2>1. m \in Nat
    BY <1>2, LineTyped
  <2>2. ~(m < m)
    BY <2>1
  <2>3. QED
    BY <1>2, <2>1, <2>2
<1>5. Waiting' = Waiting \ {m} /\ Promise!Oldest({m})
  BY <1>2, <1>3, <1>4 DEF Promise!Oldest
<1>6. InboxInOrder'
  BY TailInOrder DEF LineInv
<1>7. BatchIsPublished' /\ FoldedFirst' /\ WaitingSent'
  BY <1>3, AsksOfNone DEF LineInv, BatchIsPublished, FoldedFirst, WaitingSent
<1>8. QED
  BY <1>1, <1>5, <1>6, <1>7 DEF LineInv

\* An envelope is put: no message, or the next one the owner sends.
LEMMA EnvelopePut ==
  ASSUME TypeOK, LineInv, NEW e \in Envelope, inbox' = Append(inbox, e),
         UNCHANGED pending, Batch' = Batch, Batch # <<>> => at'["consumer"].pc = "emit",
         \/ e.kind # "ask" /\ sent' = sent
         \/ e.kind = "ask" /\ e.id = sent + 1 /\ sent' = sent + 1
  PROVE  LineInv' /\ Waiting' = Waiting \cup (IF e.kind = "ask" THEN {sent + 1} ELSE {})
<1>1. AsksIn(inbox') = AsksIn(inbox) \cup (IF e.kind = "ask" THEN {sent + 1} ELSE {})
  BY LineTyped, AppendAsks
<1>2. Waiting' = Waiting \cup (IF e.kind = "ask" THEN {sent + 1} ELSE {})
  BY <1>1, WaitingIs, WaitingWillBe
<1>3. \A x \in Waiting : x \in Nat /\ x <= sent /\ x < sent + 1 /\ sent \in Nat
  BY LineTyped, WaitingTyped DEF LineInv, WaitingSent
<1>4. InboxInOrder'
  <2>1. e.kind = "ask" => \A x \in AsksIn(inbox) : x < e.id
    BY <1>3, WaitingIs
  <2>2. QED
    BY <2>1, AppendInOrder DEF LineInv
<1>5. FoldedFirst'
  <2>1. ASSUME NEW x \in AsksOf(Batch) \cup AsksOf(pending), NEW y \in AsksIn(inbox')
        PROVE  x < y
    <3>1. CASE y \in AsksIn(inbox)
      BY <3>1 DEF LineInv, FoldedFirst
    <3>2. CASE y = sent + 1
      BY <1>3, <3>2, WaitingIs
    <3>3. QED
      BY <1>1, <2>1, <3>1, <3>2
  <2>2. QED
    BY <2>1 DEF FoldedFirst
<1>6. WaitingSent'
  <2>1. \A m \in Waiting' : m <= sent'
    <3>1. CASE e.kind = "ask" /\ sent' = sent + 1
      BY <1>2, <1>3, <3>1, LineTyped
    <3>2. CASE e.kind # "ask" /\ sent' = sent
      BY <1>2, <1>3, <3>2
    <3>3. QED
      BY <3>1, <3>2
  <2>2. QED
    BY <2>1 DEF WaitingSent
<1>7. BatchIsPublished'
  BY DEF LineInv, BatchIsPublished
<1>8. QED
  BY <1>2, <1>4, <1>5, <1>6, <1>7 DEF LineInv

\* The folded messages leave for a turn, or are thrown away: they are the oldest.
LEMMA FoldedLeave ==
  ASSUME TypeOK, LineInv, pending' = <<>>, UNCHANGED <<inbox, sent>>, Batch = <<>>, Batch' = <<>>
  PROVE  /\ LineInv' /\ Promise!Oldest(AsksOf(pending))
         /\ Waiting' = Waiting \ AsksOf(pending)
<1>1. Waiting = AsksIn(inbox) \cup AsksOf(pending) /\ Waiting' = AsksIn(inbox)
  BY AsksOfNone, WaitingIs, WaitingWillBe
<1>2. \A x \in AsksOf(pending), y \in AsksIn(inbox) : x < y
  BY DEF LineInv, FoldedFirst
<1>3. AsksOf(pending) \cap AsksIn(inbox) = {}
  <2>1. \A x \in Nat : ~(x < x)
    OBVIOUS
  <2>2. QED
    BY <1>2, <2>1, LineTyped
<1>4. Waiting' = Waiting \ AsksOf(pending) /\ Promise!Oldest(AsksOf(pending))
  BY <1>1, <1>2, <1>3 DEF Promise!Oldest
<1>5. BatchIsPublished' /\ InboxInOrder' /\ FoldedFirst' /\ WaitingSent'
  BY <1>1, AsksOfNone DEF LineInv, BatchIsPublished, InboxInOrder, FoldedFirst, WaitingSent
<1>6. QED
  BY <1>4, <1>5 DEF LineInv

\* The folded messages go into the consumer's hand.
LEMMA FoldedInHand ==
  ASSUME TypeOK, LineInv, pending' = <<>>, UNCHANGED <<inbox, sent>>, Batch = <<>>, Batch' = pending,
         at'["consumer"].pc = "emit"
  PROVE  LineInv' /\ Waiting' = Waiting
<1>1. Waiting' = Waiting
  BY AsksOfNone, WaitingIs, WaitingWillBe
<1>2. FoldedFirst'
  BY AsksOfNone DEF LineInv, FoldedFirst
<1>3. BatchIsPublished' /\ InboxInOrder' /\ WaitingSent'
  BY <1>1 DEF LineInv, BatchIsPublished, InboxInOrder, WaitingSent
<1>4. QED
  BY <1>1, <1>2, <1>3 DEF LineInv

\* The batch in hand leaves for its turn: it is the oldest.
LEMMA BatchLeaves ==
  ASSUME TypeOK, LineInv, UNCHANGED <<inbox, pending, sent>>, Batch # <<>>, Batch' = <<>>
  PROVE  /\ LineInv' /\ Promise!Oldest(AsksOf(Batch))
         /\ Waiting' = Waiting \ AsksOf(Batch)
<1>1. Waiting = AsksIn(inbox) \cup AsksOf(Batch) /\ Waiting' = AsksIn(inbox)
  BY AsksOfNone, WaitingIs, WaitingWillBe DEF LineInv, BatchIsPublished
<1>2. \A x \in AsksOf(Batch), y \in AsksIn(inbox) : x < y
  BY DEF LineInv, FoldedFirst
<1>3. AsksOf(Batch) \cap AsksIn(inbox) = {}
  <2>1. \A x \in Nat : ~(x < x)
    OBVIOUS
  <2>2. QED
    BY <1>2, <2>1, LineTyped
<1>4. Waiting' = Waiting \ AsksOf(Batch) /\ Promise!Oldest(AsksOf(Batch))
  BY <1>1, <1>2, <1>3 DEF Promise!Oldest
<1>5. BatchIsPublished' /\ InboxInOrder' /\ WaitingSent'
  BY <1>1 DEF LineInv, BatchIsPublished, InboxInOrder, WaitingSent
<1>6. FoldedFirst'
  BY AsksOfNone DEF LineInv, FoldedFirst
<1>7. QED
  BY <1>4, <1>5, <1>6 DEF LineInv

-------------------------------------------------------------------------------
(* What became of the messages in turns *)

Thinking == IF Unfinished = {} THEN <<>> ELSE <<InTurns({"open"})>>
Settled  == InTurns({"answered", "degraded"})
Gone     == InTurns({"unspawned", "died"})

\* Before a turn begins none is undecided; a decided turn was the only one.
LEMMA WhoIsOpen ==
  ASSUME IInv, HInv, OneUndecided
  PROVE  /\ fence = 0 => Thinking = <<>> /\ Unfinished = {}
         /\ fence # 0 => /\ fence \in TurnIds /\ turns[fence].fate = "open" /\ Unfinished = {fence}
                         /\ Thinking = <<AsksOf(turns[fence].asks)>> /\ Thinking # <<>>
<1>1. 0 \notin TurnIds
  BY DEF TurnIds
<1>2. CASE fence = 0
  <2>1. Unfinished = {}
    BY <1>1, <1>2 DEF OneUndecided, Unfinished
  <2>2. QED
    BY <1>2, <2>1 DEF Thinking
<1>3. CASE fence # 0
  <2>1. fence = Len(turns) /\ Len(turns) \in Nat
    BY <1>3, TurnsTyped DEF IInv, OpenTurnIsStashed, HInv, StashIsLatest
  <2>2. fence \in TurnIds /\ turns[fence].fate = "open"
    BY <1>3, <2>1 DEF HInv, OpenIsOpen, TurnIds
  <2>3. Unfinished = {fence}
    BY <2>2 DEF OneUndecided, Unfinished
  <2>4. {u \in TurnIds : turns[u].fate \in {"open"}} = {fence}
    BY <2>3 DEF Unfinished
  <2>5. InTurns({"open"}) = AsksOf(turns[fence].asks)
    BY <2>4 DEF InTurns
  <2>6. QED
    BY <1>3, <2>2, <2>3, <2>5 DEF Thinking
<1>4. QED
  BY <1>2, <1>3

LEMMA TurnsStay ==
  ASSUME OneUndecided, UNCHANGED <<turns, fence>>
  PROVE  OneUndecided' /\ Thinking' = Thinking /\ Settled' = Settled /\ Gone' = Gone
<1>1. OneUndecided'
  BY DEF OneUndecided, TurnIds
<1>2. TurnIds' = TurnIds /\ Unfinished' = Unfinished
  BY DEF TurnIds, Unfinished
<1>3. Thinking' = Thinking /\ Settled' = Settled /\ Gone' = Gone
  BY <1>2 DEF Thinking, Settled, Gone, InTurns
<1>4. QED
  BY <1>1, <1>3

LEMMA TurnBegins ==
  ASSUME IInv, HInv, OneUndecided, fence = 0,
         NEW task \in Tasks, NEW kind \in Kinds, NEW asks \in Seq(Nat), NEW of \in Nat,
         Begin(task, kind, asks, of)
  PROVE  /\ OneUndecided' /\ Thinking = <<>> /\ Thinking' = <<AsksOf(asks)>>
         /\ Settled' = Settled /\ Gone' = Gone
<1>1. PICK n : n = Len(turns) + 1
  OBVIOUS
<1>2. Len(turns) \in Nat /\ n \in Nat /\ Unfinished = {} /\ Thinking = <<>>
  BY <1>1, TurnsTyped, WhoIsOpen DEF IInv
<1>3. PICK r : r = [kind |-> kind, asks |-> asks, of |-> of, fate |-> "open"]
  OBVIOUS
<1>4. /\ Len(turns') = n /\ turns'[n] = r
      /\ \A t \in TurnIds : turns'[t] = turns[t]
  <2>1. turns' = Append(turns, r) /\ turns \in Seq(Turn)
    BY <1>3 DEF Begin, IInv, TypeOK
  <2>2. r \in Turn
    BY <1>3 DEF Turn, Fates
  <2>3. QED
    BY <1>1, <2>1, <2>2, AppendProperties DEF TurnIds
<1>5. TurnIds' = TurnIds \cup {n} /\ n \notin TurnIds
  BY <1>1, <1>2, <1>4 DEF TurnIds
<1>6. r.fate = "open" /\ r.asks = asks /\ fence' = n
  BY <1>1, <1>3 DEF Begin, FenceOpen
<1>7. \A t \in TurnIds : turns[t].fate # "open"
  BY <1>2 DEF Unfinished
<1>8. Unfinished' = {n}
  BY <1>4, <1>5, <1>6, <1>7 DEF Unfinished
<1>9. OneUndecided'
  BY <1>6, <1>8 DEF OneUndecided, Unfinished
<1>10. InTurns({"open"})' = AsksOf(asks)
  <2>1. {u \in TurnIds' : turns'[u].fate \in {"open"}} = {n}
    BY <1>8 DEF Unfinished
  <2>2. InTurns({"open"})' = UNION {AsksOf(turns'[t].asks) : t \in {n}}
    BY <2>1 DEF InTurns, AsksOf
  <2>3. QED
    BY <1>4, <1>6, <2>2
<1>11. Settled' = Settled
  <2>1. {u \in TurnIds' : turns'[u].fate \in {"answered", "degraded"}}
          = {u \in TurnIds : turns[u].fate \in {"answered", "degraded"}}
    BY <1>4, <1>5, <1>6
  <2>2. QED
    BY <1>4, <2>1 DEF Settled, InTurns, AsksOf
<1>12. Gone' = Gone
  <2>1. {u \in TurnIds' : turns'[u].fate \in {"unspawned", "died"}}
          = {u \in TurnIds : turns[u].fate \in {"unspawned", "died"}}
    BY <1>4, <1>5, <1>6
  <2>2. QED
    BY <1>4, <2>1 DEF Gone, InTurns, AsksOf
<1>13. Thinking' = <<AsksOf(asks)>>
  BY <1>8, <1>10 DEF Thinking
<1>14. QED
  BY <1>2, <1>9, <1>11, <1>12, <1>13

\* Deciding the open turn moves its messages to where the decision says.
LEMMA TurnDecided ==
  ASSUME IInv, HInv, OneUndecided, fence # 0, fence' = 0, NEW fate \in Fates \ {"open"},
         Mark(fence, fate)
  PROVE  /\ OneUndecided' /\ Thinking # <<>> /\ Thinking' = <<>>
         /\ fate \in {"answered", "degraded"} => Settled' = Settled \cup Thinking[1] /\ Gone' = Gone
         /\ fate = "unspawned" => Settled' = Settled /\ Gone' = Gone \cup Thinking[1]
<1>1. PICK f, asks : f = fence /\ asks = turns[f].asks
  OBVIOUS
<1>2. /\ f \in TurnIds /\ turns[f].fate = "open" /\ Unfinished = {f}
      /\ Thinking = <<AsksOf(asks)>> /\ Thinking # <<>>
  BY <1>1, WhoIsOpen
<1>3. Mark(f, fate) /\ TypeOK
  BY <1>1 DEF IInv
<1>4. /\ Len(turns') = Len(turns) /\ turns'[f].fate = fate /\ turns'[f].asks = asks
      /\ \A u \in TurnIds \ {f} : turns'[u] = turns[u]
  <2>1. TurnsKept /\ Len(turns') = Len(turns) /\ turns'[f].fate = fate
    BY <1>2, <1>3, MarkKeepsTurns
  <2>2. turns'[f].asks = asks
    BY <1>1, <1>2, <2>1 DEF TurnsKept
  <2>3. \A u \in TurnIds \ {f} : turns'[u] = turns[u]
    BY <1>3, TurnsTyped DEF Mark
  <2>4. QED
    BY <2>1, <2>2, <2>3
<1>5. TurnIds' = TurnIds
  BY <1>4 DEF TurnIds
<1>6. Unfinished' = {}
  BY <1>2, <1>4, <1>5 DEF Unfinished
<1>7. OneUndecided' /\ Thinking' = <<>>
  BY <1>6 DEF OneUndecided, Unfinished, Thinking
\* Where a turn is counted before and after.
<1>8. ASSUME NEW fates, "open" \notin fates
      PROVE  /\ fate \in fates => InTurns(fates)' = InTurns(fates) \cup AsksOf(asks)
             /\ fate \notin fates => InTurns(fates)' = InTurns(fates)
  <2>1. \A x : x \in InTurns(fates) <=>
          \E t \in TurnIds : turns[t].fate \in fates /\ x \in AsksOf(turns[t].asks)
    BY DEF InTurns
  <2>2. \A x : x \in InTurns(fates)' <=>
          \E t \in TurnIds : turns'[t].fate \in fates /\ x \in AsksOf(turns'[t].asks)
    BY <1>5 DEF InTurns, AsksOf
  <2>3. \A t \in TurnIds : turns[t].fate \in fates => t # f
    BY <1>2, <1>8
  <2>4. \A x : x \in InTurns(fates)' <=>
          x \in InTurns(fates) \/ (fate \in fates /\ x \in AsksOf(asks))
    BY <1>2, <1>4, <2>1, <2>2, <2>3
  <2>5. QED
    BY <2>4
<1>9. Thinking[1] = AsksOf(asks)
  BY <1>2
<1>10. fate \in {"answered", "degraded"} => Settled' = Settled \cup Thinking[1] /\ Gone' = Gone
  BY <1>8, <1>9 DEF Settled, Gone
<1>11. fate = "unspawned" => Settled' = Settled /\ Gone' = Gone \cup Thinking[1]
  BY <1>8, <1>9 DEF Settled, Gone
<1>12. QED
  BY <1>2, <1>7, <1>10, <1>11

\* A death takes the undecided turn's messages with it.
LEMMA TurnDies ==
  ASSUME IInv, HInv, OneUndecided, Die
  PROVE  /\ OneUndecided' /\ Thinking' = <<>> /\ Settled' = Settled
         /\ Gone' = Gone \cup (IF Thinking = <<>> THEN {} ELSE Thinking[1])
<1>1. TypeOK /\ Len(turns') = Len(turns)
  BY DeathTyped DEF IInv
<1>2. TurnIds' = TurnIds
  BY <1>1 DEF TurnIds
<1>3. ASSUME NEW t \in TurnIds
      PROVE  /\ turns'[t].asks = turns[t].asks
             /\ turns'[t].fate = IF turns[t].fate = "open" THEN "died" ELSE turns[t].fate
  <2>1. turns'[t] = IF turns[t].fate = "open" THEN [turns[t] EXCEPT !.fate = "died"] ELSE turns[t]
    BY DEF Die
  <2>2. turns[t] \in Turn
    BY <1>1, TurnsTyped
  <2>3. CASE turns[t].fate = "open"
    BY <2>1, <2>2, <2>3 DEF Turn
  <2>4. CASE turns[t].fate # "open"
    BY <2>1, <2>4
  <2>5. QED
    BY <2>3, <2>4
<1>4. Unfinished' = {}
  BY <1>2, <1>3 DEF Unfinished
<1>5. OneUndecided' /\ Thinking' = <<>>
  BY <1>4 DEF OneUndecided, Unfinished, Thinking
<1>6. \A fates, x : x \in InTurns(fates) <=>
        \E t \in TurnIds : turns[t].fate \in fates /\ x \in AsksOf(turns[t].asks)
  BY DEF InTurns
<1>7. \A x : x \in Settled' <=>
        \E t \in TurnIds : turns'[t].fate \in {"answered", "degraded"} /\ x \in AsksOf(turns'[t].asks)
  BY <1>2 DEF Settled, InTurns, AsksOf
<1>8. \A x : x \in Gone' <=>
        \E t \in TurnIds : turns'[t].fate \in {"unspawned", "died"} /\ x \in AsksOf(turns'[t].asks)
  BY <1>2 DEF Gone, InTurns, AsksOf
<1>9. Settled' = Settled
  BY <1>3, <1>6, <1>7 DEF Settled
<1>10. \A x : x \in Gone' <=> x \in Gone \/ x \in InTurns({"open"})
  BY <1>3, <1>6, <1>8 DEF Gone
<1>11. InTurns({"open"}) = IF Thinking = <<>> THEN {} ELSE Thinking[1]
  <2>1. CASE Unfinished = {}
    <3>1. InTurns({"open"}) = {}
      BY <1>6, <2>1 DEF Unfinished
    <3>2. QED
      BY <2>1, <3>1 DEF Thinking
  <2>2. CASE Unfinished # {}
    BY <2>2 DEF Thinking
  <2>3. QED
    BY <2>1, <2>2
<1>12. Gone' = Gone \cup InTurns({"open"})
  BY <1>10
<1>13. QED
  BY <1>5, <1>9, <1>11, <1>12

-------------------------------------------------------------------------------
(* Step by step *)

LEMMA NothingPromised ==
  ASSUME UNCHANGED <<sent, deaths, dropped>>, Waiting' = Waiting, Thinking' = Thinking,
         Settled' = Settled, Gone' = Gone
  PROVE  UNCHANGED Promise!promiseVars
  BY DEF Promise!promiseVars, Thinking, Settled, Gone

LEMMA PromiseBegins ==
  ASSUME NEW S, Promise!Oldest(S), Waiting' = Waiting \ S, Thinking = <<>>, Thinking' = <<S>>,
         UNCHANGED <<sent, deaths, dropped>>, Settled' = Settled, Gone' = Gone
  PROVE  Promise!Begin
<1>1. S \in SUBSET Waiting
  BY DEF Promise!Oldest
<1>2. QED
  BY <1>1 DEF Promise!Begin, Thinking, Settled, Gone

LEMMA PromiseSettles ==
  ASSUME Thinking # <<>>, Thinking' = <<>>, Settled' = Settled \cup Thinking[1], Gone' = Gone,
         UNCHANGED <<sent, deaths, dropped>>, Waiting' = Waiting
  PROVE  Promise!Settle
  BY DEF Promise!Settle, Thinking, Settled, Gone

LEMMA PromiseAbandons ==
  ASSUME Thinking # <<>>, Thinking' = <<>>, Settled' = Settled, Gone' = Gone \cup Thinking[1],
         NEW S, Promise!Oldest(S), Waiting' = Waiting \ S, dropped' = dropped \cup S,
         UNCHANGED <<sent, deaths>>
  PROVE  Promise!Abandon
<1>1. S \in SUBSET Waiting
  BY DEF Promise!Oldest
<1>2. (dropped \cup Gone)' = dropped \cup Gone \cup Thinking[1] \cup S
  OBVIOUS
<1>3. QED
  BY <1>1, <1>2 DEF Promise!Abandon, Thinking, Settled, Gone

LEMMA PromiseDies ==
  ASSUME deaths < MaxDeaths, deaths' = deaths + 1, UNCHANGED sent,
         Waiting' = {}, dropped' = dropped \cup Waiting, Thinking' = <<>>, Settled' = Settled,
         Gone' = Gone \cup (IF Thinking = <<>> THEN {} ELSE Thinking[1])
  PROVE  Promise!Die
<1>1. (dropped \cup Gone)' = dropped \cup Gone \cup Waiting \cup (IF Thinking = <<>> THEN {} ELSE Thinking[1])
  OBVIOUS
<1>2. QED
  BY <1>1 DEF Promise!Die, Thinking, Settled, Gone

LEMMA PromiseAsks ==
  ASSUME sent < MaxAsks, sent' = sent + 1, Waiting' = Waiting \cup {sent + 1},
         UNCHANGED <<deaths, dropped>>, Thinking' = Thinking, Settled' = Settled, Gone' = Gone
  PROVE  Promise!Ask
  BY DEF Promise!Ask, Thinking, Settled, Gone

\* A task that goes on leaves the batch in the consumer's hand alone, or throws it away.
LEMMA BatchMoves ==
  ASSUME TypeOK, NEW task \in Tasks,
         \/ Leave(task)
         \/ \E control \in Controls : Goto(task, control)
         \/ \E kind, asks, of : Begin(task, kind, asks, of)
  PROVE  Batch' \in {<<>>, Batch} /\ (task # "consumer" => at'["consumer"] = at["consumer"])
<1>1. at \in [Tasks -> TaskState] /\ "consumer" \in Tasks
  BY DEF TypeOK, Tasks
<1>2. CASE Leave(task)
  BY <1>1, <1>2 DEF Leave, Resting, Batch
<1>3. CASE \E control \in Controls : Goto(task, control)
  <2>1. PICK control \in Controls : at' = [at EXCEPT ![task].pc = control]
    BY <1>3 DEF Goto
  <2>2. at'["consumer"].batch = at["consumer"].batch
    BY <1>1, <2>1 DEF TaskState
  <2>3. QED
    BY <1>1, <2>1, <2>2 DEF Batch
<1>4. CASE \E kind, asks, of : Begin(task, kind, asks, of)
  <2>1. PICK t : at' = [at EXCEPT ![task] = [pc |-> "start", turn |-> t, res |-> "fail", batch |-> <<>>]]
    BY <1>4 DEF Begin
  <2>2. QED
    BY <1>1, <2>1 DEF Batch
<1>5. QED
  BY <1>2, <1>3, <1>4

\* Whoever holds the slot and publishes nothing has the only batch there is: none.
LEMMA HandIsEmpty ==
  ASSUME IInv, LineInv, NEW task \in Tasks, at[task].pc \in {"start", "deliver", "gate", "reap"}
  PROVE  Batch = <<>>
<1>1. Holds(task) /\ at[task].pc # "emit" /\ "consumer" \in Tasks
  BY DEF Holds, Tasks
<1>2. Batch # <<>> => at["consumer"].pc = "emit" /\ Holds("consumer")
  BY DEF LineInv, BatchIsPublished, Batch, Holds
<1>3. QED
  BY <1>1, <1>2, Alone

\* While the slot is free, or held by a task that does not start a turn, none is open.
LEMMA NoneIsOpen ==
  ASSUME IInv, ~slot \/ \E task \in Tasks : Holds(task) /\ at[task].pc # "start"
  PROVE  fence = 0
<1>1. CASE ~slot
  BY <1>1, FreeSlot DEF IInv, OpenTurnIsHeld, Holds
<1>2. CASE \E task \in Tasks : Holds(task) /\ at[task].pc # "start"
  <2>1. PICK task \in Tasks : Holds(task) /\ at[task].pc # "start"
    BY <1>2
  <2>2. armed = 0 /\ \A other \in Tasks \ {task} : ~Holds(other)
    BY <2>1, Alone
  <2>3. QED
    BY <2>1, <2>2 DEF IInv, OpenTurnIsHeld, Holds
<1>3. QED
  BY <1>1, <1>2

Kept == PromiseInv' /\ [Promise!Next]_(Promise!promiseVars)

\* A step that leaves the turns and the line alone.
LEMMA QuietKept ==
  ASSUME PromiseInv, UNCHANGED <<turns, fence, sent, deaths, dropped>>, LineInv', Waiting' = Waiting
  PROVE  Kept
  BY TurnsStay, NothingPromised DEF PromiseInv, Kept

\* A step that begins a turn with the oldest messages.
LEMMA BeginKept ==
  ASSUME IInv, HInv, PromiseInv, fence = 0,
         NEW task \in Tasks, NEW kind \in Kinds, NEW asks \in Seq(Nat), NEW of \in Nat,
         Begin(task, kind, asks, of),
         LineInv', Promise!Oldest(AsksOf(asks)), Waiting' = Waiting \ AsksOf(asks),
         UNCHANGED <<sent, deaths, dropped>>
  PROVE  Kept
<1>1. /\ OneUndecided' /\ Thinking = <<>> /\ Thinking' = <<AsksOf(asks)>>
      /\ Settled' = Settled /\ Gone' = Gone
  BY TurnBegins DEF PromiseInv
<1>2. Promise!Begin
  BY <1>1, PromiseBegins
<1>3. QED
  BY <1>1, <1>2 DEF PromiseInv, Kept, Promise!Next

\* A turn of the pet's own takes no message.
LEMMA NoMessages == Promise!Oldest(AsksOf(<<>>)) /\ Waiting = Waiting \ AsksOf(<<>>)
  BY AsksOfNone DEF Promise!Oldest

\* A step that decides a turn by a reply or a degrade.
LEMMA SettleKept ==
  ASSUME IInv, HInv, PromiseInv, fence # 0, fence' = 0, NEW fate \in {"answered", "degraded"},
         Mark(fence, fate), LineInv', Waiting' = Waiting, UNCHANGED <<sent, deaths, dropped>>
  PROVE  Kept
<1>1. fate \in Fates \ {"open"}
  BY DEF Fates
<1>2. /\ OneUndecided' /\ Thinking # <<>> /\ Thinking' = <<>>
      /\ Settled' = Settled \cup Thinking[1] /\ Gone' = Gone
  BY <1>1, TurnDecided DEF PromiseInv
<1>3. Promise!Settle
  BY <1>2, PromiseSettles
<1>4. QED
  BY <1>2, <1>3 DEF PromiseInv, Kept, Promise!Next

LEMMA NextPromise ==
  ASSUME IInv, HInv, PromiseInv, [Next]_vars
  PROVE  Kept
<1> USE DEF arbiterVars, fenceVars, forkVars, storeVars, boundVars, NoTurnBegins
<1>0. "consumer" \in Tasks /\ "watch" \in Tasks /\ "scheduler" \in Tasks
  BY DEF Tasks
<1>1. TypeOK /\ LineInv /\ OneUndecided
  BY DEF IInv, PromiseInv
<1>2. /\ \A task \in Tasks : at[task] \in TaskState
      /\ <<>> \in Seq(Nat) /\ pending \in Seq(Nat) /\ Batch \in Seq(Nat)
  BY <1>1, RestingTyped, LineTyped DEF TypeOK
<1>3. /\ at["consumer"].pc # "emit" => Batch = <<>>
      /\ Batch # <<>> => at["consumer"].pc = "emit"
  BY <1>1 DEF LineInv, BatchIsPublished
<1>4. CASE Admit
  <2>1. Head(inbox) \in Envelope
    BY <1>1, <1>4, HeadTailProperties DEF Admit, Take, TypeOK
  <2>2. Head(inbox).id \in Nat
    BY <2>1 DEF Envelope
  <2>3. <<Head(inbox).id>> \in Seq(Nat)
    BY <2>2
  <2>4. /\ inbox # <<>> /\ Head(inbox).kind = "ask" /\ inbox' = Tail(inbox) /\ ~slot
        /\ Begin("consumer", "owner", <<Head(inbox).id>>, 0)
        /\ UNCHANGED <<pending, sent, deaths, dropped>> /\ Batch = <<>>
    BY <1>3, <1>4 DEF Admit, Take
  <2>5. pending = <<>> /\ fence = 0
    BY <2>4, NoneIsOpen DEF IInv, PendingIsAttended
  <2>6. Batch' = <<>>
    BY <1>0, <1>1, <2>4, BatchMoves
  <2>7. /\ LineInv' /\ Promise!Oldest({Head(inbox).id})
        /\ Waiting' = Waiting \ {Head(inbox).id}
    BY <1>1, <2>4, <2>5, <2>6, MessageTaken
  <2>8. AsksOf(<<Head(inbox).id>>) = {Head(inbox).id}
    BY AsksOfOne
  <2>9. QED
    BY <1>0, <2>3, <2>4, <2>5, <2>7, <2>8, BeginKept DEF Kinds
<1>5. CASE Coalesce
  <2>1. Batch = <<>> /\ Batch' = <<>>
    BY <1>3, <1>5 DEF Coalesce, Take, Batch
  <2>2. LineInv' /\ Waiting' = Waiting
    BY <1>1, <1>5, <2>1, MessageFolded DEF Coalesce, Take
  <2>3. QED
    BY <1>5, <2>2, QuietKept DEF Coalesce
<1>6. CASE TakeResult
  <2> DEFINE env == Head(inbox)
  <2>1. /\ inbox # <<>> /\ env.kind # "ask" /\ inbox' = Tail(inbox) /\ Batch = <<>>
        /\ Accepts(env.id) /\ FenceClose(env.id)
        /\ Mark(env.id, IF env.res = "fail" THEN "degraded" ELSE "answered")
        /\ at' = [at EXCEPT !["consumer"] =
             [pc |-> "deliver", turn |-> env.id, res |-> env.res, batch |-> <<>>]]
        /\ UNCHANGED <<pending, sent, deaths, dropped>>
    BY <1>3, <1>6 DEF TakeResult, Take
  <2>2. Batch' = <<>>
    BY <1>0, <1>1, <2>1 DEF Batch, TypeOK
  <2>3. LineInv' /\ Waiting' = Waiting
    BY <1>1, <2>1, <2>2, OtherTaken
  <2> HIDE DEF env
  <2>4. fence # 0 /\ fence = env.id /\ fence' = 0
    BY <2>1 DEF Accepts, FenceClose
  <2>5. Mark(fence, FateOf(env.res)) /\ FateOf(env.res) \in {"answered", "degraded"}
    BY <2>1, <2>4 DEF FateOf
  <2>6. QED
    BY <2>1, <2>3, <2>4, <2>5, SettleKept
<1>7. CASE DiscardResult \/ TapAnswered
  <2>1. /\ inbox # <<>> /\ Head(inbox).kind # "ask" /\ inbox' = Tail(inbox) /\ Batch = <<>>
        /\ UNCHANGED <<turns, fence, pending, sent, deaths, dropped>>
    BY <1>3, <1>7 DEF DiscardResult, TapAnswered, Take
  <2>2. Batch' = <<>>
    BY <1>0, <1>1, <1>7, <2>1, BatchMoves DEF DiscardResult, TapAnswered, Controls, Batch
  <2>3. LineInv' /\ Waiting' = Waiting
    BY <1>1, <2>1, <2>2, OtherTaken
  <2>4. QED
    BY <2>1, <2>3, QuietKept
<1>8. CASE TapResumes
  <2>1. Head(inbox) \in Envelope
    BY <1>1, <1>8, HeadTailProperties DEF TapResumes, Take, TypeOK
  <2>2. Head(inbox).id \in Nat
    BY <2>1 DEF Envelope
  <2>3. /\ inbox # <<>> /\ Head(inbox).kind # "ask" /\ inbox' = Tail(inbox) /\ ~slot
        /\ Begin("consumer", "resume", <<>>, Head(inbox).id)
        /\ UNCHANGED <<pending, sent, deaths, dropped>> /\ Batch = <<>>
    BY <1>3, <1>8 DEF TapResumes, Take
  <2>4. fence = 0 /\ Batch' = <<>>
    BY <1>0, <1>1, <2>3, NoneIsOpen, BatchMoves
  <2>5. LineInv' /\ Waiting' = Waiting
    BY <1>1, <2>3, <2>4, OtherTaken
  <2>6. QED
    BY <1>0, <1>2, <2>2, <2>3, <2>4, <2>5, NoMessages, BeginKept DEF Kinds
<1>9. CASE Dispatch
  <2>1. /\ ~slot /\ Begin("scheduler", "auto", <<>>, 0)
        /\ UNCHANGED <<inbox, pending, sent, deaths, dropped>>
    BY <1>9 DEF Dispatch
  <2>2. fence = 0 /\ at'["consumer"] = at["consumer"]
    BY <1>0, <1>1, <2>1, NoneIsOpen, BatchMoves
  <2>3. LineInv' /\ Waiting' = Waiting
    BY <1>1, <1>3, <2>1, <2>2, LineStays DEF Batch
  <2>4. QED
    BY <1>0, <1>2, <2>1, <2>2, <2>3, NoMessages, BeginKept DEF Kinds
<1>10. CASE Fire
  <2>1. /\ fence # 0 /\ fence = armed /\ fence' = 0 /\ Mark(fence, "degraded")
        /\ at' = [at EXCEPT !["watch"] =
             [pc |-> "deliver", turn |-> fence, res |-> "fail", batch |-> <<>>]]
        /\ UNCHANGED <<inbox, pending, sent, deaths, dropped>>
    BY <1>10 DEF Fire, FenceClose
  <2>2. at'["consumer"] = at["consumer"]
    BY <1>0, <1>1, <2>1 DEF TypeOK
  <2>3. LineInv' /\ Waiting' = Waiting
    BY <1>1, <1>3, <2>1, <2>2, LineStays DEF Batch
  <2>4. QED
    BY <2>1, <2>3, SettleKept
<1>11. ASSUME NEW task \in Tasks, Spawn(task) \/ DegradeEnds(task)
       PROVE  Kept
  <2>1. /\ at[task].pc \in {"start", "deliver"}
        /\ Leave(task) \/ Goto(task, "reap")
        /\ UNCHANGED <<turns, fence, inbox, pending, sent, deaths, dropped>>
    BY <1>11 DEF Spawn, DegradeEnds
  <2>2. Batch = <<>>
    BY <1>1, <2>1, HandIsEmpty
  <2>3. Batch' = <<>>
    BY <1>1, <2>1, <2>2, BatchMoves DEF Controls
  <2>4. LineInv' /\ Waiting' = Waiting
    BY <1>1, <2>1, <2>2, <2>3, LineStays
  <2>5. QED
    BY <2>1, <2>4, QuietKept
<1>12. CASE ReplyEnds \/ GateEnds \/ NoteSent
  <2>1. /\ at["consumer"].pc # "emit"
        /\ Leave("consumer") \/ Goto("consumer", "gate") \/ Goto("consumer", "reap")
        /\ UNCHANGED <<turns, fence, inbox, pending, sent, deaths, dropped>>
    BY <1>12 DEF ReplyEnds, GateEnds, NoteSent
  <2>2. Batch = <<>>
    BY <1>3, <2>1
  <2>3. Batch' = <<>>
    BY <1>0, <1>1, <2>1, <2>2, BatchMoves DEF Controls
  <2>4. LineInv' /\ Waiting' = Waiting
    BY <1>1, <2>1, <2>2, <2>3, LineStays
  <2>5. QED
    BY <2>1, <2>4, QuietKept
<1>13. CASE AnsweredTurnEnds
  <2>1. /\ Batch = <<>> /\ pending' = <<>>
        /\ at' = [at EXCEPT !["consumer"].pc = "emit", !["consumer"].batch = pending]
        /\ UNCHANGED <<turns, fence, inbox, sent, deaths, dropped>>
    BY <1>3, <1>13 DEF AnsweredTurnEnds, Complete
  <2>2. Batch' = pending /\ at'["consumer"].pc = "emit"
    BY <1>0, <1>1, <1>2, <2>1 DEF Batch, TypeOK, TaskState
  <2>3. LineInv' /\ Waiting' = Waiting
    BY <1>1, <2>1, <2>2, FoldedInHand
  <2>4. QED
    BY <2>1, <2>3, QuietKept
<1>14. CASE EmitEnds
  <2>1. UNCHANGED <<inbox, pending, sent, deaths, dropped>> /\ at["consumer"].pc = "emit"
    BY <1>14 DEF EmitEnds
  <2>2. CASE Batch = <<>>
    <3>1. Leave("consumer") /\ UNCHANGED <<turns, fence>>
      BY <1>14, <2>2 DEF EmitEnds, Batch
    <3>2. Batch' = <<>>
      BY <1>0, <1>1, <2>2, <3>1, BatchMoves
    <3>3. LineInv' /\ Waiting' = Waiting
      BY <1>1, <2>1, <2>2, <3>2, LineStays
    <3>4. QED
      BY <2>1, <3>1, <3>3, QuietKept
  <2>3. CASE Batch # <<>>
    <3>1. Begin("consumer", "owner", Batch, 0)
      BY <1>14, <2>3 DEF EmitEnds, Batch
    <3>2. Batch' = <<>>
      <4>1. PICK t : at' = [at EXCEPT !["consumer"] =
                              [pc |-> "start", turn |-> t, res |-> "fail", batch |-> <<>>]]
        BY <3>1 DEF Begin
      <4>2. QED
        BY <1>0, <1>1, <4>1 DEF Batch, TypeOK
    <3>3. fence = 0
      BY <1>0, <2>1, <2>3, NoneIsOpen DEF Holds, Batch
    <3>4. /\ LineInv' /\ Promise!Oldest(AsksOf(Batch))
          /\ Waiting' = Waiting \ AsksOf(Batch)
      BY <1>1, <2>1, <2>3, <3>2, BatchLeaves
    <3>5. QED
      BY <1>0, <1>2, <2>1, <3>1, <3>3, <3>4, BeginKept DEF Kinds
  <2>4. QED
    BY <2>2, <2>3
<1>15. ASSUME NEW task \in Tasks, DegradedTurnEnds(task)
       PROVE  Kept
  <2>1. /\ at[task].pc = "reap" /\ pending' = <<>>
        /\ UNCHANGED <<inbox, sent, deaths, dropped>>
    BY <1>15 DEF DegradedTurnEnds, Complete
  <2>2. Batch = <<>>
    BY <1>1, <2>1, HandIsEmpty
  <2>3. CASE pending = <<>>
    <3>1. Leave(task) /\ UNCHANGED <<turns, fence, pending>>
      BY <1>15, <2>1, <2>3 DEF DegradedTurnEnds
    <3>2. Batch' = <<>>
      BY <1>1, <2>2, <3>1, BatchMoves
    <3>3. LineInv' /\ Waiting' = Waiting
      BY <1>1, <2>1, <2>2, <3>1, <3>2, LineStays
    <3>4. QED
      BY <2>1, <3>1, <3>3, QuietKept
  <2>4. CASE pending # <<>>
    <3>1. Begin(task, "owner", pending, 0)
      BY <1>15, <2>4 DEF DegradedTurnEnds
    <3>2. Batch' = <<>>
      BY <1>1, <2>2, <3>1, BatchMoves
    <3>3. fence = 0
      BY <2>1, NoneIsOpen DEF Holds
    <3>4. /\ LineInv' /\ Promise!Oldest(AsksOf(pending))
          /\ Waiting' = Waiting \ AsksOf(pending)
      BY <1>1, <2>1, <2>2, <3>2, FoldedLeave
    <3>5. QED
      BY <1>2, <2>1, <3>1, <3>3, <3>4, BeginKept DEF Kinds
  <2>5. QED
    BY <2>3, <2>4
<1>16. ASSUME NEW task \in Tasks, SpawnFails(task)
       PROVE  Kept
  <2>1. /\ at[task].pc = "start" /\ FenceClose(at[task].turn) /\ Mark(at[task].turn, "unspawned")
        /\ Leave(task) /\ pending' = <<>> /\ dropped' = dropped \cup AsksOf(pending)
        /\ UNCHANGED <<inbox, sent, deaths>>
    BY <1>16 DEF SpawnFails, Reset
  <2>2. fence # 0 /\ fence' = 0 /\ Mark(fence, "unspawned")
    BY <1>16, <2>1 DEF IInv, StartIsOpen, FenceClose
  <2>3. Batch = <<>>
    BY <1>1, <2>1, HandIsEmpty
  <2>4. Batch' = <<>>
    BY <1>1, <2>1, <2>3, BatchMoves
  <2>5. /\ LineInv' /\ Promise!Oldest(AsksOf(pending))
        /\ Waiting' = Waiting \ AsksOf(pending)
    BY <1>1, <2>1, <2>3, <2>4, FoldedLeave
  <2>6. "unspawned" \in Fates \ {"open"}
    BY DEF Fates
  <2>7. /\ OneUndecided' /\ Thinking # <<>> /\ Thinking' = <<>>
        /\ Settled' = Settled /\ Gone' = Gone \cup Thinking[1]
    BY <1>1, <2>2, <2>6, TurnDecided
  <2>8. Promise!Abandon
    BY <2>1, <2>5, <2>7, PromiseAbandons
  <2>9. QED
    BY <2>5, <2>7, <2>8 DEF PromiseInv, Kept, Promise!Next
<1>17. CASE Die
  <2>1. /\ deaths < MaxDeaths /\ deaths' = deaths + 1 /\ sent' = sent
        /\ inbox' = <<>> /\ pending' = <<>> /\ dropped' = dropped \cup Waiting
    BY <1>17 DEF Die
  <2>2. Batch' = <<>>
    BY <1>0, <1>17 DEF Die, Batch, Resting
  <2>3. AsksIn(inbox') = {} /\ DOMAIN inbox' = {}
    BY <2>1 DEF AsksIn
  <2>4. Waiting' = {}
    BY <2>1, <2>2, <2>3, AsksOfNone, WaitingWillBe
  <2>5. LineInv'
    BY <2>2, <2>3, <2>4 DEF LineInv, BatchIsPublished, InboxInOrder, FoldedFirst, WaitingSent
  <2>6. /\ OneUndecided' /\ Thinking' = <<>> /\ Settled' = Settled
        /\ Gone' = Gone \cup (IF Thinking = <<>> THEN {} ELSE Thinking[1])
    BY <1>1, <1>17, TurnDies
  <2>7. Promise!Die
    BY <2>1, <2>4, <2>6, PromiseDies
  <2>8. QED
    BY <2>5, <2>6, <2>7 DEF PromiseInv, Kept, Promise!Next
<1>18. CASE OwnerAsks
  <2> DEFINE e == [kind |-> "ask", id |-> sent + 1, res |-> "none"]
  <2>1. e \in Envelope /\ e.kind = "ask" /\ e.id = sent + 1
    BY <1>1 DEF Envelope, TypeOK
  <2>2. /\ sent < MaxAsks /\ sent' = sent + 1 /\ inbox' = Append(inbox, e)
        /\ UNCHANGED <<turns, fence, pending, deaths, dropped, at>>
    BY <1>18 DEF OwnerAsks
  <2> HIDE DEF e
  <2>3. Batch' = Batch
    BY <2>2 DEF Batch
  <2>4. LineInv' /\ Waiting' = Waiting \cup {sent + 1}
    BY <1>1, <1>3, <2>1, <2>2, <2>3, EnvelopePut
  <2>5. OneUndecided' /\ Thinking' = Thinking /\ Settled' = Settled /\ Gone' = Gone
    BY <1>1, <2>2, TurnsStay
  <2>6. Promise!Ask
    BY <2>2, <2>4, <2>5, PromiseAsks
  <2>7. QED
    BY <2>4, <2>5, <2>6 DEF PromiseInv, Kept, Promise!Next
<1>19. CASE OwnerTaps \/ HubDelivers
  <2>1. /\ \E e \in Envelope : e.kind # "ask" /\ inbox' = Append(inbox, e)
        /\ UNCHANGED <<turns, fence, pending, sent, deaths, dropped, at>>
    <3>1. CASE OwnerTaps
      <4>1. PICK t \in offered : inbox' = Append(inbox, [kind |-> "tap", id |-> t, res |-> "none"])
        BY <3>1 DEF OwnerTaps
      <4>2. [kind |-> "tap", id |-> t, res |-> "none"] \in Envelope
        BY <1>1, <4>1 DEF Envelope, TypeOK
      <4>3. QED
        BY <3>1, <4>1, <4>2 DEF OwnerTaps
    <3>2. CASE HubDelivers
      <4>1. PICK r \in wire : inbox' = Append(inbox, [kind |-> "result", id |-> r.id, res |-> r.res])
        BY <3>2 DEF HubDelivers
      <4>2. [kind |-> "result", id |-> r.id, res |-> r.res] \in Envelope
        BY <1>1, <4>1 DEF Envelope, TypeOK
      <4>3. QED
        BY <3>2, <4>1, <4>2 DEF HubDelivers
    <3>3. QED
      BY <1>19, <3>1, <3>2
  <2>2. PICK e \in Envelope : e.kind # "ask" /\ inbox' = Append(inbox, e)
    BY <2>1
  <2>3. Batch' = Batch
    BY <2>1 DEF Batch
  <2>4. LineInv' /\ Waiting' = Waiting
    BY <1>1, <1>3, <2>1, <2>2, <2>3, EnvelopePut
  <2>5. QED
    BY <2>1, <2>4, QuietKept
<1>20. CASE Reap \/ WorkerAnswers \/ Rest \/ UNCHANGED vars
  <2>1. UNCHANGED <<turns, fence, inbox, pending, sent, deaths, dropped, at>>
    BY <1>20 DEF Reap, WorkerAnswers, Rest, vars
  <2>2. Batch' = Batch
    BY <2>1 DEF Batch
  <2>3. LineInv' /\ Waiting' = Waiting
    BY <1>1, <1>3, <2>1, <2>2, LineStays
  <2>4. QED
    BY <2>1, <2>3, QuietKept
<1>21. QED
  BY <1>4, <1>5, <1>6, <1>7, <1>8, <1>9, <1>10, <1>11, <1>12, <1>13, <1>14, <1>15, <1>16, <1>17,
     <1>18, <1>19, <1>20
  DEF Next, TakeEnvelope, ConsumerResumes, Resume, Environment

LEMMA InitPromise == Init => PromiseInv /\ Promise!Init
<1> SUFFICES ASSUME Init PROVE PromiseInv /\ Promise!Init
  OBVIOUS
<1>1. /\ inbox = <<>> /\ pending = <<>> /\ turns = <<>> /\ dropped = {} /\ sent = 0 /\ deaths = 0
      /\ Batch = <<>>
  BY DEF Init, Batch, Tasks, Resting
<1>2. AsksIn(inbox) = {} /\ DOMAIN inbox = {} /\ TurnIds = {}
  BY <1>1 DEF AsksIn, TurnIds
<1>3. Waiting = {}
  BY <1>1, <1>2, AsksOfNone, WaitingIs
<1>4. Thinking = <<>> /\ Settled = {} /\ Gone = {}
  BY <1>2 DEF Thinking, Settled, Gone, InTurns, Unfinished
<1>5. PromiseInv
  BY <1>1, <1>2, <1>3
  DEF PromiseInv, LineInv, BatchIsPublished, InboxInOrder, FoldedFirst, WaitingSent, OneUndecided
<1>6. Promise!Init
  BY <1>1, <1>3, <1>4 DEF Promise!Init, Thinking, Settled, Gone
<1>7. QED
  BY <1>5, <1>6

\* The queues, tasks and workers of core/runtime.py add up to what the owner was promised:
\* one batch at a time, in the order the messages were sent, each dealt with once, and lost
\* only to a turn that could not start or to a death.
THEOREM TurnLoopKeepsPromise == Spec => PromiseKept
<1>1. Init => PromiseInv /\ Promise!Init
  BY InitPromise
<1>2. IInv /\ HInv /\ PromiseInv /\ [Next]_vars => PromiseInv' /\ [Promise!Next]_(Promise!promiseVars)
  BY NextPromise DEF Kept
<1>3. QED
  BY <1>1, <1>2, HInvCorrect, PTL DEF Spec, PromiseKept, Promise!Spec
===============================================================================
