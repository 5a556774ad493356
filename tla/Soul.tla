--------------------------------- MODULE Soul ---------------------------------
(***************************************************************************)
(* What the pet writes about itself and its owner: the ops a finished turn *)
(* proposes (core/runtime.py _apply_proposed_ops) on the curated markdown  *)
(* tree (core/memory.py) and on the learnings table (core/history.py), the *)
(* dream that reviews the learnings (core/dispatch.py, core/proactive.py), *)
(* and the conversations parked for a tap.                                 *)
(*                                                                         *)
(* A conversation reads the whole tree once, when its prompt is built in   *)
(* the fork (worker/prompt.py gather_context), and replaces whole files    *)
(* minutes later.  No version is compared: what keeps an update from being *)
(* lost is the arbiter's slot, held across every await from the dispatch   *)
(* to the reap, and the fence.  So the model has several turns alive, each *)
(* at its own await, and marks every conversation that has read what       *)
(* another writes: turns at work, turns the timeout gave up, parked ones.  *)
(*                                                                         *)
(* An op that is rejected, that fails, or that is over MAX_PROPOSED_OPS is *)
(* one that is not taken.  Contents are left out: the model behind the     *)
(* provider may rewrite any file and resolve any learning, in any turn.    *)
(***************************************************************************)
EXTENDS Naturals, Sequences, FiniteSets

CONSTANTS
  TurnIds,      \* ids of turns alive, late ones included; free ones are used again
  NoTurn,       \* the fence between turns
  MaxCaptures,  \* captures of a learning over all turns
  Limit,        \* learnings one dream is given
  MaxParks,     \* rows ever parked
  Keys, NoKey   \* pattern_keys, and None

ASSUME SoulAssumption ==
  /\ MaxCaptures \in Nat /\ Limit \in Nat \ {0} /\ MaxParks \in Nat
  /\ NoTurn \notin TurnIds /\ NoKey \notin Keys

VARIABLES
  rows,       \* the learnings table by id: pattern_key, recurrence_count, status
  directive,  \* the parked row DIRECTIVE.md was last written from, 0 for none
  parked,     \* pending_approvals, and what has become of each row
  captures,   \* how much of MaxCaptures is used
  slot,       \* the arbiter's: "free", a "turn", or a "fold" that is about to start
  fence,      \* the turn whose Result is accepted
  isOwner,    \* _current_turn_is_owner, of the turn that started last
  stage,      \* where each turn is, see Stages
  conv,       \* the conversation of each turn
  parkedNow   \* the row the ops in progress have parked, 0 for none (parked_approval)

storeVars == <<rows, directive, captures>>
coreVars  == <<slot, fence, isOwner>>
vars == <<storeVars, parked, coreVars, stage, conv, parkedNow>>

-------------------------------------------------------------------------------
(* Conversations *)

\* What a rewrite_* op can name; SOUL.md, IDENTITY.md and about.md are like
\* USER.md, BOT_INSTRUCTIONS.md and the collections like summary.md.
Files == {"USER.md", "summary.md"}

\* PERSONA_REWRITE_OPS: the files a tool call before a pause may rewrite
Persona == {"USER.md"}

Ids   == 1 .. MaxCaptures
Convs == [kind : {"owner", "self"}, resumed : BOOLEAN, named : SUBSET Ids,
          behind : BOOLEAN]
Parks == [what : {"call", "directive"}, open : BOOLEAN, conv : Convs]

\* gather_context reads every file; the prompt names these learnings.
Fresh(kind, named) ==
  [kind |-> kind, resumed |-> FALSE, named |-> named, behind |-> FALSE]

\* What a closed row leaves behind: whose it was.
Spent(c) == [Fresh(c.kind, {}) EXCEPT !.resumed = c.resumed]

OwnerIsThere(c) == c.kind = "owner" \/ c.resumed

\* The ops of a "text" Result, those of a pause before ("call") and after ("persona")
\* its RequestToolApproval: one synchronous block of the core.
Applying == {"text", "call", "persona"}

\* Pushing the face before the fork; the worker at work; the reply being sent; after
\* the ops, at the tool gate or the reap; given up by the timeout, its reap awaited.
Holding == Applying \cup {"starting", "working", "replying", "ending", "wedged"}

Stages == Holding \cup {"none", "late"}

\* No other task of the core runs while ops are applied.
AtAwaits == \A t \in TurnIds : stage[t] \notin Applying

\* The prompt of a resumed turn is the one that was parked.
HaveRead == {t \in TurnIds : stage[t] \notin {"none", "starting"}
                              \/ (stage[t] = "starting" /\ conv[t].resumed)}

Missed(c) == [c EXCEPT !.behind = TRUE]

\* A write: of the conversations that have read what is written, all but the writer
\* (and the copy of it parked just now) are behind.
Elsewhere(turns, readers, rowsOf) ==
  /\ conv' = [t \in TurnIds |->
                IF t \in turns /\ conv[t] \in readers THEN Missed(conv[t]) ELSE conv[t]]
  /\ parked' = [i \in DOMAIN rowsOf |->
                  IF rowsOf[i].open /\ i # parkedNow /\ rowsOf[i].conv \in readers
                  THEN [rowsOf[i] EXCEPT !.conv = Missed(@)] ELSE rowsOf[i]]

-------------------------------------------------------------------------------
(* Learnings *)

Pending == {i \in DOMAIN rows : rows[i].status = "pending"}

\* pending_learnings: ORDER BY recurrence_count DESC, id ASC LIMIT
Listed ==
  {i \in Pending :
     Cardinality({j \in Pending : \/ rows[j].count > rows[i].count
                                  \/ rows[j].count = rows[i].count /\ j < i}) < Limit}

-------------------------------------------------------------------------------
(* Turns, from one await to the next *)

\* Mutant: a turn after an owner's is taken for the owner's too.
BeginOnceOwner(t, c, owner) ==
  /\ stage[t] = "none"
  /\ slot' = "turn" /\ fence' = t /\ isOwner' = (isOwner \/ owner)
  /\ stage' = [stage EXCEPT ![t] = "starting"] /\ conv' = [conv EXCEPT ![t] = c]
  /\ UNCHANGED <<storeVars, parkedNow>>

\* Up to the first await: the stash is this turn's, and its fence is open.
Begin(t, c, owner) ==
  /\ stage[t] = "none"
  /\ slot' = "turn" /\ fence' = t /\ isOwner' = owner
  /\ stage' = [stage EXCEPT ![t] = "starting"] /\ conv' = [conv EXCEPT ![t] = c]
  /\ UNCHANGED <<storeVars, parkedNow>>

OwnerTurn(t) ==
  /\ slot \in {"free", "fold"} /\ Begin(t, Fresh("owner", {}), TRUE)
  /\ UNCHANGED parked

\* A proactive turn.
Muse(t) ==
  /\ slot = "free" /\ Begin(t, Fresh("self", {}), FALSE)
  /\ UNCHANGED parked

\* With nothing pending the prompt is "" and the job is skipped.  Whatever the
\* owner did to DREAM.md, the prompt lists the learnings.
Dream(t) ==
  /\ slot = "free" /\ Listed # {} /\ Begin(t, Fresh("self", Listed), FALSE)
  /\ UNCHANGED parked

\* The worker is forked and reads the tree.
Fork(t) ==
  /\ stage[t] = "starting"
  /\ stage' = [stage EXCEPT ![t] = "working"]
  /\ UNCHANGED <<storeVars, parked, coreVars, conv, parkedNow>>

ForkFails(t) ==
  /\ stage[t] = "starting"
  /\ fence' = (IF fence = t THEN NoTurn ELSE fence) /\ slot' = "free"
  /\ stage' = [stage EXCEPT ![t] = "none"] /\ conv' = [conv EXCEPT ![t] = Fresh("self", {})]
  /\ UNCHANGED <<storeVars, parked, isOwner, parkedNow>>

\* Mutant: the slot is released before the reply is sent and the ops are applied.
AcceptAndRelease(t) ==
  /\ stage[t] = "working" /\ fence = t
  /\ fence' = NoTurn /\ slot' = "free"
  /\ stage' = [stage EXCEPT ![t] = "replying"]
  /\ UNCHANGED <<storeVars, parked, isOwner, conv, parkedNow>>

\* The worker's Result passes the fence and closes it; then the reply is awaited.
Accept(t) ==
  /\ stage[t] = "working" /\ fence = t
  /\ fence' = NoTurn
  /\ stage' = [stage EXCEPT ![t] = "replying"]
  /\ UNCHANGED <<storeVars, parked, slot, isOwner, conv, parkedNow>>

\* ok=False: the apology, and no ops
Degrade(t) ==
  /\ stage[t] = "replying"
  /\ stage' = [stage EXCEPT ![t] = "ending"]
  /\ UNCHANGED <<storeVars, parked, coreVars, conv, parkedNow>>

\* A paused Result can only be parked under MaxParks.
Delivered(t) ==
  /\ stage[t] = "replying"
  /\ \E what \in {"text", "call"} :
       /\ what = "call" => Len(parked) < MaxParks
       /\ stage' = [stage EXCEPT ![t] = what]
  /\ parkedNow' = 0
  /\ UNCHANGED <<storeVars, parked, coreVars, conv>>

\* The fence closes while the Result may be on its way; the slot stays held until the
\* apology is sent and the worker reaped.
TimesOut(t) ==
  /\ stage[t] = "working" /\ fence = t
  /\ fence' = NoTurn
  /\ stage' = [stage EXCEPT ![t] = "wedged"]
  /\ UNCHANGED <<storeVars, parked, slot, isOwner, conv, parkedNow>>

\* The fence discards it.
LateResult(t) ==
  /\ stage[t] \in {"wedged", "late"} /\ fence # t
  /\ \/ stage[t] = "wedged" /\ stage' = [stage EXCEPT ![t] = "ending"] /\ UNCHANGED conv
     \/ /\ stage[t] = "late" /\ stage' = [stage EXCEPT ![t] = "none"]
        /\ conv' = [conv EXCEPT ![t] = Fresh("self", {})]
  /\ UNCHANGED <<storeVars, parked, coreVars, parkedNow>>

\* complete(): the slot comes free, or stays reserved for what the owner said meanwhile.
Finish(t) ==
  /\ \/ /\ stage[t] = "ending" /\ stage' = [stage EXCEPT ![t] = "none"]
        /\ conv' = [conv EXCEPT ![t] = Fresh("self", {})]
     \/ stage[t] = "wedged" /\ stage' = [stage EXCEPT ![t] = "late"] /\ UNCHANGED conv
  /\ slot' \in {"free", "fold"}
  /\ UNCHANGED <<storeVars, parked, fence, isOwner, parkedNow>>

\* Between any two ops too: each op is a commit or an atomic replace of its own.
CoreDies ==
  /\ slot' = "free" /\ fence' = NoTurn /\ isOwner' = FALSE /\ parkedNow' = 0
  /\ stage' = [t \in TurnIds |-> "none"]
  /\ conv' = [t \in TurnIds |-> Fresh("self", {})]
  /\ UNCHANGED <<storeVars, parked>>

-------------------------------------------------------------------------------
(* The ops of a Result, one after the other *)

\* rewrite_user, rewrite_about, rewrite_summary and the like
RewriteFile(t, f) ==
  /\ stage[t] = "text" \/ (stage[t] = "persona" /\ f \in Persona)
  /\ Elsewhere(HaveRead \ {t}, Convs, parked)
  /\ UNCHANGED <<storeVars, coreVars, stage, parkedNow>>

\* Mutant: a plain INSERT.
CaptureRow(t, k) ==
  /\ rows' = Append(rows, [key |-> k, count |-> 1, status |-> "pending"])
  /\ UNCHANGED <<parked, conv>>

\* The UPSERT: a known key counts up and is pending again.
Capture(t, k) ==
  LET same == {i \in DOMAIN rows : k # NoKey /\ rows[i].key = k}
  IN \/ /\ same = {}
        /\ rows' = Append(rows, [key |-> k, count |-> 1, status |-> "pending"])
        /\ UNCHANGED <<parked, conv>>
     \/ \E i \in same :
          /\ rows' = [rows EXCEPT ![i].count = @ + 1, ![i].status = "pending"]
          /\ Elsewhere(TurnIds \ {t}, {c \in Convs : i \in c.named}, parked)

CaptureLearning(t) ==
  /\ stage[t] = "text" /\ captures < MaxCaptures
  /\ captures' = captures + 1
  /\ \E k \in Keys \cup {NoKey} : Capture(t, k)
  /\ UNCHANGED <<directive, coreVars, stage, parkedNow>>

\* Whichever id the op names: only a pending row is moved, to promoted or pruned.
ResolveLearning(t, i) ==
  /\ stage[t] = "text" /\ i \in Pending
  /\ rows' = [rows EXCEPT ![i].status = "resolved"]
  /\ UNCHANGED <<directive, captures, parked, coreVars, stage, conv, parkedNow>>

\* Only the first op of a Result that needs a tap is parked.
Park(what, c) ==
  /\ parkedNow = 0 /\ Len(parked) < MaxParks
  /\ parked' = Append(parked, [what |-> what, open |-> TRUE, conv |-> c])
  /\ parkedNow' = Len(parked) + 1

\* RequestToolApproval, the first op of a paused Result; it may fail to be parked.
ParkCall(t) ==
  /\ stage[t] = "call" /\ stage' = [stage EXCEPT ![t] = "persona"]
  /\ Park("call", conv[t]) \/ UNCHANGED <<parked, parkedNow>>
  /\ UNCHANGED <<storeVars, coreVars, conv>>

\* RewriteDirective; dropped when the stash says that the turn is unattended
ParkDirective(t) ==
  /\ stage[t] = "text" /\ isOwner
  /\ Park("directive", conv[t])
  /\ UNCHANGED <<storeVars, coreVars, stage, conv>>

OpsEnd(t) ==
  /\ stage[t] \in {"text", "persona"}
  /\ stage' = [stage EXCEPT ![t] = "ending"] /\ parkedNow' = 0
  /\ UNCHANGED <<storeVars, parked, coreVars, conv>>

-------------------------------------------------------------------------------
(* Taps.  A tap with a turn in flight changes nothing ("tap that again"). *)

\* The row is taken.
Closed(i) == [parked EXCEPT ![i].open = FALSE, ![i].conv = Spent(@)]

\* Approved or denied, the conversation goes on with what it knew, and the owner
\* counts as present.
TapCall(i, t) ==
  /\ parked[i].open /\ parked[i].what = "call" /\ slot = "free"
  /\ Begin(t, [parked[i].conv EXCEPT !.resumed = TRUE], TRUE)
  /\ parked' = Closed(i)

\* The core applies it itself, reserving no slot; no turn starts.
TapDirective(i) ==
  /\ parked[i].open /\ parked[i].what = "directive" /\ slot = "free"
  /\ \/ directive' = i /\ Elsewhere(HaveRead, Convs, Closed(i))
     \/ parked' = Closed(i) /\ UNCHANGED <<directive, conv>>
  /\ UNCHANGED <<rows, captures, coreVars, stage, parkedNow>>

\* The row is taken, or pruned, after its hour.
Expires(i) ==
  /\ parked[i].open /\ parked' = Closed(i)
  /\ UNCHANGED <<storeVars, coreVars, stage, conv, parkedNow>>

-------------------------------------------------------------------------------

Init ==
  /\ rows = << >> /\ directive = 0 /\ captures = 0 /\ parked = << >> /\ parkedNow = 0
  /\ slot = "free" /\ fence = NoTurn /\ isOwner = FALSE
  /\ stage = [t \in TurnIds |-> "none"] /\ conv = [t \in TurnIds |-> Fresh("self", {})]

Turns(t) ==
  \/ OwnerTurn(t) \/ Muse(t) \/ Dream(t) \/ Fork(t) \/ ForkFails(t) \/ Accept(t)
  \/ Degrade(t) \/ Delivered(t) \/ TimesOut(t) \/ LateResult(t) \/ Finish(t)

Ops(t) ==
  \/ \E f \in Files : RewriteFile(t, f)
  \/ CaptureLearning(t)
  \/ \E i \in Ids : ResolveLearning(t, i)
  \/ ParkCall(t) \/ ParkDirective(t) \/ OpsEnd(t)

Taps(i) == (\E t \in TurnIds : TapCall(i, t)) \/ TapDirective(i) \/ Expires(i)

Next ==
  \/ AtAwaits /\ \E t \in TurnIds : Turns(t)
  \/ \E t \in TurnIds : Ops(t)
  \/ AtAwaits /\ \E i \in DOMAIN parked : Taps(i)
  \/ CoreDies

Spec == Init /\ [][Next]_vars

-------------------------------------------------------------------------------
(* Properties *)

\* The types of every variable, and the table's unique index: one row per key.
TypeOK ==
  /\ rows \in Seq([key : Keys \cup {NoKey}, count : Ids, status : {"pending", "resolved"}])
  /\ \A i, j \in DOMAIN rows : rows[i].key = rows[j].key /\ rows[i].key # NoKey => i = j
  /\ parked \in Seq(Parks) /\ parkedNow \in 0 .. Len(parked)
  /\ directive \in 0 .. Len(parked) /\ captures \in 0 .. MaxCaptures
  /\ slot \in {"free", "turn", "fold"} /\ fence \in TurnIds \cup {NoTurn} /\ isOwner \in BOOLEAN
  /\ stage \in [TurnIds -> Stages] /\ conv \in [TurnIds -> Convs]

\* No lost update without a tap: a turn that is at work, or whose ops are applied, has
\* seen everything the core wrote since it read: the files, DIRECTIVE.md, and the
\* recurrences of its learnings; whatever the timeout, the scheduler, the owner's messages
\* and taps do at the awaits of its life.  The one exception is a conversation that was
\* parked: its tap resumes it with the prompt it had.
OnlyTheParkedAreStale ==
  \A t \in TurnIds :
    stage[t] \in {"working", "replying"} \cup Applying /\ ~conv[t].resumed => ~conv[t].behind

\* DIRECTIVE.md only ever holds what was proposed in a conversation with the owner
\* in it, and so does every row that waits for the tap that would write it: no
\* dream or musing drifts the directive (Story 10.2 AC6).
DirectiveIsTheOwners ==
  /\ \A i \in DOMAIN parked :
       parked[i].open /\ parked[i].what = "directive" => OwnerIsThere(parked[i].conv)
  /\ directive # 0 => OwnerIsThere(parked[directive].conv)

=============================================================================
