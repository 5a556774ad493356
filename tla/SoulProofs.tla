------------------------------ MODULE SoulProofs ------------------------------
(***************************************************************************)
(* What holds of the pet's memory for every number of turns alive, of      *)
(* captures and of parked conversations: types with the unique index of    *)
(* the learnings, who may have proposed a directive, who may have missed a *)
(* write.  The last two rest on the arbiter's slot: one turn holds it over *)
(* every await of its life, so nobody else writes, and nobody else's flag  *)
(* is in the stash.                                                        *)
(***************************************************************************)
EXTENDS Soul, SequenceTheorems, TLAPS

-------------------------------------------------------------------------------
(* The inductive invariant *)

\* A row counts captures, so neither a count nor the table outgrows them.
RowsAreCaptures ==
  Len(rows) <= captures /\ \A i \in DOMAIN rows : rows[i].count <= captures

\* One turn holds the slot, whichever await it is at.
SlotIsHeld == \A t \in TurnIds : stage[t] \in Holding => slot = "turn"

OneHolds == \A t, u \in TurnIds : stage[t] \in Holding /\ stage[u] \in Holding => t = u

\* Stages whose ops may still come
Active == {"starting", "working", "replying"} \cup Applying

\* The flag says what the conversation says whose ops may come.
FlagIsTheTurns ==
  \A t \in TurnIds : stage[t] \in Active /\ isOwner => OwnerIsThere(conv[t])

\* What it has read, and what its prompt lists since its dispatch, is what is there.
ActiveIsFresh ==
  \A t \in TurnIds : stage[t] \in Active /\ ~conv[t].resumed => ~conv[t].behind

IInv ==
  /\ TypeOK /\ RowsAreCaptures /\ DirectiveIsTheOwners
  /\ SlotIsHeld /\ OneHolds /\ FlagIsTheTurns /\ ActiveIsFresh

-------------------------------------------------------------------------------
(* Rows and conversations *)

Row == [key : Keys \cup {NoKey}, count : Ids, status : {"pending", "resolved"}]

\* A conversation that begins, what its row keeps of it when it is closed, and one
\* that has missed a write.
LEMMA ConvTyped ==
  /\ \A kind \in {"owner", "self"}, named \in SUBSET Ids :
       /\ Fresh(kind, named) \in Convs
       /\ Fresh(kind, named).kind = kind /\ ~Fresh(kind, named).behind
  /\ \A c \in Convs :
       /\ Spent(c) \in Convs /\ OwnerIsThere(Spent(c)) = OwnerIsThere(c)
       /\ [c EXCEPT !.resumed = TRUE] \in Convs /\ [c EXCEPT !.resumed = TRUE].resumed
       /\ Missed(c) \in Convs /\ OwnerIsThere(Missed(c)) = OwnerIsThere(c)
<1>1. {} \in SUBSET Ids
  OBVIOUS
<1>2. QED
  BY <1>1 DEF Fresh, Spent, Missed, OwnerIsThere, Convs

LEMMA InitIInv == Init => IInv
<1> SUFFICES ASSUME Init PROVE IInv
  OBVIOUS
<1>1. << >> \in Seq(Row) /\ << >> \in Seq(Parks) /\ Len(<< >>) = 0
  BY EmptySeq
<1>2. isOwner \in BOOLEAN
  BY DEF Init
<1>3. conv \in [TurnIds -> Convs] /\ stage \in [TurnIds -> Stages]
  <2>1. Fresh("self", {}) \in Convs
    BY ConvTyped
  <2> HIDE DEF Fresh
  <2>2. QED
    BY <2>1 DEF Init, Stages
<1>4. TypeOK
  BY <1>1, <1>2, <1>3, SoulAssumption DEF Init, TypeOK, Row
<1>5. \A t \in TurnIds : stage[t] \notin Holding /\ stage[t] \notin Active
  BY DEF Init, Holding, Active, Applying
<1>6. QED
  BY <1>1, <1>4, <1>5
  DEF Init, IInv, RowsAreCaptures, DirectiveIsTheOwners, SlotIsHeld, OneHolds, FlagIsTheTurns,
      ActiveIsFresh

\* Ids name all rows there are.
LEMMA RowsHaveIds ==
  ASSUME IInv
  PROVE  /\ rows \in Seq(Row) /\ Len(rows) \in Nat /\ DOMAIN rows = 1 .. Len(rows)
         /\ captures \in Nat /\ MaxCaptures \in Nat /\ captures <= MaxCaptures
         /\ DOMAIN rows \subseteq Ids
<1>1. rows \in Seq(Row) /\ captures \in 0 .. MaxCaptures /\ MaxCaptures \in Nat
  BY SoulAssumption DEF IInv, TypeOK, Row
<1>2. Len(rows) \in Nat /\ DOMAIN rows = 1 .. Len(rows)
  BY <1>1, LenProperties
<1>3. QED
  BY <1>1, <1>2 DEF IInv, RowsAreCaptures, Ids

\* Conversations elsewhere fall behind, and nothing else of them changes.
LEMMA ElsewhereTyped ==
  ASSUME IInv, NEW turns, NEW readers, NEW rowsOf \in Seq(Parks), Elsewhere(turns, readers, rowsOf)
  PROVE  /\ conv' \in [TurnIds -> Convs]
         /\ \A t \in TurnIds : /\ OwnerIsThere(conv'[t]) = OwnerIsThere(conv[t])
                               /\ t \notin turns => conv'[t] = conv[t]
         /\ parked' \in Seq(Parks) /\ Len(parked') = Len(rowsOf)
         /\ \A i \in DOMAIN rowsOf :
              /\ parked'[i].what = rowsOf[i].what /\ parked'[i].open = rowsOf[i].open
              /\ OwnerIsThere(parked'[i].conv) = OwnerIsThere(rowsOf[i].conv)
<1> DEFINE reads(i) == rowsOf[i].open /\ i # parkedNow /\ rowsOf[i].conv \in readers
<1>1. /\ conv' = [t \in TurnIds |->
                    IF t \in turns /\ conv[t] \in readers THEN Missed(conv[t]) ELSE conv[t]]
      /\ parked' = [i \in DOMAIN rowsOf |->
                      IF reads(i) THEN [rowsOf[i] EXCEPT !.conv = Missed(@)] ELSE rowsOf[i]]
  BY DEF Elsewhere
<1>2. conv \in [TurnIds -> Convs]
  BY DEF IInv, TypeOK
<1>3. \A c \in Convs : Missed(c) \in Convs /\ OwnerIsThere(Missed(c)) = OwnerIsThere(c)
  BY ConvTyped
<1>4. conv' \in [TurnIds -> Convs]
  BY <1>1, <1>2, <1>3
<1>5. ASSUME NEW t \in TurnIds
      PROVE  /\ OwnerIsThere(conv'[t]) = OwnerIsThere(conv[t])
             /\ t \notin turns => conv'[t] = conv[t]
  <2>1. conv[t] \in Convs
    BY <1>2
  <2>2. conv'[t] = IF t \in turns /\ conv[t] \in readers THEN Missed(conv[t]) ELSE conv[t]
    BY <1>1
  <2>3. CASE t \in turns /\ conv[t] \in readers
    BY <1>3, <2>1, <2>2, <2>3
  <2>4. CASE ~(t \in turns /\ conv[t] \in readers)
    BY <2>2, <2>4
  <2>5. QED
    BY <2>3, <2>4
<1>6. Len(rowsOf) \in Nat /\ DOMAIN rowsOf = 1 .. Len(rowsOf)
      /\ \A i \in 1 .. Len(rowsOf) : rowsOf[i] \in Parks
  BY LenProperties, ElementOfSeq
<1>7. ASSUME NEW i \in DOMAIN rowsOf
      PROVE  /\ parked'[i] \in Parks /\ parked'[i].what = rowsOf[i].what
             /\ parked'[i].open = rowsOf[i].open
             /\ OwnerIsThere(parked'[i].conv) = OwnerIsThere(rowsOf[i].conv)
  <2>1. rowsOf[i] \in Parks /\ rowsOf[i].conv \in Convs
    BY <1>6 DEF Parks
  <2>2. CASE reads(i)
    <3> DEFINE c == Missed(rowsOf[i].conv)
    <3>1. c \in Convs /\ OwnerIsThere(c) = OwnerIsThere(rowsOf[i].conv)
      BY <1>3, <2>1
    <3>2. parked'[i] = [rowsOf[i] EXCEPT !.conv = c]
      BY <1>1, <2>2
    <3> HIDE DEF c
    <3>3. QED
      BY <2>1, <3>1, <3>2 DEF Parks
  <2>3. CASE ~reads(i)
    BY <1>1, <2>1, <2>3
  <2>4. QED
    BY <2>2, <2>3
<1>8. parked' \in [1 .. Len(rowsOf) -> Parks]
  BY <1>1, <1>6, <1>7
<1>9. parked' \in Seq(Parks) /\ Len(parked') = Len(rowsOf)
  BY <1>6, <1>8, SeqDef, LenProperties
<1>10. QED
  BY <1>4, <1>5, <1>7, <1>9

\* A row is parked behind the others.
LEMMA ParkTyped ==
  ASSUME IInv, NEW what \in {"call", "directive"}, NEW c \in Convs, Park(what, c)
  PROVE  /\ parked' \in Seq(Parks) /\ parkedNow' \in 0 .. Len(parked')
         /\ Len(parked') = Len(parked) + 1 /\ Len(parked) \in Nat
         /\ \A i \in 1 .. Len(parked) : parked'[i] = parked[i]
         /\ parked'[Len(parked) + 1] = [what |-> what, open |-> TRUE, conv |-> c]
<1> DEFINE row == [what |-> what, open |-> TRUE, conv |-> c]
<1>1. row \in Parks
  BY DEF Parks
<1>2. parked \in Seq(Parks) /\ parked' = Append(parked, row) /\ parkedNow' = Len(parked) + 1
  BY DEF Park, IInv, TypeOK
<1> HIDE DEF row
<1>3. /\ parked' \in Seq(Parks) /\ Len(parked') = Len(parked) + 1 /\ Len(parked) \in Nat
      /\ \A i \in 1 .. Len(parked) : parked'[i] = parked[i]
      /\ parked'[Len(parked) + 1] = row
  BY <1>1, <1>2, AppendProperties, LenProperties
<1>4. QED
  BY <1>2, <1>3 DEF row

\* A row is closed.
LEMMA ClosedTyped ==
  ASSUME IInv, NEW i \in DOMAIN parked
  PROVE  /\ Closed(i) \in Seq(Parks) /\ Len(Closed(i)) = Len(parked)
         /\ DOMAIN Closed(i) = DOMAIN parked
         /\ \A j \in DOMAIN parked :
              /\ Closed(i)[j].what = parked[j].what /\ (Closed(i)[j].open => parked[j].open)
              /\ OwnerIsThere(Closed(i)[j].conv) = OwnerIsThere(parked[j].conv)
<1> DEFINE row == [[parked[i] EXCEPT !.open = FALSE] EXCEPT !.conv = Spent(parked[i].conv)]
           rest == Closed(i)
<1>1. parked \in Seq(Parks) /\ DOMAIN parked = 1 .. Len(parked) /\ Len(parked) \in Nat
  BY LenProperties DEF IInv, TypeOK
<1>2. parked[i] \in Parks /\ parked[i].conv \in Convs
  <2>1. parked[i] \in Parks
    BY <1>1, ElementOfSeq
  <2>2. QED
    BY <2>1 DEF Parks
<1>3. row \in Parks /\ row.what = parked[i].what /\ ~row.open
      /\ OwnerIsThere(row.conv) = OwnerIsThere(parked[i].conv)
  BY <1>2, ConvTyped DEF Parks
<1>4. rest = [parked EXCEPT ![i] = row]
  BY <1>1 DEF Closed
<1> HIDE DEF row, rest
<1>5. /\ rest \in Seq(Parks) /\ Len(rest) = Len(parked)
      /\ \A j \in 1 .. Len(parked) : rest[j] = IF j = i THEN row ELSE parked[j]
  BY <1>1, <1>3, <1>4, ExceptSeq
<1>6. DOMAIN rest = DOMAIN parked
  BY <1>1, <1>5, LenProperties
<1>7. QED
  BY <1>1, <1>3, <1>5, <1>6 DEF rest

-------------------------------------------------------------------------------
(* The invariant by the parts a step changes together *)

RowsOK ==
  /\ rows \in Seq(Row)
  /\ \A i, j \in DOMAIN rows : rows[i].key = rows[j].key /\ rows[i].key # NoKey => i = j
  /\ captures \in 0 .. MaxCaptures
  /\ RowsAreCaptures

ParksOK ==
  /\ parked \in Seq(Parks) /\ parkedNow \in 0 .. Len(parked) /\ directive \in 0 .. Len(parked)
  /\ DirectiveIsTheOwners

TurnsTyped ==
  /\ slot \in {"free", "turn", "fold"} /\ fence \in TurnIds \cup {NoTurn} /\ isOwner \in BOOLEAN
  /\ stage \in [TurnIds -> Stages] /\ conv \in [TurnIds -> Convs]

TurnsOK == TurnsTyped /\ SlotIsHeld /\ OneHolds /\ FlagIsTheTurns /\ ActiveIsFresh

LEMMA Parts == IInv <=> RowsOK /\ ParksOK /\ TurnsOK
  BY DEF IInv, TypeOK, Row, RowsOK, ParksOK, TurnsOK, TurnsTyped

LEMMA PartsNext == RowsOK' /\ ParksOK' /\ TurnsOK' => IInv'
  BY DEF IInv, TypeOK, Row, RowsOK, ParksOK, TurnsOK, TurnsTyped

LEMMA RowsKept == IInv /\ UNCHANGED <<rows, captures>> => RowsOK'
  BY DEF IInv, TypeOK, Row, RowsOK, RowsAreCaptures

\* The rows of parked conversations stay, whatever becomes of them.
LEMMA ParksKept ==
  ASSUME IInv, parked' \in Seq(Parks), Len(parked') = Len(parked),
         parkedNow' = parkedNow, directive' \in 0 .. Len(parked),
         directive' # 0 => OwnerIsThere(parked[directive'].conv),
         \A i \in DOMAIN parked :
           /\ parked'[i].what = parked[i].what /\ (parked'[i].open => parked[i].open)
           /\ OwnerIsThere(parked'[i].conv) = OwnerIsThere(parked[i].conv)
  PROVE  ParksOK'
<1>1. parked \in Seq(Parks)
  BY DEF IInv, TypeOK
<1>2. DOMAIN parked = 1 .. Len(parked) /\ DOMAIN parked' = 1 .. Len(parked) /\ Len(parked) \in Nat
  BY <1>1, LenProperties
<1>3. \A i \in DOMAIN parked' :
        parked'[i].open /\ parked'[i].what = "directive" => OwnerIsThere(parked'[i].conv)
  BY <1>2 DEF IInv, DirectiveIsTheOwners
<1>4. directive' # 0 => OwnerIsThere(parked'[directive'].conv)
  BY <1>2
<1>5. DirectiveIsTheOwners'
  BY <1>3, <1>4 DEF DirectiveIsTheOwners, OwnerIsThere
<1>6. QED
  BY <1>5 DEF ParksOK, IInv, TypeOK

LEMMA ParksSame ==
  IInv /\ UNCHANGED <<parked, directive>> /\ parkedNow' \in {0, parkedNow} => ParksOK'
<1> SUFFICES ASSUME IInv, UNCHANGED <<parked, directive>>, parkedNow' \in {0, parkedNow}
             PROVE  ParksOK'
  OBVIOUS
<1>1. DirectiveIsTheOwners'
  BY DEF IInv, DirectiveIsTheOwners, OwnerIsThere
<1>2. parkedNow' \in 0 .. Len(parked) /\ directive \in 0 .. Len(parked) /\ parked \in Seq(Parks)
  <2>1. Len(parked) \in Nat
    BY LenProperties DEF IInv, TypeOK
  <2>2. QED
    BY <2>1 DEF IInv, TypeOK
<1>3. QED
  BY <1>1, <1>2 DEF ParksOK

-------------------------------------------------------------------------------
(* What a step does to the turns alive *)

LEMMA StagesApart ==
  /\ Active \subseteq Holding /\ Applying \subseteq Active /\ Holding \subseteq Stages
  /\ "none" \notin Holding /\ "late" \notin Holding /\ {"none", "late"} \subseteq Stages
  BY DEF Active, Holding, Applying, Stages

LEMMA TurnsAre == IInv => TurnsOK /\ TurnsTyped
  BY Parts DEF TurnsOK

\* A turn begins at a free slot: no other turn's ops may come.
LEMMA TurnBegins ==
  ASSUME IInv, NEW t \in TurnIds, NEW c \in Convs, NEW owner \in BOOLEAN, Begin(t, c, owner),
         slot # "turn", owner => OwnerIsThere(c), c.resumed \/ ~c.behind
  PROVE  TurnsOK'
<1>0. TurnsOK /\ TurnsTyped
  BY TurnsAre
<1>1. /\ slot' = "turn" /\ fence' = t /\ isOwner' = owner
      /\ stage' = [stage EXCEPT ![t] = "starting"] /\ conv' = [conv EXCEPT ![t] = c]
  BY DEF Begin
<1>2. \A u \in TurnIds : stage[u] \notin Holding
  BY <1>0 DEF TurnsOK, SlotIsHeld
<1>3. /\ stage'[t] = "starting" /\ conv'[t] = c
      /\ \A u \in TurnIds : u # t => stage'[u] = stage[u] /\ conv'[u] = conv[u]
  BY <1>0, <1>1 DEF TurnsTyped
<1>4. \A u \in TurnIds : u # t => stage'[u] \notin Holding /\ stage'[u] \notin Active
  BY <1>2, <1>3, StagesApart
<1>5. stage' \in [TurnIds -> Stages] /\ conv' \in [TurnIds -> Convs]
  BY <1>0, <1>1 DEF TurnsTyped, Stages, Holding
<1>6. TurnsTyped'
  BY <1>1, <1>5 DEF TurnsTyped
<1>7. SlotIsHeld' /\ OneHolds'
  BY <1>1, <1>4 DEF SlotIsHeld, OneHolds
<1>8. FlagIsTheTurns'
  BY <1>1, <1>3, <1>4 DEF FlagIsTheTurns, OwnerIsThere
<1>9. ActiveIsFresh'
  BY <1>3, <1>4 DEF ActiveIsFresh
<1>10. QED
  BY <1>6, <1>7, <1>8, <1>9 DEF TurnsOK

\* It goes from await to await with the slot.
LEMMA TurnMoves ==
  ASSUME IInv, NEW t \in TurnIds, NEW s \in Holding, stage[t] \in Holding,
         s \in Active => stage[t] \in Active,
         stage' = [stage EXCEPT ![t] = s], UNCHANGED <<slot, isOwner, conv>>,
         fence' \in TurnIds \cup {NoTurn}
  PROVE  TurnsOK'
<1>0. TurnsOK /\ TurnsTyped
  BY TurnsAre
<1>1. stage'[t] = s /\ \A u \in TurnIds : u # t => stage'[u] = stage[u]
  BY <1>0 DEF TurnsTyped
<1>2. \A u \in TurnIds : /\ stage'[u] \in Holding => stage[u] \in Holding
                         /\ stage'[u] \in Active => stage[u] \in Active
  BY <1>1
<1>3. stage' \in [TurnIds -> Stages]
  BY <1>0, StagesApart DEF TurnsTyped
<1>4. TurnsTyped'
  BY <1>0, <1>3 DEF TurnsTyped
<1>5. SlotIsHeld' /\ OneHolds'
  BY <1>0, <1>2 DEF TurnsOK, SlotIsHeld, OneHolds
<1>6. FlagIsTheTurns' /\ ActiveIsFresh'
  BY <1>0, <1>2 DEF TurnsOK, FlagIsTheTurns, ActiveIsFresh, OwnerIsThere
<1>7. QED
  BY <1>4, <1>5, <1>6 DEF TurnsOK

\* It lets the slot go, or a late one is forgotten.
LEMMA TurnLeaves ==
  ASSUME IInv, NEW t \in TurnIds, NEW s \in {"none", "late"},
         stage' = [stage EXCEPT ![t] = s], conv' \in [TurnIds -> Convs],
         \A u \in TurnIds : u # t => conv'[u] = conv[u],
         slot' \in {"free", "turn", "fold"}, stage[t] \in Holding \/ slot' = slot,
         fence' \in TurnIds \cup {NoTurn}, isOwner' = isOwner
  PROVE  TurnsOK'
<1>0. TurnsOK /\ TurnsTyped
  BY TurnsAre
<1>1. stage'[t] = s /\ \A u \in TurnIds : u # t => stage'[u] = stage[u]
  BY <1>0 DEF TurnsTyped
<1>2. s \notin Holding /\ s \notin Active /\ s \in Stages
  BY StagesApart
<1>3. stage' \in [TurnIds -> Stages]
  BY <1>0, <1>2 DEF TurnsTyped
<1>4. TurnsTyped'
  BY <1>0, <1>3 DEF TurnsTyped
<1>5. \A u \in TurnIds : stage'[u] \in Holding => u # t /\ stage[u] \in Holding /\ slot' = slot
  <2> SUFFICES ASSUME NEW u \in TurnIds, stage'[u] \in Holding
               PROVE  u # t /\ stage[u] \in Holding /\ slot' = slot
    OBVIOUS
  <2>1. u # t /\ stage[u] \in Holding
    BY <1>1, <1>2
  <2>2. stage[t] \notin Holding
    BY <1>0, <2>1 DEF TurnsOK, OneHolds
  <2>3. QED
    BY <2>1, <2>2
<1>6. SlotIsHeld' /\ OneHolds'
  BY <1>0, <1>5 DEF TurnsOK, SlotIsHeld, OneHolds
<1>7. \A u \in TurnIds : stage'[u] \in Active => stage[u] \in Active /\ conv'[u] = conv[u]
  BY <1>1, <1>2
<1>8. FlagIsTheTurns'
  BY <1>0, <1>7 DEF TurnsOK, FlagIsTheTurns, OwnerIsThere
<1>9. ActiveIsFresh'
  BY <1>0, <1>7 DEF TurnsOK, ActiveIsFresh
<1>10. QED
  BY <1>4, <1>6, <1>8, <1>9 DEF TurnsOK

\* A write leaves the writer's conversation alone, and there is no other active turn.
LEMMA TurnsWritten ==
  ASSUME IInv, UNCHANGED <<coreVars, stage>>, conv' \in [TurnIds -> Convs],
         \A t \in TurnIds : stage[t] \in Active => conv'[t] = conv[t]
  PROVE  TurnsOK'
<1>0. TurnsOK /\ TurnsTyped
  BY TurnsAre
<1>1. UNCHANGED <<slot, fence, isOwner, stage>>
  BY DEF coreVars
<1>2. TurnsTyped'
  BY <1>0, <1>1 DEF TurnsTyped
<1>3. SlotIsHeld' /\ OneHolds'
  BY <1>0, <1>1 DEF TurnsOK, SlotIsHeld, OneHolds
<1>4. FlagIsTheTurns'
  BY <1>0, <1>1 DEF TurnsOK, FlagIsTheTurns, OwnerIsThere
<1>5. ActiveIsFresh'
  BY <1>0, <1>1 DEF TurnsOK, ActiveIsFresh
<1>6. QED
  BY <1>2, <1>3, <1>4, <1>5 DEF TurnsOK

LEMMA TurnsKept == IInv /\ UNCHANGED <<coreVars, stage, conv>> => TurnsOK'
  BY TurnsAre, TurnsWritten DEF TurnsTyped

-------------------------------------------------------------------------------
(* Captures and reviews *)

\* A capture keeps the index unique: a known key counts up, a new one gets a new row.
LEMMA CaptureStep ==
  ASSUME IInv, NEW t \in TurnIds, NEW k \in Keys \cup {NoKey}, Capture(t, k), captures' = captures + 1,
         captures < MaxCaptures
  PROVE  RowsOK'
<1>0. /\ rows \in Seq(Row) /\ Len(rows) \in Nat /\ DOMAIN rows = 1 .. Len(rows)
      /\ captures \in Nat /\ MaxCaptures \in Nat /\ Len(rows) <= captures
      /\ \A i \in DOMAIN rows : rows[i] \in Row /\ rows[i].count <= captures
      /\ captures' \in 0 .. MaxCaptures
  BY RowsHaveIds, ElementOfSeq DEF IInv, RowsAreCaptures
<1>1. \A i \in DOMAIN rows : rows[i].count \in Nat
  BY <1>0 DEF Row, Ids
<1>2. \A i, j \in DOMAIN rows : rows[i].key = rows[j].key /\ rows[i].key # NoKey => i = j
  BY DEF IInv, TypeOK
<1>3. CASE rows' = Append(rows, [key |-> k, count |-> 1, status |-> "pending"])
           /\ {i \in DOMAIN rows : k # NoKey /\ rows[i].key = k} = {}
  <2> DEFINE row == [key |-> k, count |-> 1, status |-> "pending"]
  <2>1. row \in Row /\ row.key = k /\ row.count = 1
    BY <1>0 DEF Row, Ids
  <2> HIDE DEF row
  <2>2. rows' = Append(rows, row)
    BY <1>3 DEF row
  <2>3. /\ rows' \in Seq(Row) /\ Len(rows') = Len(rows) + 1
        /\ \A i \in 1 .. Len(rows) : rows'[i] = rows[i]
        /\ rows'[Len(rows) + 1] = row
    BY <1>0, <2>1, <2>2, AppendProperties
  <2>4. DOMAIN rows' = 1 .. Len(rows) + 1
    BY <1>0, <2>3, LenProperties
  <2>5. ASSUME NEW i \in DOMAIN rows', NEW j \in DOMAIN rows',
               rows'[i].key = rows'[j].key, rows'[i].key # NoKey
        PROVE  i = j
    BY <1>0, <1>2, <1>3, <2>1, <2>3, <2>4, <2>5
  <2>6. RowsAreCaptures'
    BY <1>0, <1>1, <2>1, <2>3, <2>4 DEF RowsAreCaptures
  <2>7. QED
    BY <1>0, <2>3, <2>5, <2>6 DEF RowsOK
<1>4. ASSUME NEW n \in DOMAIN rows,
             rows' = [rows EXCEPT ![n].count = @ + 1, ![n].status = "pending"]
      PROVE  RowsOK'
  <2> DEFINE row == [[rows[n] EXCEPT !.count = rows[n].count + 1] EXCEPT !.status = "pending"]
  <2>1. row \in Row /\ row.key = rows[n].key /\ row.count <= captures'
    <3>1. rows[n] \in Row /\ rows[n].count \in Nat /\ rows[n].count <= captures
      BY <1>0, <1>1
    <3>2. rows[n].count + 1 \in Ids
      BY <1>0, <3>1 DEF Ids
    <3>3. row \in Row /\ row.key = rows[n].key
      BY <3>1, <3>2 DEF Row
    <3>4. row.count = rows[n].count + 1
      BY <3>1 DEF Row
    <3>5. QED
      BY <1>0, <3>1, <3>3, <3>4
  <2>2. rows' = [rows EXCEPT ![n] = row]
    BY <1>0, <1>4
  <2> HIDE DEF row
  <2>3. /\ rows' \in Seq(Row) /\ Len(rows') = Len(rows)
        /\ \A i \in 1 .. Len(rows) : rows'[i] = IF i = n THEN row ELSE rows[i]
    BY <1>0, <2>1, <2>2, ExceptSeq
  <2>4. DOMAIN rows' = 1 .. Len(rows)
    BY <1>0, <2>3, LenProperties
  <2>5. \A i \in DOMAIN rows : rows'[i].key = rows[i].key
    BY <1>0, <2>1, <2>3
  <2>6. RowsAreCaptures'
    BY <1>0, <1>1, <2>1, <2>3, <2>4 DEF RowsAreCaptures
  <2>7. QED
    BY <1>0, <1>2, <2>3, <2>4, <2>5, <2>6 DEF RowsOK
<1>5. QED
  BY <1>3, <1>4 DEF Capture

\* And so does the end of a review.
LEMMA ResolveStep ==
  ASSUME IInv, NEW n \in DOMAIN rows, rows' = [rows EXCEPT ![n].status = "resolved"],
         captures' = captures
  PROVE  RowsOK'
<1>0. /\ rows \in Seq(Row) /\ Len(rows) \in Nat /\ DOMAIN rows = 1 .. Len(rows)
      /\ \A i \in DOMAIN rows : rows[i] \in Row
  BY RowsHaveIds, ElementOfSeq
<1> DEFINE row == [rows[n] EXCEPT !.status = "resolved"]
<1>1. row \in Row /\ row.key = rows[n].key /\ row.count = rows[n].count
  BY <1>0 DEF Row
<1> HIDE DEF row
<1>2. rows' = [rows EXCEPT ![n] = row]
  BY <1>0 DEF row
<1>3. /\ rows' \in Seq(Row) /\ Len(rows') = Len(rows)
      /\ \A i \in 1 .. Len(rows) : rows'[i] = IF i = n THEN row ELSE rows[i]
  BY <1>0, <1>1, <1>2, ExceptSeq
<1>4. DOMAIN rows' = DOMAIN rows
  BY <1>0, <1>3, LenProperties
<1>5. \A i \in DOMAIN rows : rows'[i].key = rows[i].key /\ rows'[i].count = rows[i].count
  BY <1>0, <1>1, <1>3
<1>6. QED
  BY <1>3, <1>4, <1>5 DEF IInv, TypeOK, RowsOK, RowsAreCaptures

-------------------------------------------------------------------------------
(* Steps *)

LEMMA TurnsStep ==
  ASSUME IInv, NEW t \in TurnIds, Turns(t)
  PROVE  IInv'
<1>0. TurnsOK /\ TurnsTyped
  BY TurnsAre
<1>1. ASSUME UNCHANGED <<storeVars, parked>>, parkedNow' \in {0, parkedNow}, TurnsOK'
      PROVE  IInv'
  <2>1. UNCHANGED <<rows, captures, directive, parked>>
    BY <1>1 DEF storeVars
  <2>2. QED
    BY <1>1, <2>1, RowsKept, ParksSame, PartsNext
<1>2. CASE OwnerTurn(t)
  <2>1. Fresh("owner", {}) \in Convs /\ Fresh("owner", {}).kind = "owner" /\ ~Fresh("owner", {}).behind
    BY ConvTyped
  <2>2. Begin(t, Fresh("owner", {}), TRUE) /\ slot # "turn" /\ UNCHANGED <<storeVars, parked, parkedNow>>
    BY <1>2 DEF OwnerTurn, Begin
  <2>3. TurnsOK'
    BY <2>1, <2>2, TurnBegins DEF OwnerIsThere
  <2>4. QED
    BY <1>1, <2>2, <2>3
<1>3. CASE Muse(t) \/ Dream(t)
  <2>1. PICK named \in SUBSET Ids : Begin(t, Fresh("self", named), FALSE)
    <3>1. Listed \in SUBSET Ids
      BY RowsHaveIds DEF Listed, Pending
    <3>2. QED
      BY <1>3, <3>1 DEF Muse, Dream
  <2>2. Fresh("self", named) \in Convs /\ ~Fresh("self", named).behind
    BY ConvTyped
  <2>3. slot # "turn" /\ UNCHANGED <<storeVars, parked, parkedNow>>
    BY <1>3, <2>1 DEF Muse, Dream, Begin
  <2>4. TurnsOK'
    BY <2>1, <2>2, <2>3, TurnBegins
  <2>5. QED
    BY <1>1, <2>3, <2>4
<1>4. CASE Fork(t) \/ Accept(t) \/ Degrade(t) \/ Delivered(t) \/ TimesOut(t)
           \/ (LateResult(t) /\ stage[t] = "wedged")
  <2>1. PICK s \in Holding :
          /\ stage' = [stage EXCEPT ![t] = s] /\ stage[t] \in Holding
          /\ s \in Active => stage[t] \in Active
    BY <1>4 DEF Fork, Accept, Degrade, Delivered, TimesOut, LateResult, Holding, Active, Applying
  <2>2. /\ UNCHANGED <<slot, isOwner, conv, storeVars, parked>>
        /\ fence' \in {fence, NoTurn} /\ parkedNow' \in {0, parkedNow}
    BY <1>4 DEF Fork, Accept, Degrade, Delivered, TimesOut, LateResult, coreVars
  <2>3. fence' \in TurnIds \cup {NoTurn}
    BY <1>0, <2>2 DEF TurnsTyped
  <2>4. TurnsOK'
    BY <2>1, <2>2, <2>3, TurnMoves
  <2>5. QED
    BY <1>1, <2>2, <2>4
<1>5. CASE ForkFails(t) \/ Finish(t) \/ (LateResult(t) /\ stage[t] # "wedged")
  <2>1. PICK s \in {"none", "late"} : stage' = [stage EXCEPT ![t] = s]
    BY <1>5 DEF ForkFails, Finish, LateResult
  <2>2. conv' = conv \/ conv' = [conv EXCEPT ![t] = Fresh("self", {})]
    BY <1>5 DEF ForkFails, Finish, LateResult
  <2>3. conv' \in [TurnIds -> Convs] /\ \A u \in TurnIds : u # t => conv'[u] = conv[u]
    <3>1. Fresh("self", {}) \in Convs
      BY ConvTyped
    <3>2. QED
      BY <1>0, <2>2, <3>1 DEF TurnsTyped
  <2>4. /\ slot' \in {"free", "turn", "fold"} /\ fence' \in {fence, NoTurn}
        /\ stage[t] \in Holding \/ slot' = slot
    BY <1>0, <1>5 DEF ForkFails, Finish, LateResult, coreVars, Holding, TurnsTyped
  <2>5. UNCHANGED <<isOwner, storeVars, parked, parkedNow>>
    BY <1>5 DEF ForkFails, Finish, LateResult, coreVars
  <2>6. fence' \in TurnIds \cup {NoTurn}
    BY <1>0, <2>4 DEF TurnsTyped
  <2>7. TurnsOK'
    BY <2>1, <2>3, <2>4, <2>5, <2>6, TurnLeaves
  <2>8. QED
    BY <1>1, <2>5, <2>7
<1>6. QED
  BY <1>2, <1>3, <1>4, <1>5 DEF Turns

LEMMA OpsStep ==
  ASSUME IInv, NEW t \in TurnIds, Ops(t)
  PROVE  IInv'
<1>0. /\ TurnsOK /\ TurnsTyped
      /\ parked \in Seq(Parks) /\ Len(parked) \in Nat /\ directive \in 0 .. Len(parked)
      /\ conv[t] \in Convs
      /\ directive # 0 => OwnerIsThere(parked[directive].conv)
  BY TurnsAre, LenProperties DEF IInv, TypeOK, DirectiveIsTheOwners
<1>1. ASSUME NEW turns, t \notin turns, stage[t] \in Applying, NEW readers,
             Elsewhere(turns, readers, parked), RowsOK',
             UNCHANGED <<directive, coreVars, stage, parkedNow>>
      PROVE  IInv'
  <2>1. ParksOK'
    BY <1>0, <1>1, ElsewhereTyped, ParksKept
  <2>2. ASSUME NEW u \in TurnIds, stage[u] \in Active PROVE conv'[u] = conv[u]
    <3>1. u = t
      BY <1>0, <1>1, <2>2, StagesApart DEF TurnsOK, OneHolds
    <3>2. QED
      BY <1>0, <1>1, <3>1, ElsewhereTyped
  <2>3. conv' \in [TurnIds -> Convs]
    BY <1>0, <1>1, ElsewhereTyped
  <2>4. TurnsOK'
    BY <1>1, <2>2, <2>3, TurnsWritten
  <2>5. QED
    BY <1>1, <2>1, <2>4, PartsNext
<1>2. ASSUME UNCHANGED <<parked, conv, directive, coreVars, stage, parkedNow>>, RowsOK'
      PROVE  IInv'
  BY <1>2, ParksSame, TurnsKept, PartsNext
<1>3. ASSUME NEW f \in Files, RewriteFile(t, f) PROVE IInv'
  <2>1. /\ Elsewhere(HaveRead \ {t}, Convs, parked) /\ stage[t] \in Applying
        /\ UNCHANGED <<rows, captures, directive, coreVars, stage, parkedNow>>
    BY <1>3 DEF RewriteFile, storeVars, Applying
  <2>2. QED
    BY <1>1, <2>1, RowsKept
<1>4. CASE CaptureLearning(t)
  <2>1. PICK k \in Keys \cup {NoKey} : Capture(t, k)
    BY <1>4 DEF CaptureLearning
  <2>2. RowsOK'
    BY <1>4, <2>1, CaptureStep DEF CaptureLearning
  <2>3. UNCHANGED <<directive, coreVars, stage, parkedNow>> /\ stage[t] \in Applying
    BY <1>4 DEF CaptureLearning, Applying
  <2>4. UNCHANGED <<parked, conv>> \/ \E readers : Elsewhere(TurnIds \ {t}, readers, parked)
    BY <2>1 DEF Capture
  <2>5. QED
    BY <1>1, <1>2, <2>2, <2>3, <2>4
<1>5. ASSUME NEW i \in Ids, ResolveLearning(t, i) PROVE IInv'
  <2>1. /\ i \in DOMAIN rows /\ rows' = [rows EXCEPT ![i].status = "resolved"]
        /\ UNCHANGED <<captures, parked, conv, directive, coreVars, stage, parkedNow>>
    BY <1>5 DEF ResolveLearning, Pending
  <2>2. QED
    BY <1>2, <2>1, ResolveStep
<1>6. ASSUME NEW what \in {"call", "directive"}, Park(what, conv[t]),
             what = "directive" => OwnerIsThere(conv[t]), UNCHANGED storeVars
      PROVE  RowsOK' /\ ParksOK'
  <2>1. /\ parked' \in Seq(Parks) /\ parkedNow' \in 0 .. Len(parked')
        /\ Len(parked') = Len(parked) + 1
        /\ \A i \in 1 .. Len(parked) : parked'[i] = parked[i]
        /\ parked'[Len(parked) + 1] = [what |-> what, open |-> TRUE, conv |-> conv[t]]
    BY <1>0, <1>6, ParkTyped
  <2>2. UNCHANGED <<rows, captures, directive>>
    BY <1>6 DEF storeVars
  <2>3. DOMAIN parked = 1 .. Len(parked) /\ DOMAIN parked' = 1 .. Len(parked) + 1
    BY <1>0, <2>1, LenProperties
  <2>4. ASSUME NEW i \in DOMAIN parked', parked'[i].open, parked'[i].what = "directive"
        PROVE  OwnerIsThere(parked'[i].conv)
    <3>1. CASE i = Len(parked) + 1
      BY <1>6, <2>1, <2>4, <3>1
    <3>2. CASE i \in 1 .. Len(parked)
      BY <2>1, <2>3, <2>4, <3>2 DEF IInv, DirectiveIsTheOwners
    <3>3. QED
      BY <1>0, <2>3, <3>1, <3>2
  <2>5. directive' # 0 => OwnerIsThere(parked'[directive'].conv)
    BY <1>0, <2>1, <2>2
  <2>6. DirectiveIsTheOwners'
    BY <2>4, <2>5 DEF DirectiveIsTheOwners, OwnerIsThere
  <2>7. ParksOK'
    BY <1>0, <2>1, <2>2, <2>6 DEF ParksOK
  <2>8. QED
    BY <2>2, <2>7, RowsKept
<1>7. CASE ParkCall(t)
  <2>1. /\ stage[t] = "call" /\ stage' = [stage EXCEPT ![t] = "persona"]
        /\ UNCHANGED <<storeVars, slot, fence, isOwner, conv>>
    BY <1>7 DEF ParkCall, coreVars
  <2>2. TurnsOK'
    BY <1>0, <2>1, TurnMoves DEF Holding, Active, Applying, TurnsTyped
  <2>3. CASE Park("call", conv[t])
    BY <1>6, <2>1, <2>2, <2>3, PartsNext
  <2>4. CASE UNCHANGED <<parked, parkedNow>>
    BY <2>1, <2>2, <2>4, RowsKept, ParksSame, PartsNext DEF storeVars
  <2>5. QED
    BY <1>7, <2>3, <2>4 DEF ParkCall
<1>8. CASE ParkDirective(t)
  <2>1. OwnerIsThere(conv[t])
    BY <1>0, <1>8 DEF ParkDirective, TurnsOK, FlagIsTheTurns, Active, Applying
  <2>2. Park("directive", conv[t]) /\ UNCHANGED <<storeVars, coreVars, stage, conv>>
    BY <1>8 DEF ParkDirective
  <2>3. QED
    BY <1>6, <2>1, <2>2, TurnsKept, PartsNext
<1>9. CASE OpsEnd(t)
  <2>1. /\ stage[t] \in Applying /\ stage' = [stage EXCEPT ![t] = "ending"] /\ parkedNow' = 0
        /\ UNCHANGED <<rows, captures, directive, parked, slot, fence, isOwner, conv>>
    BY <1>9 DEF OpsEnd, storeVars, coreVars, Applying
  <2>2. TurnsOK'
    BY <1>0, <2>1, TurnMoves DEF Holding, Active, Applying, TurnsTyped
  <2>3. QED
    BY <2>1, <2>2, RowsKept, ParksSame, PartsNext
<1>10. QED
  BY <1>3, <1>4, <1>5, <1>7, <1>8, <1>9 DEF Ops

LEMMA TapsStep ==
  ASSUME IInv, NEW i \in DOMAIN parked, Taps(i)
  PROVE  IInv'
<1>0. /\ TurnsOK /\ TurnsTyped
      /\ parked \in Seq(Parks) /\ Len(parked) \in Nat
      /\ DOMAIN parked = 1 .. Len(parked) /\ parked[i].conv \in Convs
      /\ directive \in 0 .. Len(parked)
      /\ directive # 0 => OwnerIsThere(parked[directive].conv)
  <2>1. parked \in Seq(Parks)
    BY DEF IInv, TypeOK
  <2>2. DOMAIN parked = 1 .. Len(parked) /\ Len(parked) \in Nat /\ parked[i] \in Parks
    BY <2>1, LenProperties, ElementOfSeq
  <2>3. QED
    BY <2>1, <2>2, TurnsAre DEF IInv, TypeOK, DirectiveIsTheOwners, Parks
<1>1. /\ Closed(i) \in Seq(Parks) /\ Len(Closed(i)) = Len(parked)
      /\ DOMAIN Closed(i) = DOMAIN parked
      /\ \A j \in DOMAIN parked :
           /\ Closed(i)[j].what = parked[j].what /\ (Closed(i)[j].open => parked[j].open)
           /\ OwnerIsThere(Closed(i)[j].conv) = OwnerIsThere(parked[j].conv)
  BY ClosedTyped
<1>2. ASSUME parked' = Closed(i), UNCHANGED <<directive, parkedNow>>
      PROVE  ParksOK'
  BY <1>0, <1>1, <1>2, ParksKept
<1>3. ASSUME NEW t \in TurnIds, TapCall(i, t) PROVE IInv'
  <2> DEFINE c == [parked[i].conv EXCEPT !.resumed = TRUE]
  <2>1. c \in Convs /\ c.resumed
    BY <1>0, ConvTyped
  <2>2. Begin(t, c, TRUE) /\ slot # "turn" /\ parked' = Closed(i)
    BY <1>3 DEF TapCall
  <2> HIDE DEF c
  <2>3. TurnsOK'
    BY <2>1, <2>2, TurnBegins DEF OwnerIsThere
  <2>4. UNCHANGED <<rows, captures, directive, parkedNow>>
    BY <2>2 DEF Begin, storeVars
  <2>5. QED
    BY <1>2, <2>2, <2>3, <2>4, RowsKept, PartsNext
<1>4. CASE TapDirective(i)
  <2>0. UNCHANGED <<rows, captures, coreVars, stage, parkedNow>> /\ slot = "free"
    BY <1>4 DEF TapDirective
  <2>1. CASE directive' = i /\ Elsewhere(HaveRead, Convs, Closed(i))
    <3>1. /\ conv' \in [TurnIds -> Convs]
          /\ parked' \in Seq(Parks) /\ Len(parked') = Len(parked)
          /\ \A j \in DOMAIN parked :
               /\ parked'[j].what = Closed(i)[j].what /\ parked'[j].open = Closed(i)[j].open
               /\ OwnerIsThere(parked'[j].conv) = OwnerIsThere(Closed(i)[j].conv)
      BY <1>1, <2>1, ElsewhereTyped
    <3>2. OwnerIsThere(parked[i].conv)
      BY <1>4 DEF TapDirective, IInv, DirectiveIsTheOwners
    <3>3. directive' \in 0 .. Len(parked) /\ directive' # 0
      BY <1>0, <2>1
    <3>4. ParksOK'
      <4>1. \A j \in DOMAIN parked :
              /\ parked'[j].what = parked[j].what /\ (parked'[j].open => parked[j].open)
              /\ OwnerIsThere(parked'[j].conv) = OwnerIsThere(parked[j].conv)
        BY <1>1, <3>1
      <4>2. QED
        BY <2>0, <2>1, <3>1, <3>2, <3>3, <4>1, ParksKept
    <3>5. \A t \in TurnIds : stage[t] \notin Active
      BY <1>0, <2>0, StagesApart DEF TurnsOK, SlotIsHeld
    <3>6. TurnsOK'
      BY <2>0, <3>1, <3>5, TurnsWritten
    <3>7. QED
      BY <2>0, <3>4, <3>6, RowsKept, PartsNext
  <2>2. CASE parked' = Closed(i) /\ UNCHANGED <<directive, conv>>
    BY <1>2, <2>0, <2>2, TurnsKept, RowsKept, PartsNext
  <2>3. QED
    BY <1>4, <2>1, <2>2 DEF TapDirective
<1>5. CASE Expires(i)
  <2>1. parked' = Closed(i) /\ UNCHANGED <<rows, captures, directive, coreVars, stage, conv, parkedNow>>
    BY <1>5 DEF Expires, storeVars
  <2>2. QED
    BY <1>2, <2>1, TurnsKept, RowsKept, PartsNext
<1>6. QED
  BY <1>3, <1>4, <1>5 DEF Taps

LEMMA DeathStep == IInv /\ CoreDies => IInv'
<1> SUFFICES ASSUME IInv, CoreDies PROVE IInv'
  OBVIOUS
<1>1. /\ slot' = "free" /\ fence' = NoTurn /\ isOwner' = FALSE /\ parkedNow' = 0
      /\ UNCHANGED <<rows, captures, directive, parked>>
      /\ stage' = [t \in TurnIds |-> "none"] /\ conv' = [t \in TurnIds |-> Fresh("self", {})]
  BY DEF CoreDies, storeVars
<1>2. conv' \in [TurnIds -> Convs] /\ stage' \in [TurnIds -> Stages]
  <2>1. Fresh("self", {}) \in Convs
    BY ConvTyped
  <2> HIDE DEF Fresh
  <2>2. QED
    BY <1>1, <2>1 DEF Stages
<1>3. \A t \in TurnIds : stage'[t] \notin Holding /\ stage'[t] \notin Active
  BY <1>1 DEF Holding, Active, Applying
<1>4. TurnsOK'
  BY <1>1, <1>2, <1>3
  DEF TurnsOK, TurnsTyped, SlotIsHeld, OneHolds, FlagIsTheTurns, ActiveIsFresh
<1>5. QED
  BY <1>1, <1>4, RowsKept, ParksSame, PartsNext

LEMMA NextIInv == IInv /\ [Next]_vars => IInv'
<1>1. IInv /\ UNCHANGED vars => IInv'
  <2> SUFFICES ASSUME IInv, UNCHANGED vars PROVE IInv'
    OBVIOUS
  <2>1. UNCHANGED <<rows, captures, directive, parked, coreVars, stage, conv, parkedNow>>
    BY DEF vars, storeVars
  <2>2. QED
    BY <2>1, TurnsKept, RowsKept, ParksSame, PartsNext
<1>2. QED
  BY <1>1, TurnsStep, OpsStep, TapsStep, DeathStep DEF Next

LEMMA IInvCorrect == Spec => []IInv
  BY InitIInv, NextIInv, PTL DEF Spec

\* Every variable keeps its type, and the learnings table one row per pattern_key.
THEOREM TypeCorrect == Spec => []TypeOK
<1>1. IInv => TypeOK
  BY DEF IInv
<1>2. QED
  BY <1>1, IInvCorrect, PTL

\* DIRECTIVE.md, and every row that waits for the tap that would write it, comes from a
\* conversation with the owner in it, whatever turns came in between.
THEOREM DirectiveSafe == Spec => []DirectiveIsTheOwners
<1>1. IInv => DirectiveIsTheOwners
  BY DEF IInv
<1>2. QED
  BY <1>1, IInvCorrect, PTL

\* Whatever runs at the awaits of a turn, nothing it has read is written by another before
\* its own ops are; only a conversation resumed by a tap can overwrite what it has not seen.
THEOREM StaleSafe == Spec => []OnlyTheParkedAreStale
<1>1. IInv => OnlyTheParkedAreStale
  BY DEF IInv, ActiveIsFresh, OnlyTheParkedAreStale, Active
<1>2. QED
  BY <1>1, IInvCorrect, PTL

===============================================================================
