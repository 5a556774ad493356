----------------------------- MODULE PanelProofs ------------------------------
(***************************************************************************)
(* What holds of the way to the panel for any number of plugins, frames    *)
(* and refreshes, as long as no plugin may claim the caption, which core   *)
(* writes too: nothing refuses such a claim, and with it the seqs of two   *)
(* writers meet in one region.                                             *)
(***************************************************************************)
EXTENDS Panel, TLAPS

-------------------------------------------------------------------------------
(* The inductive invariant *)

Rising(frames) ==
  \A i, j \in DOMAIN frames :
    i < j /\ frames[i].region = frames[j].region => frames[i].seq < frames[j].seq

OnePerRegion(frames) ==
  \A i, j \in DOMAIN frames : frames[i].region = frames[j].region => i = j

\* Regions of plugins have one writer each, and none before the plugins are loaded.
ClaimsHold ==
  /\ ValidClaims(claims)
  /\ \A p \in Plugins : "caption" \notin claims[p]
  /\ ~hosting => \A p \in Plugins : claims[p] = {}
  /\ \A p \in Plugins : writing[p] \in claims[p] \cup {None}

\* A region has frames of its own; the seqs of core's regions are core's.
CoreSeqs ==
  /\ \A r \in Regions : posted[r] = NoFrame \/ posted[r].region = r
  /\ \A r \in CoreRegions : posted[r].seq <= seq
  /\ \A i \in DOMAIN uplink : uplink[i].region \notin CoreRegions

\* A seq the plugin host has used in a region: only that of a draw which has not
\* returned is ahead of the counter.
Used(r, n) == n <= widgetSeq[r] \/ (n = widgetSeq[r] + 1 /\ \E p \in Plugins : writing[p] = r)

\* The same after a step.
UsedNext(r, n) ==
  n <= widgetSeq'[r] \/ (n = widgetSeq'[r] + 1 /\ \E p \in Plugins : writing'[p] = r)

WidgetSeqs ==
  /\ \A r \in Regions \ CoreRegions : Used(r, posted[r].seq)
  /\ \A i \in DOMAIN uplink : Used(uplink[i].region, uplink[i].seq)

\* Frames reach the hub, and leave it, in the order of their seqs.
UplinkIsAhead ==
  /\ Rising(uplink)
  /\ \A i \in DOMAIN uplink : posted[uplink[i].region].seq < uplink[i].seq

LinkIsAhead ==
  /\ Rising(link)
  /\ \A i \in DOMAIN link :
       /\ latest[link[i].region] < link[i].seq
       /\ link[i].seq <= posted[link[i].region].seq

\* A slot holds the latest frame of its region; what is being drawn is no newer, and
\* nothing of a region goes back behind what the renderer has composited.
SlotsHoldLatest ==
  /\ OnePerRegion(pending) /\ OnePerRegion(batch)
  /\ \A r \in Regions : latest[r] <= posted[r].seq
  /\ \A i \in DOMAIN pending : pending[i].seq = latest[pending[i].region]
  /\ \A i \in DOMAIN batch :
       /\ batch[i].seq <= latest[batch[i].region]
       /\ zones[batch[i].region].seq <= batch[i].seq
  /\ \A r \in Regions : zones[r].seq = 0 \/ zones[r].seq <= latest[r]
  /\ \A r \in Regions : panel[r].seq <= zones[r].seq

Inv ==
  /\ TypeOK /\ ClaimsHold /\ CoreSeqs /\ WidgetSeqs
  /\ UplinkIsAhead /\ LinkIsAhead /\ SlotsHoldLatest

-------------------------------------------------------------------------------
(* Queues of frames *)

LEMMA AppendFrames ==
  ASSUME NEW s \in Seq(Frames), NEW f \in Frames
  PROVE  /\ Append(s, f) \in Seq(Frames)
         /\ Len(s) \in Nat /\ DOMAIN s = 1..Len(s)
         /\ DOMAIN Append(s, f) = 1..(Len(s) + 1)
         /\ \A i \in 1..Len(s) : Append(s, f)[i] = s[i] /\ s[i] \in Frames
         /\ Append(s, f)[Len(s) + 1] = f
  OBVIOUS

LEMMA TailFrames ==
  ASSUME NEW s \in Seq(Frames), s # << >>
  PROVE  /\ Tail(s) \in Seq(Frames)
         /\ Len(s) \in Nat \ {0} /\ DOMAIN s = 1..Len(s)
         /\ DOMAIN Tail(s) = 1..(Len(s) - 1)
         /\ \A i \in 1..(Len(s) - 1) : Tail(s)[i] = s[i + 1] /\ i + 1 \in DOMAIN s
         /\ Head(s) = s[1] /\ s[1] \in Frames /\ 1 \in DOMAIN s
  OBVIOUS

LEMMA RisingAppend ==
  ASSUME NEW s \in Seq(Frames), NEW f \in Frames, Rising(s),
         \A i \in DOMAIN s : s[i].region = f.region => s[i].seq < f.seq
  PROVE  Rising(Append(s, f))
  BY AppendFrames DEF Rising

LEMMA RisingTail ==
  ASSUME NEW s \in Seq(Frames), s # << >>, Rising(s)
  PROVE  /\ Rising(Tail(s))
         /\ \A i \in DOMAIN Tail(s) : Tail(s)[i].region = s[1].region => s[1].seq < Tail(s)[i].seq
<1>1. ASSUME NEW i \in DOMAIN Tail(s), NEW j \in DOMAIN Tail(s), i < j,
             Tail(s)[i].region = Tail(s)[j].region
      PROVE  Tail(s)[i].seq < Tail(s)[j].seq
  <2>1. i + 1 \in DOMAIN s /\ j + 1 \in DOMAIN s /\ i + 1 < j + 1
    BY <1>1, TailFrames
  <2>2. s[i + 1].region = s[j + 1].region => s[i + 1].seq < s[j + 1].seq
    BY <2>1 DEF Rising
  <2>3. QED
    BY <1>1, <2>2, TailFrames
<1>2. ASSUME NEW i \in DOMAIN Tail(s), Tail(s)[i].region = s[1].region
      PROVE  s[1].seq < Tail(s)[i].seq
  <2>1. i + 1 \in DOMAIN s /\ 1 < i + 1
    BY TailFrames
  <2>2. s[1].region = s[i + 1].region => s[1].seq < s[i + 1].seq
    BY <2>1, TailFrames DEF Rising
  <2>3. QED
    BY <1>2, <2>2, TailFrames
<1>3. QED
  BY <1>1, <1>2 DEF Rising

LEMMA OneTail ==
  ASSUME NEW s \in Seq(Frames), s # << >>, OnePerRegion(s)
  PROVE  /\ OnePerRegion(Tail(s))
         /\ \A i \in DOMAIN Tail(s) : Tail(s)[i].region # s[1].region
  BY TailFrames DEF OnePerRegion

\* The newest frame of a region is the last one appended to it.
LEMMA NewestAppend ==
  ASSUME NEW s \in Seq(Frames), NEW f \in Frames
  PROVE  /\ NewestIn(Append(s, f), f.region, f)
         /\ \A r, g : r # f.region =>
              /\ NewestIn(s, r, g) => NewestIn(Append(s, f), r, g)
              /\ Without(s, r) => Without(Append(s, f), r)
<1>1. NewestIn(Append(s, f), f.region, f)
  BY AppendFrames DEF NewestIn
<1>2. ASSUME NEW r, NEW g, r # f.region, NewestIn(s, r, g)
      PROVE  NewestIn(Append(s, f), r, g)
  BY <1>2, AppendFrames DEF NewestIn
<1>3. ASSUME NEW r, r # f.region, Without(s, r)
      PROVE  Without(Append(s, f), r)
  BY <1>3, AppendFrames DEF Without
<1>4. QED
  BY <1>1, <1>2, <1>3

\* A sequence without frames of a region has none in its tail.
LEMMA WithoutTail ==
  ASSUME NEW s \in Seq(Frames), s # << >>, NEW r, Without(s, r)
  PROVE  Without(Tail(s), r) /\ s[1].region # r
  BY TailFrames DEF Without

\* Taking the head of a queue takes the newest frame of a region, or leaves it the newest.
LEMMA NewestTail ==
  ASSUME NEW s \in Seq(Frames), s # << >>
  PROVE  \A r, g :
           /\ Without(s, r) => Without(Tail(s), r) /\ s[1].region # r
           /\ NewestIn(s, r, g) =>
                \/ NewestIn(Tail(s), r, g)
                \/ s[1] = g /\ Without(Tail(s), r)
<1>1. ASSUME NEW r, Without(s, r)
      PROVE  Without(Tail(s), r) /\ s[1].region # r
  BY <1>1, TailFrames DEF Without
<1>2. ASSUME NEW r, NEW g, NewestIn(s, r, g)
      PROVE  NewestIn(Tail(s), r, g) \/ (s[1] = g /\ Without(Tail(s), r))
  <2>1. PICK i \in DOMAIN s :
          s[i] = g /\ \A j \in DOMAIN s : i < j => s[j].region # r
    BY <1>2 DEF NewestIn
  <2>2. CASE i = 1
    BY <2>1, <2>2, TailFrames DEF Without
  <2>3. CASE i # 1
    <3>1. i - 1 \in DOMAIN Tail(s) /\ Tail(s)[i - 1] = g
      BY <2>1, <2>3, TailFrames
    <3>2. \A j \in DOMAIN Tail(s) : i - 1 < j => Tail(s)[j].region # r
      BY <2>1, <2>3, TailFrames
    <3>3. QED
      BY <3>1, <3>2 DEF NewestIn
  <2>4. QED
    BY <2>2, <2>3
<1>3. QED
  BY <1>1, <1>2

\* Staging puts a frame in the slot of its region and touches no other slot.
LEMMA StagedFrames ==
  ASSUME pending \in Seq(Frames), OnePerRegion(pending), NEW f \in Frames
  PROVE  /\ Staged(f) \in Seq(Frames) /\ OnePerRegion(Staged(f))
         /\ \A i \in DOMAIN Staged(f) :
              \/ Staged(f)[i] = f
              \/ /\ i \in DOMAIN pending /\ Staged(f)[i] = pending[i]
                 /\ pending[i].region # f.region
         /\ NewestIn(Staged(f), f.region, f)
         /\ \A r, g : r # f.region =>
              /\ NewestIn(pending, r, g) /\ g.region = r => NewestIn(Staged(f), r, g)
              /\ Without(pending, r) => Without(Staged(f), r)
<1>1. CASE \A i \in DOMAIN pending : pending[i].region # f.region
  <2>1. Staged(f) = Append(pending, f)
    BY <1>1 DEF Staged
  <2>2. OnePerRegion(Append(pending, f))
    BY <1>1, AppendFrames DEF OnePerRegion
  <2>3. QED
    BY <1>1, <2>1, <2>2, AppendFrames, NewestAppend
<1>2. CASE \E i \in DOMAIN pending : pending[i].region = f.region
  <2>1. PICK s : s = [i \in DOMAIN pending |-> IF pending[i].region = f.region THEN f ELSE pending[i]]
    OBVIOUS
  <2>2. Staged(f) = s
    BY <1>2, <2>1 DEF Staged
  <2>3. s \in Seq(Frames) /\ DOMAIN s = DOMAIN pending
    BY <2>1
  <2>4. \A i \in DOMAIN pending :
          /\ pending[i].region = f.region => s[i] = f
          /\ pending[i].region # f.region => s[i] = pending[i]
          /\ s[i].region = pending[i].region
    BY <2>1
  <2>5. OnePerRegion(s)
    BY <2>3, <2>4 DEF OnePerRegion
  <2>6. NewestIn(s, f.region, f)
    <3>1. PICK i \in DOMAIN pending : pending[i].region = f.region
      BY <1>2
    <3>2. \A j \in DOMAIN s : i < j => s[j].region # f.region
      BY <3>1, <2>3, <2>4 DEF OnePerRegion
    <3>3. QED
      BY <3>1, <3>2, <2>3, <2>4 DEF NewestIn
  <2>7. ASSUME NEW r, NEW g, r # f.region, NewestIn(pending, r, g), g.region = r
        PROVE  NewestIn(s, r, g)
    BY <2>3, <2>4, <2>7 DEF NewestIn
  <2>8. ASSUME NEW r, Without(pending, r)
        PROVE  Without(s, r)
    BY <2>3, <2>4, <2>8 DEF Without
  <2>9. QED
    BY <2>2, <2>3, <2>4, <2>5, <2>6, <2>7, <2>8
<1>3. QED
  BY <1>1, <1>2

-------------------------------------------------------------------------------
(* Types *)

\* What a frame on the way looks like, and what is read of it.
LEMMA FramesTyped ==
  ASSUME TypeOK
  PROVE  /\ \A f \in Frames : f.region \in Regions /\ f.seq \in Nat /\ f.region # None
         /\ NoFrame.seq = 0 /\ NoFrame.region = None /\ None \notin Regions
         /\ \A r \in Regions : posted[r].seq \in Nat /\ zones[r].seq \in Nat
                             /\ panel[r].seq \in Nat /\ latest[r] \in Int /\ widgetSeq[r] \in Nat
         /\ \A i \in DOMAIN link : link[i] \in Frames
         /\ \A i \in DOMAIN uplink : uplink[i] \in Frames
         /\ \A i \in DOMAIN pending : pending[i] \in Frames
         /\ \A i \in DOMAIN batch : batch[i] \in Frames
<1>1. \A f \in Frames : f.region \in Regions /\ f.seq \in Nat
  BY DEF Frames
<1>2. NoFrame.seq = 0 /\ NoFrame.region = None /\ None \notin Regions
  BY DEF NoFrame, None, Regions
<1>3. \A r \in Regions : posted[r].seq \in Nat /\ zones[r].seq \in Nat /\ panel[r].seq \in Nat
  BY <1>1, <1>2 DEF TypeOK
<1>4. \A r \in Regions : latest[r] \in Int /\ widgetSeq[r] \in Nat
  BY DEF TypeOK
<1>5. QED
  BY <1>1, <1>2, <1>3, <1>4 DEF TypeOK

LEMMA InitInv == Init => Inv /\ NewestIsOnItsWay
<1> SUFFICES ASSUME Init PROVE Inv /\ NewestIsOnItsWay
  OBVIOUS
<1>1. TypeOK
  <2>1. Blank \in [Regions -> Frames \cup {NoFrame}]
    BY DEF Blank
  <2>2. << >> \in Seq(Frames)
    OBVIOUS
  <2>3. /\ claims \in [Plugins -> SUBSET Claimable]
        /\ writing \in [Plugins -> Regions \cup {None}]
        /\ widgetSeq \in [Regions -> Nat] /\ latest \in [Regions -> Int]
    BY DEF Init
  <2>4. QED
    BY <2>1, <2>2, <2>3 DEF Init, TypeOK
<1>2. ClaimsHold
  BY DEF Init, ClaimsHold, ValidClaims
<1>3. \A r \in Regions : /\ posted[r] = NoFrame /\ zones[r] = NoFrame /\ panel[r] = NoFrame
                         /\ latest[r] = -1 /\ widgetSeq[r] = 0
  BY DEF Init, Blank
<1>4. DOMAIN link = {} /\ DOMAIN uplink = {} /\ DOMAIN pending = {} /\ DOMAIN batch = {}
  BY DEF Init
<1>5. CoreRegions \subseteq Regions /\ NoFrame.seq = 0
  BY DEF CoreRegions, Regions, NoFrame
<1>6. CoreSeqs /\ WidgetSeqs
  BY <1>3, <1>4, <1>5 DEF Init, CoreSeqs, WidgetSeqs, Used
<1>7. UplinkIsAhead /\ LinkIsAhead
  BY <1>4 DEF UplinkIsAhead, LinkIsAhead, Rising
<1>8. SlotsHoldLatest
  BY <1>3, <1>4, <1>5 DEF SlotsHoldLatest, OnePerRegion
<1>9. NewestIsOnItsWay
  BY <1>3, <1>4 DEF NewestIsOnItsWay, OnItsWay, Without, Zones, Regions
<1>10. QED
  BY <1>1, <1>2, <1>6, <1>7, <1>8, <1>9 DEF Inv

\* Staging keeps a queue of frames one.
LEMMA StagedTyped ==
  ASSUME pending \in Seq(Frames), NEW f \in Frames
  PROVE  Staged(f) \in Seq(Frames)
<1>1. CASE \A i \in DOMAIN pending : pending[i].region # f.region
  BY <1>1 DEF Staged
<1>2. CASE \E i \in DOMAIN pending : pending[i].region = f.region
  BY <1>2 DEF Staged
<1>3. QED
  BY <1>1, <1>2

LEMMA RouteTyped ==
  ASSUME TypeOK, NEW f \in Frames, Route(f)
  PROVE  /\ posted' \in [Regions -> Frames \cup {NoFrame}] /\ connected' = connected
         /\ link' \in Seq(Frames) /\ lost' \subseteq Regions /\ (~connected => link' = << >>)
<1>1. f.region \in Regions /\ link \in Seq(Frames) /\ Append(link, f) \in Seq(Frames)
  BY FramesTyped, AppendFrames DEF TypeOK
<1>2. posted' \in [Regions -> Frames \cup {NoFrame}] /\ lost' \subseteq Regions
  BY <1>1 DEF Route, TypeOK
<1>3. (connected /\ link' = Append(link, f)) \/ (~connected /\ link' = link)
  BY DEF Route
<1>4. QED
  BY <1>1, <1>2, <1>3 DEF Route, TypeOK

LEMMA NextTypeOK ==
  ASSUME PanelAssumption, TypeOK, [Next]_vars
  PROVE  TypeOK'
<1>1. ASSUME NEW r \in CoreRegions, CorePushes(r)
      PROVE  TypeOK'
  <2>1. seq \in Nat /\ r \in Regions
    BY DEF TypeOK, CoreRegions, Regions
  <2>2. Frame(r, seq + 1, "core") \in Frames
    BY <2>1 DEF Frame, Frames
  <2>3. Route(Frame(r, seq + 1, "core")) /\ seq' = seq + 1 /\ UNCHANGED <<host, uplink, display>>
    BY <1>1 DEF CorePushes
  <2>4. QED
    BY <2>1, <2>2, <2>3, RouteTyped DEF TypeOK, host, display
<1>2. CASE HubRoutes
  <2>1. Head(uplink) \in Frames /\ Tail(uplink) \in Seq(Frames)
    BY <1>2, TailFrames DEF HubRoutes, TypeOK
  <2>2. Route(Head(uplink)) /\ uplink' = Tail(uplink) /\ UNCHANGED <<seq, host, display>>
    BY <1>2 DEF HubRoutes
  <2>3. QED
    BY <2>1, <2>2, RouteTyped DEF TypeOK, host, display
<1>3. CASE HostConnects
  BY <1>3 DEF HostConnects, TypeOK, hub, display
<1>4. ASSUME NEW p \in Plugins, NEW r \in Regions, PluginDraws(p, r)
      PROVE  TypeOK'
  <2>1. Frame(r, widgetSeq[r] + 1, p) \in Frames
    BY DEF TypeOK, Frame, Frames
  <2>2. uplink' \in Seq(Frames)
    BY <1>4, <2>1, AppendFrames DEF PluginDraws, TypeOK
  <2>3. draws' \in Nat /\ writing' \in [Plugins -> Regions \cup {None}]
    BY <1>4 DEF PluginDraws, TypeOK
  <2>4. QED
    BY <1>4, <2>2, <2>3 DEF PluginDraws, TypeOK, hub, display
<1>5. ASSUME NEW p \in Plugins, DrawReturns(p)
      PROVE  TypeOK'
  <2>1. writing[p] \in Regions
    BY <1>5 DEF DrawReturns, TypeOK
  <2>2. widgetSeq' \in [Regions -> Nat] /\ writing' \in [Plugins -> Regions \cup {None}]
    BY <1>5, <2>1 DEF DrawReturns, TypeOK
  <2>3. QED
    BY <1>5, <2>2 DEF DrawReturns, TypeOK, hub, display
<1>6. CASE DisplayConnects
  BY <1>6 DEF DisplayConnects, TypeOK, host, display
<1>7. CASE Intake
  <2>1. /\ link \in Seq(Frames) /\ Head(link) \in Frames /\ Tail(link) \in Seq(Frames)
        /\ Head(link).region \in Regions /\ Head(link).seq \in Nat /\ connected
    BY <1>7, TailFrames, FramesTyped DEF Intake, TypeOK
  <2>2. \/ /\ latest' = [latest EXCEPT ![Head(link).region] = Head(link).seq]
           /\ pending' = Staged(Head(link)) /\ signal' = TRUE
        \/ UNCHANGED <<latest, pending, signal>>
    BY <1>7 DEF Intake
  <2>3. latest' \in [Regions -> Int] /\ pending' \in Seq(Frames)
    BY <2>1, <2>2, StagedTyped DEF TypeOK
  <2>4. signal' \in BOOLEAN
    BY <2>2, Zenon DEF TypeOK
  <2>5. QED
    BY <1>7, <2>1, <2>3, <2>4 DEF Intake, TypeOK, host
<1>8. CASE TakeBatch
  BY <1>8 DEF TakeBatch, TypeOK, host, hub
<1>9. CASE Draw
  <2>1. Head(batch) \in Frames /\ Tail(batch) \in Seq(Frames) /\ Head(batch).region \in Regions
    BY <1>9, TailFrames, FramesTyped DEF Draw, TypeOK
  <2>2. zones' \in [Regions -> Frames \cup {NoFrame}]
    BY <1>9, <2>1 DEF Draw, TypeOK
  <2>3. missed' \in BOOLEAN /\ (panel' = zones' \/ panel' = panel)
    BY <1>9 DEF Draw, TypeOK
  <2>4. QED
    BY <1>9, <2>1, <2>2, <2>3 DEF Draw, TypeOK, host, hub
<1>10. CASE UNCHANGED vars
  BY <1>10 DEF vars, TypeOK, host, hub, display
<1>11. QED
  BY <1>1, <1>2, <1>3, <1>4, <1>5, <1>6, <1>7, <1>8, <1>9, <1>10 DEF Next

\* Every variable keeps its type, whatever the plugins claim.
THEOREM TypeCorrect == Spec => []TypeOK
<1>1. Init => TypeOK
  BY InitInv DEF Inv
<1>2. TypeOK /\ [Next]_vars => TypeOK'
  BY PanelAssumption, NextTypeOK
<1>3. QED
  BY <1>1, <1>2, PTL DEF Spec

-------------------------------------------------------------------------------
(* The hub *)

\* A frame newer than what its region posted last is routed without harm.
LEMMA RouteStep ==
  ASSUME Inv, NewestIsOnItsWay, NEW f \in Frames, posted[f.region].seq < f.seq,
         Route(f), UNCHANGED display
  PROVE  /\ posted' \in [Regions -> Frames \cup {NoFrame}]
         /\ \A r \in Regions : posted'[r] = IF r = f.region THEN f ELSE posted[r]
         /\ connected' = connected /\ link' \in Seq(Frames) /\ lost' \subseteq Regions
         /\ ~connected => link' = << >>
         /\ LinkIsAhead' /\ SlotsHoldLatest' /\ NewestIsOnItsWay'
<1> USE DEF Inv
<1>0. /\ f.region \in Regions /\ f.seq \in Nat
      /\ UNCHANGED <<latest, pending, batch, zones, panel>> /\ connected' = connected
  BY FramesTyped DEF Route, display
<1>1. posted' \in [Regions -> Frames \cup {NoFrame}]
  BY <1>0 DEF Route, TypeOK
<1>2. \A r \in Regions : posted'[r] = IF r = f.region THEN f ELSE posted[r]
  BY <1>0 DEF Route, TypeOK
<1>3. \A r \in Regions : posted[r].seq <= posted'[r].seq /\ posted'[r].seq \in Nat
  BY <1>0, <1>2, FramesTyped
<1>4. /\ lost' \subseteq Regions
      /\ \/ connected /\ link' = Append(link, f) /\ lost' = lost \ {f.region}
         \/ ~connected /\ link' = link /\ lost' = lost \cup {f.region}
  BY <1>0 DEF Route, TypeOK
<1>5. link' \in Seq(Frames) /\ (~connected => link' = << >>)
  <2>1. link \in Seq(Frames) /\ (~connected => link = << >>)
    BY DEF TypeOK
  <2>2. Append(link, f) \in Seq(Frames)
    BY <2>1, AppendFrames
  <2>3. QED
    BY <1>4, <2>1, <2>2
<1>6. SlotsHoldLatest'
  <2>1. \A r \in Regions : latest'[r] <= posted'[r].seq
    BY <1>0, <1>3, FramesTyped DEF SlotsHoldLatest
  <2>2. QED
    BY <1>0, <2>1 DEF SlotsHoldLatest, OnePerRegion
<1>7. LinkIsAhead'
  <2>1. \A i \in DOMAIN link :
          /\ link[i].region \in Regions /\ link[i] \in Frames /\ link[i].seq \in Nat
          /\ latest[link[i].region] < link[i].seq
          /\ link[i].seq <= posted'[link[i].region].seq
          /\ link[i].region = f.region => link[i].seq < f.seq
    BY <1>0, <1>3, FramesTyped DEF LinkIsAhead
  <2>2. latest[f.region] < f.seq
    BY <1>0, FramesTyped DEF SlotsHoldLatest
  <2>3. CASE connected
    <3>1. link' = Append(link, f)
      BY <1>4, <2>3
    <3>2. Rising(Append(link, f))
      BY <2>1, RisingAppend DEF LinkIsAhead, TypeOK
    <3>3. \A i \in DOMAIN Append(link, f) :
            /\ latest[Append(link, f)[i].region] < Append(link, f)[i].seq
            /\ Append(link, f)[i].seq <= posted'[Append(link, f)[i].region].seq
      <4>1. f.seq <= posted'[f.region].seq
        BY <1>0, <1>2
      <4>2. QED
        BY <2>1, <2>2, <4>1, AppendFrames DEF TypeOK
    <3>4. QED
      BY <1>0, <3>1, <3>2, <3>3 DEF LinkIsAhead
  <2>4. CASE ~connected
    BY <1>4, <1>5, <2>4 DEF LinkIsAhead, Rising
  <2>5. QED
    BY <2>3, <2>4
<1>8. NewestIsOnItsWay'
  <2> SUFFICES ASSUME NEW r \in Zones, r \notin lost'
               PROVE  OnItsWay(r, posted[r])'
    BY DEF NewestIsOnItsWay
  <2>0. r \in Regions
    BY DEF Zones, Regions
  <2>1. CASE r = f.region
    <3>1. link' = Append(link, f) /\ posted'[r] = f
      BY <1>2, <1>4, <2>0, <2>1
    <3>2. NewestIn(Append(link, f), r, f)
      BY <2>1, NewestAppend DEF TypeOK
    <3>3. QED
      BY <3>1, <3>2 DEF OnItsWay
  <2>2. CASE r # f.region
    <3>1. r \notin lost /\ posted'[r] = posted[r]
      BY <1>2, <1>4, <2>0, <2>2
    <3>2. OnItsWay(r, posted[r])
      BY <3>1 DEF NewestIsOnItsWay
    <3>3. CASE link' = link
      BY <1>0, <3>1, <3>2, <3>3 DEF OnItsWay
    <3>4. CASE link' = Append(link, f)
      <4>1. /\ NewestIn(link, r, posted[r]) => NewestIn(Append(link, f), r, posted[r])
            /\ Without(link, r) => Without(Append(link, f), r)
        BY <2>2, NewestAppend DEF TypeOK
      <4>2. QED
        BY <1>0, <3>1, <3>2, <3>4, <4>1 DEF OnItsWay
    <3>5. QED
      BY <1>4, <3>3, <3>4
  <2>3. QED
    BY <2>1, <2>2
<1>9. QED
  BY <1>0, <1>1, <1>2, <1>4, <1>5, <1>6, <1>7, <1>8

LEMMA CorePushesStep ==
  ASSUME Inv, NewestIsOnItsWay, NEW r \in CoreRegions, CorePushes(r)
  PROVE  /\ Inv' /\ NewestIsOnItsWay'
         /\ posted[r].seq < posted'[r].seq /\ posted' = [posted EXCEPT ![r] = posted'[r]]
<1> USE DEF Inv
<1>1. PICK f : f = Frame(r, seq + 1, "core")
  OBVIOUS
<1>2. r \in Regions /\ seq \in Nat
  BY DEF CoreRegions, Regions, TypeOK
<1>3. f \in Frames /\ f.region = r /\ f.seq = seq + 1
  BY <1>1, <1>2 DEF Frame, Frames
<1>4. posted[r].seq < f.seq
  BY <1>2, <1>3, FramesTyped DEF CoreSeqs
<1>5. Route(f) /\ seq' = seq + 1 /\ UNCHANGED <<host, uplink, display>>
  BY <1>1 DEF CorePushes
<1>6. /\ posted' \in [Regions -> Frames \cup {NoFrame}]
      /\ \A q \in Regions : posted'[q] = IF q = r THEN f ELSE posted[q]
      /\ connected' = connected /\ link' \in Seq(Frames) /\ lost' \subseteq Regions
      /\ ~connected => link' = << >>
      /\ LinkIsAhead' /\ SlotsHoldLatest' /\ NewestIsOnItsWay'
  BY <1>3, <1>4, <1>5, RouteStep
<1>7. TypeOK'
  BY <1>2, <1>5, <1>6 DEF TypeOK, host, display
<1>8. ClaimsHold'
  BY <1>5 DEF ClaimsHold, host, ValidClaims
<1>9. CoreSeqs'
  <2>1. \A q \in Regions : posted'[q] = NoFrame \/ posted'[q].region = q
    BY <1>3, <1>6 DEF CoreSeqs
  <2>2. \A q \in CoreRegions : q \in Regions /\ posted[q].seq \in Nat /\ posted[q].seq <= seq
    BY FramesTyped DEF CoreSeqs, CoreRegions, Regions
  <2>3. \A q \in CoreRegions : posted'[q].seq <= seq'
    BY <1>2, <1>3, <1>5, <1>6, <2>2
  <2>4. QED
    BY <1>5, <2>1, <2>3 DEF CoreSeqs
<1>10. WidgetSeqs'
  BY <1>5, <1>6 DEF WidgetSeqs, Used, host
<1>11. UplinkIsAhead'
  <2>1. \A i \in DOMAIN uplink : uplink[i].region # r /\ uplink[i].region \in Regions
    BY FramesTyped DEF CoreSeqs
  <2>2. QED
    BY <1>5, <1>6, <2>1 DEF UplinkIsAhead, Rising
<1>12. posted' = [posted EXCEPT ![r] = posted'[r]]
  BY <1>2, <1>6 DEF TypeOK
<1>13. QED
  BY <1>2, <1>3, <1>4, <1>6, <1>7, <1>8, <1>9, <1>10, <1>11, <1>12

LEMMA HubRoutesStep ==
  ASSUME Inv, NewestIsOnItsWay, HubRoutes
  PROVE  /\ Inv' /\ NewestIsOnItsWay'
         /\ \E r \in Regions : /\ posted[r].seq < posted'[r].seq
                               /\ posted' = [posted EXCEPT ![r] = posted'[r]]
<1> USE DEF Inv
<1>1. PICK f : f = uplink[1]
  OBVIOUS
<1>2. /\ uplink # << >> /\ Head(uplink) = f /\ 1 \in DOMAIN uplink
      /\ f \in Frames /\ f.region \in Regions /\ f.seq \in Nat
  BY <1>1, TailFrames, FramesTyped DEF HubRoutes, TypeOK
<1>3. posted[f.region].seq < f.seq /\ f.region \notin CoreRegions
  BY <1>1, <1>2 DEF UplinkIsAhead, CoreSeqs
<1>4. Route(f) /\ uplink' = Tail(uplink) /\ UNCHANGED <<seq, host, display>>
  BY <1>2 DEF HubRoutes
<1>5. /\ posted' \in [Regions -> Frames \cup {NoFrame}]
      /\ \A q \in Regions : posted'[q] = IF q = f.region THEN f ELSE posted[q]
      /\ connected' = connected /\ link' \in Seq(Frames) /\ lost' \subseteq Regions
      /\ ~connected => link' = << >>
      /\ LinkIsAhead' /\ SlotsHoldLatest' /\ NewestIsOnItsWay'
  BY <1>2, <1>3, <1>4, RouteStep
<1>6. /\ uplink' \in Seq(Frames)
      /\ \A i \in DOMAIN uplink' : i + 1 \in DOMAIN uplink /\ uplink'[i] = uplink[i + 1]
                                 /\ uplink'[i].region \in Regions
  BY <1>2, <1>4, TailFrames, FramesTyped DEF TypeOK
<1>7. TypeOK'
  BY <1>4, <1>5, <1>6 DEF TypeOK, host, display
<1>8. ClaimsHold'
  BY <1>4 DEF ClaimsHold, host, ValidClaims
<1>9. CoreSeqs'
  BY <1>2, <1>3, <1>4, <1>5, <1>6 DEF CoreSeqs, CoreRegions, Regions
<1>10. WidgetSeqs'
  <2>1. Used(f.region, f.seq)
    BY <1>1, <1>2 DEF WidgetSeqs
  <2>2. QED
    BY <1>2, <1>4, <1>5, <1>6, <2>1 DEF WidgetSeqs, Used, host
<1>11. UplinkIsAhead'
  <2>1. /\ Rising(Tail(uplink))
        /\ \A i \in DOMAIN Tail(uplink) :
             Tail(uplink)[i].region = f.region => f.seq < Tail(uplink)[i].seq
    BY <1>1, <1>2, RisingTail DEF UplinkIsAhead, TypeOK
  <2>2. \A i \in DOMAIN uplink' : posted[uplink'[i].region].seq < uplink'[i].seq
    BY <1>6 DEF UplinkIsAhead
  <2>3. QED
    BY <1>4, <1>5, <1>6, <2>1, <2>2 DEF UplinkIsAhead
<1>12. posted' = [posted EXCEPT ![f.region] = posted'[f.region]]
  BY <1>2, <1>5 DEF TypeOK
<1>13. QED
  BY <1>2, <1>3, <1>5, <1>7, <1>8, <1>9, <1>10, <1>11, <1>12

LEMMA DisplayConnectsStep ==
  ASSUME Inv, NewestIsOnItsWay, DisplayConnects
  PROVE  Inv' /\ NewestIsOnItsWay'
<1> USE DEF Inv, DisplayConnects
<1>1. TypeOK'
  BY DEF TypeOK, host, display
<1>2. ClaimsHold' /\ CoreSeqs' /\ WidgetSeqs'
  BY DEF ClaimsHold, ValidClaims, CoreSeqs, WidgetSeqs, Used, host
<1>3. UplinkIsAhead' /\ LinkIsAhead' /\ SlotsHoldLatest'
  BY DEF UplinkIsAhead, LinkIsAhead, SlotsHoldLatest, Rising, OnePerRegion, display
<1>4. NewestIsOnItsWay'
  BY DEF NewestIsOnItsWay, OnItsWay, display
<1>5. QED
  BY <1>1, <1>2, <1>3, <1>4

-------------------------------------------------------------------------------
(* The plugin host *)

\* Nothing on the way is touched by what the plugin host does for itself.
LEMMA HostStep ==
  ASSUME Inv, NewestIsOnItsWay, UNCHANGED <<hub, display>>
  PROVE  LinkIsAhead' /\ SlotsHoldLatest' /\ NewestIsOnItsWay'
<1>1. LinkIsAhead' /\ SlotsHoldLatest'
  BY DEF Inv, LinkIsAhead, SlotsHoldLatest, Rising, OnePerRegion, hub, display
<1>2. NewestIsOnItsWay'
  BY DEF NewestIsOnItsWay, OnItsWay, hub, display
<1>3. QED
  BY <1>1, <1>2

LEMMA HostConnectsStep ==
  ASSUME "caption" \notin Claimable, Inv, NewestIsOnItsWay, HostConnects
  PROVE  Inv' /\ NewestIsOnItsWay'
<1> USE DEF Inv, HostConnects
<1>1. claims' \in [Plugins -> SUBSET Claimable] /\ ValidClaims(claims')
  OBVIOUS
<1>2. TypeOK'
  BY <1>1 DEF TypeOK, hub, display
<1>3. \A p \in Plugins : writing[p] = None
  BY DEF ClaimsHold
<1>4. ClaimsHold'
  BY <1>1, <1>3 DEF ClaimsHold, ValidClaims
<1>5. CoreSeqs' /\ WidgetSeqs' /\ UplinkIsAhead'
  BY DEF CoreSeqs, WidgetSeqs, Used, UplinkIsAhead, Rising, hub
<1>6. QED
  BY <1>2, <1>4, <1>5, HostStep

LEMMA PluginDrawsStep ==
  ASSUME PanelAssumption, Inv, NewestIsOnItsWay, NEW p \in Plugins, NEW r \in Regions,
         PluginDraws(p, r)
  PROVE  Inv' /\ NewestIsOnItsWay'
<1> USE DEF Inv
<1>1. PICK f : f = Frame(r, widgetSeq[r] + 1, p)
  OBVIOUS
<1>2. f \in Frames /\ f.region = r /\ f.seq = widgetSeq[r] + 1 /\ widgetSeq[r] \in Nat
  BY <1>1 DEF Frame, Frames, TypeOK
<1>3. /\ r \in claims[p] /\ writing[p] = None /\ hosting
      /\ uplink' = Append(uplink, f) /\ draws' = draws + 1
      /\ writing' = [writing EXCEPT ![p] = r]
      /\ UNCHANGED <<claims, hosting, widgetSeq, seq, hub, display>>
  BY <1>1 DEF PluginDraws
<1>4. r \notin CoreRegions /\ r # None
  BY <1>3 DEF ClaimsHold, ValidClaims, CoreRegions, Regions, None
<1>5. \A q \in Plugins : writing[q] # r
  <2>1. ASSUME NEW q \in Plugins, writing[q] = r
        PROVE  FALSE
    <3>1. r \in claims[q] /\ q # p
      BY <1>3, <1>4, <2>1 DEF ClaimsHold
    <3>2. QED
      BY <1>3, <3>1 DEF ClaimsHold, ValidClaims
  <2>2. QED
    BY <2>1
<1>6. /\ uplink' \in Seq(Frames) /\ DOMAIN uplink = 1..Len(uplink) /\ Len(uplink) \in Nat
      /\ \A i \in DOMAIN uplink' :
           (i \in DOMAIN uplink /\ uplink'[i] = uplink[i]) \/ uplink'[i] = f
  BY <1>2, <1>3, AppendFrames DEF TypeOK
<1>7. \A q \in Plugins : writing'[q] = IF q = p THEN r ELSE writing[q]
  BY <1>3 DEF TypeOK
<1>8. TypeOK'
  <2>1. draws' \in Nat /\ writing' \in [Plugins -> Regions \cup {None}]
    BY <1>3 DEF TypeOK
  <2>2. QED
    BY <1>3, <1>6, <2>1 DEF TypeOK, hub, display
<1>9. ClaimsHold'
  BY <1>3, <1>7 DEF ClaimsHold, ValidClaims
<1>10. CoreSeqs'
  BY <1>2, <1>3, <1>4, <1>6 DEF CoreSeqs, hub
<1>11. WidgetSeqs'
  <2>1. \A q \in Regions, n \in Nat : Used(q, n) => UsedNext(q, n)
    <3>1. ASSUME NEW q \in Regions, NEW o \in Plugins, writing[o] = q
          PROVE  writing'[o] = q
      BY <1>3, <1>7, <3>1 DEF None, Regions
    <3>2. QED
      BY <1>3, <3>1 DEF Used, UsedNext
  <2>2. UsedNext(r, f.seq)
    BY <1>2, <1>3, <1>7 DEF UsedNext
  <2>3. \A q \in Regions \ CoreRegions : UsedNext(q, posted[q].seq)
    BY <2>1, FramesTyped DEF WidgetSeqs
  <2>4. \A i \in DOMAIN uplink : UsedNext(uplink[i].region, uplink[i].seq)
    BY <2>1, FramesTyped DEF WidgetSeqs
  <2>5. QED
    BY <1>2, <1>3, <1>6, <2>2, <2>3, <2>4 DEF WidgetSeqs, Used, UsedNext, hub
<1>12. UplinkIsAhead'
  <2>1. \A i \in DOMAIN uplink : uplink[i].region = f.region => uplink[i].seq < f.seq
    BY <1>2, <1>5, FramesTyped DEF WidgetSeqs, Used
  <2>2. Rising(Append(uplink, f))
    BY <1>2, <2>1, RisingAppend DEF UplinkIsAhead, TypeOK
  <2>3. posted[r].seq < f.seq
    BY <1>2, <1>4, <1>5, FramesTyped DEF WidgetSeqs, Used
  <2>4. QED
    BY <1>2, <1>3, <1>6, <2>2, <2>3 DEF UplinkIsAhead, hub
<1>13. QED
  BY <1>3, <1>8, <1>9, <1>10, <1>11, <1>12, HostStep

LEMMA DrawReturnsStep ==
  ASSUME Inv, NewestIsOnItsWay, NEW p \in Plugins, DrawReturns(p)
  PROVE  Inv' /\ NewestIsOnItsWay'
<1> USE DEF Inv
<1>1. PICK r : r = writing[p]
  OBVIOUS
<1>2. /\ r \in Regions /\ r # None /\ r \in claims[p] /\ widgetSeq[r] \in Nat
  BY <1>1 DEF DrawReturns, TypeOK, ClaimsHold
<1>3. /\ writing' = [writing EXCEPT ![p] = None]
      /\ widgetSeq' = [widgetSeq EXCEPT ![r] = widgetSeq[r] + 1]
      /\ UNCHANGED <<claims, hosting, draws, seq, uplink, hub, display>>
  BY <1>1 DEF DrawReturns
<1>4. \A q \in Plugins : q # p => writing[q] # r
  <2>1. ASSUME NEW q \in Plugins, q # p, writing[q] = r
        PROVE  FALSE
    BY <1>2, <2>1 DEF ClaimsHold, ValidClaims
  <2>2. QED
    BY <2>1
<1>5. \A q \in Plugins : writing'[q] = IF q = p THEN None ELSE writing[q]
  BY <1>3 DEF TypeOK
<1>6. \A q \in Regions : widgetSeq'[q] = IF q = r THEN widgetSeq[r] + 1 ELSE widgetSeq[q]
  BY <1>2, <1>3 DEF TypeOK
<1>7. TypeOK'
  <2>1. widgetSeq' \in [Regions -> Nat] /\ writing' \in [Plugins -> Regions \cup {None}]
    BY <1>2, <1>3 DEF TypeOK
  <2>2. QED
    BY <1>3, <2>1 DEF TypeOK, hub, display
<1>8. ClaimsHold'
  BY <1>3, <1>5 DEF ClaimsHold, ValidClaims
<1>9. \A q \in Regions, n \in Nat : Used(q, n) => UsedNext(q, n)
  <2>1. ASSUME NEW q \in Regions, NEW n \in Nat, Used(q, n)
        PROVE  UsedNext(q, n)
    <3>1. CASE q = r
      BY <1>2, <1>6, <2>1, <3>1 DEF Used, UsedNext
    <3>2. CASE q # r
      <4>1. ASSUME NEW o \in Plugins, writing[o] = q
            PROVE  writing'[o] = q
        BY <1>1, <1>5, <3>2, <4>1
      <4>2. QED
        BY <1>6, <2>1, <3>2, <4>1 DEF Used, UsedNext
    <3>3. QED
      BY <3>1, <3>2
  <2>2. QED
    BY <2>1
<1>10. CoreSeqs' /\ UplinkIsAhead'
  BY <1>3 DEF CoreSeqs, UplinkIsAhead, Rising, hub
<1>11. WidgetSeqs'
  <2>1. \A q \in Regions \ CoreRegions : UsedNext(q, posted[q].seq)
    BY <1>9, FramesTyped DEF WidgetSeqs
  <2>2. \A i \in DOMAIN uplink : UsedNext(uplink[i].region, uplink[i].seq)
    BY <1>9, FramesTyped DEF WidgetSeqs
  <2>3. QED
    BY <1>3, <2>1, <2>2 DEF WidgetSeqs, Used, UsedNext, hub
<1>12. QED
  BY <1>3, <1>7, <1>8, <1>10, <1>11, HostStep

-------------------------------------------------------------------------------
(* The display service *)

\* What the rest of the system holds is untouched by the display.
LEMMA DisplayStep ==
  ASSUME Inv, UNCHANGED <<seq, host, uplink, posted>>
  PROVE  ClaimsHold' /\ CoreSeqs' /\ WidgetSeqs' /\ UplinkIsAhead'
  BY DEF Inv, ClaimsHold, ValidClaims, CoreSeqs, WidgetSeqs, Used, UplinkIsAhead, Rising, host

LEMMA IntakeStep ==
  ASSUME Inv, NewestIsOnItsWay, Intake
  PROVE  Inv' /\ NewestIsOnItsWay'
<1> USE DEF Inv
<1>1. PICK f : f = link[1]
  OBVIOUS
<1>2. /\ link \in Seq(Frames) /\ link # << >> /\ Head(link) = f /\ 1 \in DOMAIN link
      /\ f \in Frames /\ f.region \in Regions /\ f.seq \in Nat
  BY <1>1, TailFrames, FramesTyped DEF Intake, TypeOK
<1>3. latest[f.region] < f.seq /\ f.seq <= posted[f.region].seq /\ latest[f.region] \in Int
  BY <1>1, <1>2, FramesTyped DEF LinkIsAhead
<1>4. /\ link' = Tail(link) /\ latest' = [latest EXCEPT ![f.region] = f.seq]
      /\ pending' = Staged(f) /\ signal' = TRUE
      /\ UNCHANGED <<batch, zones, missed, panel, connected, posted, lost, seq, host, uplink>>
  BY <1>2, <1>3 DEF Intake
<1>5. \A r \in Regions : latest'[r] = IF r = f.region THEN f.seq ELSE latest[r]
  BY <1>2, <1>4 DEF TypeOK
<1>6. /\ pending' \in Seq(Frames) /\ OnePerRegion(pending)'
      /\ \A i \in DOMAIN pending' :
           \/ pending'[i] = f
           \/ /\ i \in DOMAIN pending /\ pending'[i] = pending[i]
              /\ pending[i].region # f.region
      /\ NewestIn(Staged(f), f.region, f)
      /\ \A r, g : r # f.region =>
           /\ NewestIn(pending, r, g) /\ g.region = r => NewestIn(Staged(f), r, g)
           /\ Without(pending, r) => Without(Staged(f), r)
  <2>1. pending \in Seq(Frames) /\ OnePerRegion(pending)
    BY DEF TypeOK, SlotsHoldLatest
  <2>2. /\ Staged(f) \in Seq(Frames) /\ OnePerRegion(Staged(f))
        /\ \A i \in DOMAIN Staged(f) :
             \/ Staged(f)[i] = f
             \/ /\ i \in DOMAIN pending /\ Staged(f)[i] = pending[i]
                /\ pending[i].region # f.region
        /\ NewestIn(Staged(f), f.region, f)
        /\ \A r, g : r # f.region =>
             /\ NewestIn(pending, r, g) /\ g.region = r => NewestIn(Staged(f), r, g)
             /\ Without(pending, r) => Without(Staged(f), r)
    BY <1>2, <2>1, StagedFrames
  <2>3. OnePerRegion(pending)'
    BY <1>4, <2>2 DEF OnePerRegion
  <2>4. QED
    BY <1>4, <2>2, <2>3
<1>7. link' \in Seq(Frames)
  BY <1>2, <1>4, TailFrames
<1>8. TypeOK'
  <2>1. latest' \in [Regions -> Int]
    BY <1>2, <1>4 DEF TypeOK
  <2>2. connected
    BY <1>2 DEF TypeOK
  <2>3. QED
    BY <1>4, <1>6, <1>7, <2>1, <2>2 DEF TypeOK, host
<1>9. LinkIsAhead'
  <2>1. /\ Rising(Tail(link))
        /\ \A i \in DOMAIN Tail(link) :
             Tail(link)[i].region = f.region => f.seq < Tail(link)[i].seq
    BY <1>1, <1>2, RisingTail DEF LinkIsAhead
  <2>2. \A i \in DOMAIN Tail(link) :
          /\ i + 1 \in DOMAIN link /\ Tail(link)[i] = link[i + 1] /\ Tail(link)[i].region \in Regions
          /\ latest[Tail(link)[i].region] < Tail(link)[i].seq
          /\ Tail(link)[i].seq <= posted[Tail(link)[i].region].seq
    BY <1>2, TailFrames, FramesTyped DEF LinkIsAhead
  <2>3. QED
    BY <1>4, <1>5, <2>1, <2>2 DEF LinkIsAhead
<1>10. SlotsHoldLatest'
  <2>1. \A r \in Regions : latest[r] <= latest'[r] /\ latest'[r] <= posted'[r].seq /\ latest'[r] \in Int
    BY <1>2, <1>3, <1>4, <1>5, FramesTyped DEF SlotsHoldLatest
  <2>2. \A i \in DOMAIN pending' : pending'[i].seq = latest'[pending'[i].region]
    BY <1>2, <1>5, <1>6, FramesTyped DEF SlotsHoldLatest
  <2>3. \A i \in DOMAIN batch : batch[i].seq <= latest'[batch[i].region]
    BY <2>1, FramesTyped DEF SlotsHoldLatest
  <2>4. \A r \in Regions : zones[r].seq = 0 \/ zones[r].seq <= latest'[r]
    BY <2>1, FramesTyped DEF SlotsHoldLatest
  <2>5. OnePerRegion(batch)'
    BY <1>4 DEF SlotsHoldLatest, OnePerRegion
  <2>6. QED
    BY <1>4, <1>6, <2>1, <2>2, <2>3, <2>4, <2>5 DEF SlotsHoldLatest
<1>11. NewestIsOnItsWay'
  <2> SUFFICES ASSUME NEW r \in Zones, r \notin lost
               PROVE  OnItsWay(r, posted[r])'
    BY <1>4 DEF NewestIsOnItsWay
  <2>0. r \in Regions
    BY DEF Zones, Regions
  <2>1. OnItsWay(r, posted[r])
    BY DEF NewestIsOnItsWay
  <2>2. NewestIn(link, r, posted[r]) =>
          NewestIn(Tail(link), r, posted[r]) \/ (f = posted[r] /\ Without(Tail(link), r))
    BY <1>1, <1>2, NewestTail
  <2>3. Without(link, r) => Without(Tail(link), r) /\ f.region # r
    BY <1>1, <1>2, NewestTail
  <2>4. CASE NewestIn(Tail(link), r, posted[r])
    BY <1>4, <2>4 DEF OnItsWay
  <2>5. CASE f = posted[r] /\ Without(Tail(link), r)
    <3>1. f.region = r
      BY <1>2, <2>0, <2>5, FramesTyped DEF CoreSeqs
    <3>2. QED
      BY <1>4, <1>6, <2>5, <3>1 DEF OnItsWay
  <2>6. CASE /\ Without(link, r)
             /\ \/ NewestIn(pending, r, posted[r])
                \/ /\ Without(pending, r)
                   /\ NewestIn(batch, r, posted[r]) \/ (Without(batch, r) /\ zones[r] = posted[r])
    <3>1. NewestIn(pending, r, posted[r]) => NewestIn(Staged(f), r, posted[r])
      <4>1. NewestIn(pending, r, posted[r]) => posted[r].region = r
        <5>1. NewestIn(pending, r, posted[r]) => posted[r] \in Frames
          BY FramesTyped DEF NewestIn
        <5>2. QED
          BY <2>0, <5>1, FramesTyped DEF CoreSeqs
      <4>2. QED
        BY <1>6, <2>3, <2>6, <4>1
    <3>2. Without(pending, r) => Without(Staged(f), r)
      BY <1>6, <2>3, <2>6
    <3>3. QED
      BY <1>4, <2>3, <2>6, <3>1, <3>2 DEF OnItsWay
  <2>7. QED
    BY <2>1, <2>2, <2>4, <2>5, <2>6 DEF OnItsWay
<1>12. QED
  BY <1>4, <1>8, <1>9, <1>10, <1>11, DisplayStep

LEMMA TakeBatchStep ==
  ASSUME Inv, NewestIsOnItsWay, TakeBatch
  PROVE  Inv' /\ NewestIsOnItsWay'
<1> USE DEF Inv
<1>1. /\ batch = << >> /\ batch' = pending /\ pending' = << >> /\ signal' = FALSE
      /\ UNCHANGED <<latest, zones, missed, panel, seq, host, uplink, hub>>
  BY DEF TakeBatch
<1>2. TypeOK'
  BY <1>1 DEF TypeOK, host, hub
<1>3. LinkIsAhead'
  BY <1>1 DEF LinkIsAhead, Rising, hub
<1>4. SlotsHoldLatest'
  <2>1. \A i \in DOMAIN pending :
          /\ pending[i].seq <= latest[pending[i].region]
          /\ zones[pending[i].region].seq <= pending[i].seq
    BY FramesTyped DEF SlotsHoldLatest
  <2>2. DOMAIN pending' = {}
    BY <1>1
  <2>3. OnePerRegion(pending)' /\ OnePerRegion(batch)'
    BY <1>1, <2>2 DEF SlotsHoldLatest, OnePerRegion
  <2>4. QED
    BY <1>1, <2>1, <2>2, <2>3 DEF SlotsHoldLatest, hub
<1>5. NewestIsOnItsWay'
  <2> SUFFICES ASSUME NEW r \in Zones, r \notin lost
               PROVE  OnItsWay(r, posted[r])'
    BY <1>1 DEF NewestIsOnItsWay, hub
  <2>1. OnItsWay(r, posted[r])
    BY DEF NewestIsOnItsWay
  <2>2. Without(pending, r)' /\ Without(batch, r) /\ ~NewestIn(batch, r, posted[r])
    BY <1>1 DEF Without, NewestIn
  <2>3. QED
    BY <1>1, <2>1, <2>2 DEF OnItsWay, hub
<1>6. QED
  BY <1>1, <1>2, <1>3, <1>4, <1>5, DisplayStep DEF hub

LEMMA DrawStep ==
  ASSUME Inv, NewestIsOnItsWay, Draw
  PROVE  /\ Inv' /\ NewestIsOnItsWay'
         /\ posted' = posted
         /\ \A r \in Regions : /\ panel'[r].seq \in Nat /\ panel[r].seq <= panel'[r].seq
                               /\ panel'[r].seq <= posted[r].seq
<1> USE DEF Inv
<1>1. PICK f : f = batch[1]
  OBVIOUS
<1>2. /\ batch \in Seq(Frames) /\ batch # << >> /\ Head(batch) = f /\ 1 \in DOMAIN batch
      /\ f \in Frames /\ f.region \in Regions /\ f.seq \in Nat
  BY <1>1, TailFrames, FramesTyped DEF Draw, TypeOK
<1>3. /\ batch' = Tail(batch) /\ posted' = posted
      /\ UNCHANGED <<latest, pending, signal, seq, host, uplink, hub>>
  BY DEF Draw, hub
<1>4. zones' = IF f.region \in Zones THEN [zones EXCEPT ![f.region] = f] ELSE zones
  BY <1>2 DEF Draw
<1>5. panel' = zones' \/ panel' = panel
  BY <1>2 DEF Draw
<1>6. missed' \in BOOLEAN
  BY <1>2 DEF Draw, TypeOK
<1>7. \A r \in Regions : zones'[r] = IF r = f.region /\ r \in Zones THEN f ELSE zones[r]
  BY <1>2, <1>4 DEF TypeOK
<1>8. zones' \in [Regions -> Frames \cup {NoFrame}]
  BY <1>2, <1>4 DEF TypeOK
<1>9. TypeOK'
  <2>1. batch' \in Seq(Frames) /\ panel' \in [Regions -> Frames \cup {NoFrame}]
    BY <1>2, <1>3, <1>5, <1>8, TailFrames DEF TypeOK
  <2>2. QED
    BY <1>3, <1>6, <1>8, <2>1 DEF TypeOK, host, hub
<1>10. LinkIsAhead'
  BY <1>3 DEF LinkIsAhead, Rising, hub
<1>11. /\ f.seq <= latest[f.region] /\ zones[f.region].seq <= f.seq
  BY <1>1, <1>2 DEF SlotsHoldLatest
<1>12. \A r \in Regions :
         /\ zones'[r].seq \in Nat /\ zones[r].seq <= zones'[r].seq
         /\ zones'[r].seq = 0 \/ zones'[r].seq <= latest[r]
         /\ zones'[r].seq <= posted[r].seq
  <2>1. \A r \in Regions :
          /\ zones[r].seq \in Nat /\ latest[r] \in Int /\ posted[r].seq \in Nat
          /\ latest[r] <= posted[r].seq
          /\ zones[r].seq = 0 \/ zones[r].seq <= latest[r]
    BY FramesTyped DEF SlotsHoldLatest
  <2>2. ASSUME NEW r \in Regions, r = f.region, r \in Zones
        PROVE  /\ zones'[r] = f /\ zones[r].seq <= f.seq /\ f.seq <= latest[r]
               /\ f.seq <= posted[r].seq
    BY <1>2, <1>7, <1>11, <2>1, <2>2
  <2>3. ASSUME NEW r \in Regions, ~(r = f.region /\ r \in Zones)
        PROVE  zones'[r] = zones[r] /\ zones[r].seq <= posted[r].seq
    BY <1>7, <2>1, <2>3
  <2>4. QED
    BY <1>2, <2>1, <2>2, <2>3
<1>13. \A r \in Regions :
         /\ panel'[r].seq \in Nat /\ panel[r].seq <= panel'[r].seq
         /\ panel'[r].seq <= zones'[r].seq
  <2>1. \A r \in Regions : panel[r].seq \in Nat /\ zones[r].seq \in Nat /\ panel[r].seq <= zones[r].seq
    BY FramesTyped DEF SlotsHoldLatest
  <2>2. QED
    BY <1>5, <1>12, <2>1
<1>14. SlotsHoldLatest'
  <2>1. /\ OnePerRegion(Tail(batch))
        /\ \A i \in DOMAIN Tail(batch) : Tail(batch)[i].region # f.region
    BY <1>1, <1>2, OneTail DEF SlotsHoldLatest
  <2>2. \A i \in DOMAIN Tail(batch) :
          /\ i + 1 \in DOMAIN batch /\ Tail(batch)[i] = batch[i + 1]
          /\ Tail(batch)[i].region \in Regions
          /\ Tail(batch)[i].seq <= latest[Tail(batch)[i].region]
          /\ zones[Tail(batch)[i].region].seq <= Tail(batch)[i].seq
    BY <1>2, TailFrames, FramesTyped DEF SlotsHoldLatest
  <2>3. \A i \in DOMAIN Tail(batch) : zones'[Tail(batch)[i].region] = zones[Tail(batch)[i].region]
    BY <1>7, <2>1, <2>2
  <2>4. OnePerRegion(pending)' /\ OnePerRegion(batch)'
    BY <1>3, <2>1 DEF SlotsHoldLatest, OnePerRegion
  <2>5. \A i \in DOMAIN batch' : /\ batch'[i].seq <= latest'[batch'[i].region]
                                 /\ zones'[batch'[i].region].seq <= batch'[i].seq
    BY <1>3, <2>2, <2>3
  <2>6. \A i \in DOMAIN pending' : pending'[i].seq = latest'[pending'[i].region]
    BY <1>3 DEF SlotsHoldLatest
  <2>7. \A r \in Regions : latest'[r] <= posted'[r].seq
    BY <1>3 DEF SlotsHoldLatest
  <2>8. QED
    BY <1>3, <1>12, <1>13, <2>4, <2>5, <2>6, <2>7 DEF SlotsHoldLatest
<1>15. NewestIsOnItsWay'
  <2> SUFFICES ASSUME NEW r \in Zones, r \notin lost
               PROVE  OnItsWay(r, posted[r])'
    BY <1>3 DEF NewestIsOnItsWay, hub
  <2>0. r \in Regions
    BY DEF Zones, Regions
  <2>1. OnItsWay(r, posted[r])
    BY DEF NewestIsOnItsWay
  <2>2. NewestIn(batch, r, posted[r]) =>
          NewestIn(Tail(batch), r, posted[r]) \/ (f = posted[r] /\ Without(Tail(batch), r))
    BY <1>1, <1>2, NewestTail
  <2>3. Without(batch, r) => Without(Tail(batch), r) /\ zones'[r] = zones[r]
    <3>1. Without(batch, r) => Without(Tail(batch), r) /\ batch[1].region # r
      BY <1>2, WithoutTail
    <3>2. f.region # r => zones'[r] = zones[r]
      BY <1>7, <2>0
    <3>3. QED
      BY <1>1, <3>1, <3>2
  <2>4. f = posted[r] => zones'[r] = posted[r]
    BY <1>2, <1>7, <2>0, FramesTyped DEF CoreSeqs
  <2>5. UNCHANGED <<link, pending, posted>>
    BY <1>3 DEF hub
  <2>6. QED
    BY <1>3, <2>1, <2>2, <2>3, <2>4, <2>5 DEF OnItsWay
<1>16. QED
  BY <1>3, <1>9, <1>10, <1>12, <1>13, <1>14, <1>15, DisplayStep, FramesTyped

-------------------------------------------------------------------------------
(* The theorems *)

LEMMA NextInv ==
  ASSUME PanelAssumption, "caption" \notin Claimable, Inv, NewestIsOnItsWay, [Next]_vars
  PROVE  Inv' /\ NewestIsOnItsWay'
<1>1. CASE \E r \in CoreRegions : CorePushes(r)
  BY <1>1, CorePushesStep
<1>2. CASE HostConnects
  BY <1>2, HostConnectsStep
<1>3. CASE HubRoutes
  BY <1>3, HubRoutesStep
<1>4. CASE \E p \in Plugins, r \in Regions : PluginDraws(p, r)
  BY <1>4, PluginDrawsStep
<1>5. CASE \E p \in Plugins : DrawReturns(p)
  BY <1>5, DrawReturnsStep
<1>6. CASE DisplayConnects
  BY <1>6, DisplayConnectsStep
<1>7. CASE Intake
  BY <1>7, IntakeStep
<1>8. CASE TakeBatch
  BY <1>8, TakeBatchStep
<1>9. CASE Draw
  BY <1>9, DrawStep
<1>10. CASE UNCHANGED vars
  <2>1. UNCHANGED <<seq, host, uplink, hub, display>>
    BY <1>10 DEF vars
  <2>2. TypeOK'
    BY <2>1 DEF Inv, TypeOK, host, hub, display
  <2>3. ClaimsHold' /\ CoreSeqs' /\ WidgetSeqs' /\ UplinkIsAhead'
    BY <2>1, DisplayStep DEF hub
  <2>4. QED
    BY <2>1, <2>2, <2>3, HostStep DEF Inv
<1>11. QED
  BY <1>1, <1>2, <1>3, <1>4, <1>5, <1>6, <1>7, <1>8, <1>9, <1>10 DEF Next

LEMMA BoardStep ==
  ASSUME PanelAssumption, "caption" \notin Claimable, Inv, NewestIsOnItsWay, [Next]_vars
  PROVE  [Board!Next]_(Board!vars)
<1> DEFINE Places == [r \in Zones |-> posted[r].seq]
           Shown == [r \in Zones |-> panel[r].seq]
<1>0. Zones \subseteq Regions
  BY DEF Zones, Regions
<1>1. ASSUME NEW r \in Regions, posted[r].seq < posted'[r].seq,
             posted' = [posted EXCEPT ![r] = posted'[r]], UNCHANGED panel
      PROVE  [Board!Next]_(Board!vars)
  <2>1. \A q \in Zones : q # r => posted'[q] = posted[q]
    BY <1>0, <1>1 DEF Inv, TypeOK
  <2>2. Shown' = Shown
    BY <1>1
  <2>3. CASE r \in Zones
    <3>1. Places'[r] > Places[r]
      BY <1>1, <2>3, FramesTyped DEF Inv
    <3>2. Places' = [Places EXCEPT ![r] = Places'[r]]
      BY <2>1, <2>3
    <3>3. Board!Post(r)
      BY <2>2, <3>1, <3>2 DEF Board!Post
    <3>4. QED
      BY <2>3, <3>3 DEF Board!Next
  <2>4. CASE r \notin Zones
    <3>1. Places' = Places
      BY <2>1, <2>4
    <3>2. QED
      BY <2>2, <3>1 DEF Board!vars
  <2>5. QED
    BY <2>3, <2>4
<1>2. ASSUME UNCHANGED <<posted, panel>>
      PROVE  [Board!Next]_(Board!vars)
  BY <1>2 DEF Board!vars
<1>3. CASE Draw
  <2>1. posted' = posted /\ \A r \in Zones : Shown'[r] \in Shown[r] .. Places[r]
    <3>1. \A r \in Zones : /\ panel'[r].seq \in Nat /\ panel[r].seq <= panel'[r].seq
                           /\ panel'[r].seq <= posted[r].seq
                           /\ panel[r].seq \in Nat /\ posted[r].seq \in Nat
      BY <1>0, <1>3, DrawStep, FramesTyped DEF Inv
    <3>2. posted' = posted
      BY <1>3, DrawStep
    <3>3. QED
      BY <3>1, <3>2
  <2>2. Places' = Places
    BY <2>1
  <2>3. Shown' = [r \in Zones |-> Shown'[r]]
    OBVIOUS
  <2>4. Board!Refresh
    BY <2>1, <2>2, <2>3 DEF Board!Refresh
  <2>5. QED
    BY <2>4 DEF Board!Next
<1>4. CASE \E r \in CoreRegions : CorePushes(r)
  <2>1. PICK r \in CoreRegions : CorePushes(r)
    BY <1>4
  <2>2. r \in Regions /\ UNCHANGED panel
    BY <2>1 DEF CoreRegions, Regions, CorePushes, display
  <2>3. posted[r].seq < posted'[r].seq /\ posted' = [posted EXCEPT ![r] = posted'[r]]
    BY <2>1, CorePushesStep
  <2>4. QED
    BY <1>1, <2>2, <2>3
<1>5. CASE HubRoutes
  <2>1. UNCHANGED panel
    BY <1>5 DEF HubRoutes, display
  <2>2. QED
    BY <1>1, <1>5, <2>1, HubRoutesStep
<1>6. CASE HostConnects \/ DisplayConnects
  BY <1>2, <1>6 DEF HostConnects, DisplayConnects, hub, display
<1>7. CASE \E p \in Plugins, r \in Regions : PluginDraws(p, r)
  BY <1>2, <1>7 DEF PluginDraws, hub, display
<1>8. CASE \E p \in Plugins : DrawReturns(p)
  BY <1>2, <1>8 DEF DrawReturns, hub, display
<1>9. CASE Intake
  BY <1>2, <1>9 DEF Intake
<1>10. CASE TakeBatch
  BY <1>2, <1>10 DEF TakeBatch, hub
<1>11. CASE UNCHANGED vars
  BY <1>2, <1>11 DEF vars, hub, display
<1>12. QED
  BY <1>3, <1>4, <1>5, <1>6, <1>7, <1>8, <1>9, <1>10, <1>11 DEF Next

\* However slow the panel and whatever the display skips, the newest frame of a region
\* that found a display is drawn or still on its way to be (_intake_loop, _render_loop).
THEOREM NewestSafe ==
  ASSUME "caption" \notin Claimable
  PROVE  Spec => []NewestIsOnItsWay
<1>1. Init => Inv /\ NewestIsOnItsWay
  BY InitInv
<1>2. Inv /\ NewestIsOnItsWay /\ [Next]_vars => Inv' /\ NewestIsOnItsWay'
  BY PanelAssumption, NextInv
<1>3. QED
  BY <1>1, <1>2, PTL DEF Spec

\* The panel keeps the promise of Billboard: it shows the frames of a region in the order
\* they were posted, and showing one region takes no other back (run_display,
\* WaveshareRenderer).
THEOREM PanelImplementsBillboard ==
  ASSUME "caption" \notin Claimable
  PROVE  Spec => PanelKept
<1>1. Init => Inv /\ NewestIsOnItsWay
  BY InitInv
<1>2. Inv /\ NewestIsOnItsWay /\ [Next]_vars => Inv' /\ NewestIsOnItsWay'
  BY PanelAssumption, NextInv
<1>3. Init => Board!Init
  BY DEF Init, Board!Init, Blank, NoFrame, Zones, Regions
<1>4. Inv /\ NewestIsOnItsWay /\ [Next]_vars => [Board!Next]_(Board!vars)
  BY PanelAssumption, BoardStep
<1>5. QED
  BY <1>1, <1>2, <1>3, <1>4, PTL DEF Spec, PanelKept, Board!Spec
===============================================================================
