-------------------------------- MODULE Panel ---------------------------------
(* How a frame gets on the panel: core and the plugins post frames, the hub routes *)
(* them, the display service keeps the newest of each region for a panel that is   *)
(* slow. core/bus/server.py, plugins/host.py, display/service.py,                  *)
(* display/waveshare.py.                                                           *)
(*                                                                                 *)
(* What core posts, and when, is module Mood; here it posts what it likes. The     *)
(* display and the plugin host are processes that start when they start: until     *)
(* then nothing reaches them.                                                      *)
EXTENDS Integers, Sequences

CONSTANTS
  Plugins,      \* names of the discovered plugins
  Claimable,    \* regions a plugin's manifest may name
  MaxPushes,    \* bounds: frames core pushes,
  MaxDraws      \*   frames the plugins draw

Regions == {"face", "caption", "battery", "status"}

\* The regions composited on the panel (_ZONES).
Zones == {"face", "caption", "battery"}

\* The regions core writes.
CoreRegions == {"face", "caption"}

ASSUME PanelAssumption ==
  /\ Claimable \subseteq Regions
  /\ MaxPushes \in Nat /\ MaxDraws \in Nat

None == "none"

VARIABLES
  seq,         \* _seq of core
  claims,      \* per plugin, the regions of its manifest, once they are loaded
  hosting,     \* the plugin host is connected
  widgetSeq,   \* seqs of the plugin host
  writing,     \* per plugin, the region of a draw whose write has not returned
  uplink,      \* frames on their way from the plugin host to the hub
  connected,   \* the display is registered with the hub
  link,        \* frames on their way from the hub to the display
  latest,      \* per region, latest_seq of the display
  pending,     \* the frames staged for the render loop, one per region
  signal,      \* the render loop has been signalled
  batch,       \* frames the render loop has still to draw
  zones,       \* per region, the frame the renderer composites
  missed,      \* the last refresh failed
  panel,       \* per region, the frame on the panel
  posted,      \* history: per region, the newest frame that reached the hub
  lost,        \* history: regions whose newest frame found no display
  draws        \* frames the plugins have drawn

host == <<claims, hosting, widgetSeq, writing, draws>>
hub == <<connected, link, posted, lost>>
display == <<latest, pending, signal, batch, zones, missed, panel>>
vars == <<seq, host, uplink, hub, display>>

Frame(r, n, who) == [region |-> r, seq |-> n, by |-> who]

NoFrame == [region |-> None, seq |-> 0, by |-> None]

Blank == [r \in Regions |-> NoFrame]

-------------------------------------------------------------------------------
(* The hub *)

\* Every frame is written out, to whoever there is.
RouteAnyway(f) ==
  /\ posted' = [posted EXCEPT ![f.region] = f]
  /\ link' = Append(link, f)
  /\ UNCHANGED <<lost, connected>>

\* A frame for a display that is not there is dropped.
Route(f) ==
  /\ posted' = [posted EXCEPT ![f.region] = f]
  /\ \/ connected /\ link' = Append(link, f) /\ lost' = lost \ {f.region}
     \/ ~connected /\ lost' = lost \cup {f.region} /\ UNCHANGED link
  /\ UNCHANGED connected

\* The display's process has started and registers.
DisplayConnects ==
  /\ ~connected
  /\ connected' = TRUE
  /\ UNCHANGED <<link, posted, lost, seq, host, uplink, display>>

\* _push_face and _push_caption hand the hub a frame with the next seq.
CorePushes(r) ==
  /\ seq < MaxPushes
  /\ seq' = seq + 1
  /\ Route(Frame(r, seq', "core"))
  /\ UNCHANGED <<host, uplink, display>>

\* The hub takes what the plugin host sent.
HubRoutes ==
  /\ uplink # <<>>
  /\ uplink' = Tail(uplink)
  /\ Route(Head(uplink))
  /\ UNCHANGED <<seq, host, display>>

-------------------------------------------------------------------------------
(* The plugin host *)

\* Two plugins may share a region.
ValidClaimsButTheFace(c) == \A p \in Plugins : "face" \notin c[p]

\* validate_claims: no plugin draws the face, no two plugins share a region.
ValidClaims(c) ==
  /\ \A p \in Plugins : "face" \notin c[p]
  /\ \A p, q \in Plugins : p # q => c[p] \cap c[q] = {}

\* The plugins load, whatever their manifests claim, and the host registers; on a
\* conflicting claim it ends instead, and the pet has no plugins.
HostConnects ==
  /\ ~hosting
  /\ claims' \in {c \in [Plugins -> SUBSET Claimable] : ValidClaims(c)}
  /\ hosting' = TRUE
  /\ UNCHANGED <<widgetSeq, writing, draws, seq, uplink, hub, display>>

\* _HostHandle.draw writes a frame for a region the plugin has claimed. A plugin draws
\* from one task, so its next draw waits for this one.
PluginDraws(p, r) ==
  /\ hosting
  /\ r \in claims[p] /\ writing[p] = None
  /\ draws < MaxDraws
  /\ draws' = draws + 1
  /\ writing' = [writing EXCEPT ![p] = r]
  /\ uplink' = Append(uplink, Frame(r, widgetSeq[r] + 1, p))
  /\ UNCHANGED <<claims, hosting, widgetSeq, seq, hub, display>>

\* The write returns, and only then the seq is taken.
DrawReturns(p) ==
  /\ writing[p] # None
  /\ writing' = [writing EXCEPT ![p] = None]
  /\ widgetSeq' = [widgetSeq EXCEPT ![writing[p]] = @ + 1]
  /\ UNCHANGED <<claims, hosting, draws, seq, uplink, hub, display>>

-------------------------------------------------------------------------------
(* The display service *)

\* The frame that is already in the slot stays.
StagedOnce(f) ==
  IF \E i \in DOMAIN pending : pending[i].region = f.region THEN pending ELSE Append(pending, f)

\* The slot of a region is overwritten in place: the newest frame wins.
Staged(f) ==
  IF \E i \in DOMAIN pending : pending[i].region = f.region
  THEN [i \in DOMAIN pending |-> IF pending[i].region = f.region THEN f ELSE pending[i]]
  ELSE Append(pending, f)

Intake ==
  /\ link # <<>>
  /\ link' = Tail(link)
  /\ LET f == Head(link) IN
     \/ /\ f.seq > latest[f.region]
        /\ latest' = [latest EXCEPT ![f.region] = f.seq]
        /\ pending' = Staged(f)
        /\ signal' = TRUE
     \/ /\ f.seq <= latest[f.region]
        /\ UNCHANGED <<latest, pending, signal>>
  /\ UNCHANGED <<batch, zones, missed, panel, connected, posted, lost, seq, host, uplink>>

\* Only one of the staged frames is taken per signal.
TakeOne ==
  /\ signal
  /\ batch = <<>>
  /\ signal' = FALSE
  /\ batch' = <<Head(pending)>>
  /\ pending' = Tail(pending)
  /\ UNCHANGED <<latest, zones, missed, panel, seq, host, uplink, hub>>

\* The render loop takes all that is staged, once it has drawn the last batch.
TakeBatch ==
  /\ signal
  /\ batch = <<>>
  /\ signal' = FALSE
  /\ batch' = pending
  /\ pending' = <<>>
  /\ UNCHANGED <<latest, zones, missed, panel, seq, host, uplink, hub>>

\* Painting one zone erases the others.
DrawOneZone ==
  /\ batch # <<>>
  /\ batch' = Tail(batch)
  /\ LET f == Head(batch) IN
     /\ zones' = [zones EXCEPT ![f.region] = f]
     /\ panel' = [Blank EXCEPT ![f.region] = f]
  /\ UNCHANGED <<missed, latest, pending, signal, seq, host, uplink, hub>>

\* One render: the whole panel is repainted, or the refresh fails and the frame is
\* skipped. A region that is not on the panel is ignored.
Draw ==
  /\ batch # <<>>
  /\ batch' = Tail(batch)
  /\ LET f == Head(batch) IN
     \/ /\ f.region \in Zones
        /\ zones' = [zones EXCEPT ![f.region] = f]
        /\ \/ missed' = FALSE /\ panel' = zones'
           \/ missed' = TRUE /\ UNCHANGED panel
     \/ /\ f.region \notin Zones
        /\ UNCHANGED <<zones, missed, panel>>
  /\ UNCHANGED <<latest, pending, signal, seq, host, uplink, hub>>

-------------------------------------------------------------------------------
\* The hub is up; no child of the launcher is connected.
Init ==
  /\ seq = 0
  /\ claims = [p \in Plugins |-> {}] /\ hosting = FALSE
  /\ widgetSeq = [r \in Regions |-> 0]
  /\ writing = [p \in Plugins |-> None]
  /\ uplink = <<>> /\ draws = 0
  /\ connected = FALSE /\ link = <<>>
  /\ posted = Blank /\ lost = {}
  /\ latest = [r \in Regions |-> -1]
  /\ pending = <<>> /\ signal = FALSE /\ batch = <<>>
  /\ zones = Blank /\ panel = Blank /\ missed = FALSE

Next ==
  \/ \E r \in CoreRegions : CorePushes(r)
  \/ HostConnects \/ HubRoutes
  \/ \E p \in Plugins, r \in Regions : PluginDraws(p, r)
  \/ \E p \in Plugins : DrawReturns(p)
  \/ DisplayConnects \/ Intake \/ TakeBatch \/ Draw

Spec == Init /\ [][Next]_vars

\* The loops of the hub and of the display keep running. Nobody need post anything, and
\* the display and the plugin host need not start.
FairSpec == Spec /\ WF_vars(HubRoutes) /\ WF_vars(Intake) /\ WF_vars(TakeBatch) /\ WF_vars(Draw)

-------------------------------------------------------------------------------
(* Properties *)

Frames == [region : Regions, seq : Nat, by : Plugins \cup {"core"}]

\* Types; and a display that has not registered has no frames on their way to it
\* (_deliver_to drops them).
TypeOK ==
  /\ seq \in Nat /\ draws \in Nat
  /\ claims \in [Plugins -> SUBSET Claimable] /\ hosting \in BOOLEAN
  /\ widgetSeq \in [Regions -> Nat]
  /\ writing \in [Plugins -> Regions \cup {None}]
  /\ uplink \in Seq(Frames)
  /\ connected \in BOOLEAN /\ link \in Seq(Frames)
  /\ posted \in [Regions -> Frames \cup {NoFrame}] /\ lost \subseteq Regions
  /\ latest \in [Regions -> Int] /\ pending \in Seq(Frames) /\ signal \in BOOLEAN
  /\ batch \in Seq(Frames) /\ missed \in BOOLEAN
  /\ zones \in [Regions -> Frames \cup {NoFrame}]
  /\ panel \in [Regions -> Frames \cup {NoFrame}]
  /\ ~connected => link = <<>>

Without(frames, r) == \A i \in DOMAIN frames : frames[i].region # r

NewestIn(frames, r, f) ==
  \E i \in DOMAIN frames :
    frames[i] = f /\ \A j \in DOMAIN frames : i < j => frames[j].region # r

\* Drawn, or in one of the queues to the panel with nothing of its region behind it.
OnItsWay(r, f) ==
  \/ NewestIn(link, r, f)
  \/ /\ Without(link, r)
     /\ \/ NewestIn(pending, r, f)
        \/ /\ Without(pending, r)
           /\ NewestIn(batch, r, f) \/ (Without(batch, r) /\ zones[r] = f)

\* However slow the panel, whatever the display service skips, the newest frame of each
\* region that found a display is still on its way or is the one drawn (_intake_loop,
\* _render_loop).
NewestIsOnItsWay == \A r \in Zones : r \notin lost => OnItsWay(r, posted[r])

\* The panel shows frames of a region in the order they were posted, and showing one
\* region never takes another back (run_display, WaveshareRenderer).
Board == INSTANCE Billboard WITH
  posted <- [r \in Zones |-> posted[r].seq],
  shown <- [r \in Zones |-> panel[r].seq],
  Regions <- Zones

PanelKept == Board!Spec

\* Unless its refresh fails at the last, a panel comes to show the newest frame of each of
\* its regions: no frame waits in its slot for a signal that is gone.
PanelCatchesUp ==
  \A r \in Zones : []<>(r \notin lost /\ ~missed => panel[r] = posted[r])
===============================================================================
