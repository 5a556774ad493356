------------------------------- MODULE SelfCode -------------------------------
(***************************************************************************)
(* The life of a self-coded tool: core/selfcode.py, the promotion and      *)
(* health tables of core/history.py, and the handlers of core/runtime.py   *)
(* that drive them.  A proposal is staged as two files under the stem of   *)
(* the tool, gated by a subprocess, offered to the owner, promoted by a    *)
(* tap, and quarantined when it keeps failing.  The consumer of core_inbox *)
(* handles one proposal, tap or failure report at a time; the prune job of *)
(* the scheduler may run while a gate is awaited.  The turns that carry    *)
(* the proposals are TurnLoop's.                                           *)
(***************************************************************************)
EXTENDS Naturals, Sequences, FiniteSets

CONSTANTS
  Stems,         \* the file stems tool names come down to
  MaxProposals,  \* tools proposed, each in a turn of its own
  Threshold,     \* _QUARANTINE_STRIKE_THRESHOLD
  MaxReports,    \* failing tools reported by workers
  MaxCrashes     \* deaths of the core

ASSUME SelfCodeAssumption ==
  /\ MaxProposals \in Nat /\ MaxReports \in Nat /\ MaxCrashes \in Nat
  /\ Threshold \in Nat \ {0}

VARIABLES
  proposals,   \* the stem of every proposal so far; its position is version and turn
  gating,      \* the version whose gate is awaited, 0 for none
  module, test, \* per stem: the version of the two staged files, 0 for absent
  rows,        \* pending_promotions
  live,        \* per stem: the version in tools/, 0 for absent
  quarantined, \* per stem: the version in tools-quarantine/, 0 for absent
  strikes,     \* tool_health
  loaded,      \* what the tools of the running worker were when it was forked
  gated,       \* versions that passed their gate (history variable)
  cutShort,    \* versions whose staging or gate was interrupted (history variable)
  strays,      \* stems whose files lost their row to a crash, a full disk or a late tap (history variable)
  denied,      \* versions the owner said no to (history variable)
  promoted,    \* <<version that went live, its row>>, in order (history variable)
  failed,      \* failures reported, per version (history variable)
  reports, crashes

stagingVars == <<module, test, strays>>
toolVars    == <<live, quarantined, strikes, loaded>>
auditVars   == <<gated, cutShort, denied, promoted, failed>>
vars == <<proposals, gating, stagingVars, rows, toolVars, auditVars, reports, crashes>>

-------------------------------------------------------------------------------
(* Types *)

Versions == 1..MaxProposals
MaybeVersion == 0..MaxProposals
PromotionRow == [turn : Versions, stem : Stems, expired : BOOLEAN]

TypeOK ==
  /\ proposals \in Seq(Stems) /\ Len(proposals) <= MaxProposals
  /\ gating \in MaybeVersion
  /\ module \in [Stems -> MaybeVersion] /\ test \in [Stems -> MaybeVersion]
  /\ rows \subseteq PromotionRow
  /\ \A row1, row2 \in rows : row1.turn = row2.turn => row1 = row2
  /\ live \in [Stems -> MaybeVersion] /\ quarantined \in [Stems -> MaybeVersion]
  /\ strikes \in [Stems -> Nat]
  /\ loaded \in [Stems -> MaybeVersion]
  /\ gated \subseteq Versions /\ cutShort \subseteq Versions /\ denied \subseteq Versions
  /\ strays \subseteq Stems
  /\ promoted \in Seq([version : Versions, row : PromotionRow])
  /\ failed \in [Versions -> Nat]
  /\ reports \in 0..MaxReports /\ crashes \in 0..MaxCrashes

-------------------------------------------------------------------------------
(* The workspace: selfcode.py *)

Remove(files, stems) == [s \in Stems |-> IF s \in stems THEN 0 ELSE files[s]]

\* discard
Discard(stems) ==
  module' = Remove(module, stems) /\ test' = Remove(test, stems) /\ strays' = strays \ stems

\* stage: the older pair of that stem is gone before the new one is written.
StagePair(s, v) ==
  /\ module' = [module EXCEPT ![s] = v] /\ test' = [test EXCEPT ![s] = v]
  /\ strays' = strays \ {s}

\* The module is written and the test is not: a full disk, or a crash.
StageHalf(s, v) ==
  /\ module' = [module EXCEPT ![s] = v] /\ test' = [test EXCEPT ![s] = 0]
  /\ strays' = strays \cup {s}

-------------------------------------------------------------------------------
(* A proposal: _handle_propose_tool *)

Propose(s) ==
  /\ gating = 0 /\ Len(proposals) < MaxProposals
  /\ proposals' = Append(proposals, s)
  /\ UNCHANGED <<rows, toolVars, gated, denied, promoted, failed, reports, crashes>>

\* Staged, and suspended in the gate.
Stage(s) ==
  /\ Propose(s)
  /\ gating' = Len(proposals) + 1
  /\ StagePair(s, gating')
  /\ UNCHANGED cutShort

\* Too large or unusable a name is refused before anything is touched; an error while
\* writing the module leaves nothing, one while writing the test leaves the module.
StagingFails(s) ==
  /\ Propose(s)
  /\ UNCHANGED gating
  /\ \/ UNCHANGED <<stagingVars, cutShort>>
     \/ Discard({s}) /\ UNCHANGED cutShort
     \/ /\ StageHalf(s, Len(proposals) + 1)
        /\ cutShort' = cutShort \cup {Len(proposals) + 1}

OfferOfNextTurn(v) == [turn |-> v + 1, stem |-> proposals[v], expired |-> FALSE]

\* park_promotion: keyed by the turn that proposed the tool.
Offer(v) == [turn |-> v, stem |-> proposals[v], expired |-> FALSE]

\* The gate passed: a row waits for the owner, whatever became of the files meanwhile.
GatePasses ==
  /\ gating # 0
  /\ gated' = gated \cup {gating}
  /\ rows' = rows \cup {Offer(gating)}
  /\ gating' = 0
  /\ UNCHANGED <<proposals, stagingVars, toolVars, cutShort, denied, promoted, failed, reports,
                 crashes>>

GateFailsKeepsFiles ==
  /\ gating # 0
  /\ gating' = 0
  /\ UNCHANGED <<proposals, stagingVars, rows, toolVars, auditVars, reports, crashes>>

\* Failed, timed out, killed, or raised.
GateFails ==
  /\ gating # 0
  /\ Discard({proposals[gating]})
  /\ gating' = 0
  /\ UNCHANGED <<proposals, rows, toolVars, auditVars, reports, crashes>>

-------------------------------------------------------------------------------
(* The owner's tap: _handle_approval_decision *)

AtAnyTime(row) == TRUE

\* take_promotion hands over the tool only within its time to live.
StillValid(row) == ~row.expired

\* The row is consumed by any tap.
TakePromotion(row) ==
  /\ gating = 0 /\ row \in rows
  /\ rows' = rows \ {row}
  /\ UNCHANGED <<proposals, gating, quarantined, strikes, loaded, gated, cutShort, failed, reports,
                 crashes>>

\* Too late: treated as an approval nobody knows; the files stay.
TapTooLate(row) ==
  /\ TakePromotion(row) /\ ~StillValid(row)
  /\ strays' = strays \cup {row.stem}
  /\ UNCHANGED <<module, test, live, denied, promoted>>

\* promote: whatever module is staged under the stem moves to the live directory.
TapApproves(row) ==
  /\ TakePromotion(row) /\ StillValid(row)
  /\ module[row.stem] # 0
  /\ live' = [live EXCEPT ![row.stem] = module[row.stem]]
  /\ promoted' = Append(promoted, [version |-> module[row.stem], row |-> row])
  /\ Discard({row.stem})
  /\ UNCHANGED denied

\* Nothing is staged any more, or the move failed.
TapApprovesInVain(row) ==
  /\ TakePromotion(row) /\ StillValid(row)
  /\ Discard({row.stem})
  /\ UNCHANGED <<live, denied, promoted>>

TapDeniesRowOnly(row) ==
  /\ TakePromotion(row) /\ StillValid(row)
  /\ denied' = denied \cup {row.turn}
  /\ UNCHANGED <<stagingVars, live, promoted>>

TapDenies(row) ==
  /\ TakePromotion(row) /\ StillValid(row)
  /\ Discard({row.stem})
  /\ denied' = denied \cup {row.turn}
  /\ UNCHANGED <<live, promoted>>

-------------------------------------------------------------------------------
(* Time, housekeeping and failures *)

Expire(row) ==
  /\ row \in rows /\ ~row.expired
  /\ rows' = (rows \ {row}) \cup {[row EXCEPT !.expired = TRUE]}
  /\ UNCHANGED <<proposals, gating, stagingVars, toolVars, auditVars, reports, crashes>>

Expired == {row \in rows : row.expired}
ExpiredStems == {row.stem : row \in Expired}

KeepFiles == UNCHANGED stagingVars
DiscardExpired == Discard(ExpiredStems)

\* The prune job: the rows, and the staged pair of every one of them.
Prune ==
  /\ Expired # {}
  /\ rows' = rows \ Expired
  /\ DiscardExpired
  /\ UNCHANGED <<proposals, gating, toolVars, auditVars, reports, crashes>>

\* A fork reads the live directory once; there is one worker at a time, and the turn of
\* a proposal holds the slot until its gate is over.
WorkerForks ==
  /\ gating = 0
  /\ loaded' = live
  /\ loaded # live
  /\ UNCHANGED <<proposals, gating, stagingVars, rows, live, quarantined, strikes, auditVars,
                 reports, crashes>>

IsBadOnce(s) == TRUE
IsRepeatedlyBad(s) == strikes[s] + 1 >= Threshold

\* _handle_tool_failures, for one tool of the worker's: a strike on its stem, and at the
\* threshold whatever is live under it leaves, unless the move fails.
ToolFails(s) ==
  /\ gating = 0 /\ loaded[s] # 0
  /\ reports < MaxReports /\ reports' = reports + 1
  /\ strikes' = [strikes EXCEPT ![s] = @ + 1]
  /\ failed' = [failed EXCEPT ![loaded[s]] = @ + 1]
  /\ \/ /\ IsRepeatedlyBad(s) /\ live[s] # 0
        /\ quarantined' = [quarantined EXCEPT ![s] = live[s]]
        /\ live' = [live EXCEPT ![s] = 0]
     \/ UNCHANGED <<live, quarantined>>
  /\ UNCHANGED <<proposals, gating, stagingVars, rows, loaded, gated, cutShort, denied, promoted,
                 crashes>>

\* The core dies: a gate under way is lost, and so is what a prune or a tap was about to
\* do to the files of the rows it has already deleted.
Crash ==
  /\ crashes < MaxCrashes /\ crashes' = crashes + 1
  /\ gating' = 0
  /\ cutShort' = cutShort \cup ({gating} \ {0})
  /\ \E taken \in {{}, Expired} \cup {{row} : row \in rows} :
       /\ rows' = rows \ taken
       /\ strays' = strays \cup {row.stem : row \in taken}
            \cup (IF gating = 0 THEN {} ELSE {proposals[gating]})
  /\ UNCHANGED <<proposals, module, test, toolVars, gated, denied, promoted, failed, reports>>

Init ==
  /\ proposals = <<>> /\ gating = 0
  /\ module = [s \in Stems |-> 0] /\ test = module
  /\ rows = {}
  /\ live = [s \in Stems |-> 0] /\ quarantined = live /\ loaded = live
  /\ strikes = [s \in Stems |-> 0]
  /\ gated = {} /\ cutShort = {} /\ strays = {} /\ denied = {}
  /\ promoted = <<>> /\ failed = [v \in Versions |-> 0]
  /\ reports = 0 /\ crashes = 0

Tap(row) == TapTooLate(row) \/ TapApproves(row) \/ TapApprovesInVain(row) \/ TapDenies(row)

Next ==
  \/ \E s \in Stems : Stage(s) \/ StagingFails(s) \/ ToolFails(s)
  \/ GatePasses \/ GateFails
  \/ \E row \in rows : Tap(row) \/ Expire(row)
  \/ Prune \/ WorkerForks \/ Crash

Spec == Init /\ [][Next]_vars

-------------------------------------------------------------------------------
(* Properties *)

\* A tool goes live ungated only if its own staging or gate was interrupted: neither
\* a failed gate nor a prune during a gate can let one through.  And only by a tap on
\* an offer of that name within its time to live.
LiveWasGated ==
  \A i \in DOMAIN promoted :
    /\ promoted[i].version \in gated \cup cutShort
    /\ ~promoted[i].row.expired /\ proposals[promoted[i].version] = promoted[i].row.stem

\* A tool the owner has said no to never goes live afterwards.
DeniedStaysOut ==
  [][\A s \in Stems : live'[s] # live[s] => live'[s] \notin denied]_vars

\* Every staged file is being gated, or waits for an owner's decision, or lost its row
\* to a crash, a half-written pair or a late tap: nothing else litters tools-staging.
StagedFilesAreOwned ==
  \A s \in Stems : module[s] # 0 \/ test[s] # 0 =>
    \/ gating # 0 /\ proposals[gating] = s
    \/ \E row \in rows : row.stem = s
    \/ s \in strays

\* The failures reported under a name: of a version, the first, the second, ...
Failures(s) ==
  {f \in (DOMAIN proposals) \X (1..MaxReports) : proposals[f[1]] = s /\ f[2] <= failed[f[1]]}

FailuresOf(s) == Cardinality(Failures(s))

\* A tool leaves the live directory only after Threshold failures under its name, those of
\* earlier versions included: nothing resets the strikes of a stem.
QuarantineIsEarned ==
  \A s \in Stems : quarantined[s] # 0 => FailuresOf(s) >= Threshold

\* "only on a pass + owner approval - PROMOTES the module to the LIVE dir" (selfcode.py):
\* where nothing was cut short, the version that goes live passed its gate and is the one
\* whose offer the owner approved.
OnlyVettedGoLive ==
  \A i \in DOMAIN promoted : promoted[i].version \notin cutShort =>
    promoted[i].version \in gated /\ promoted[i].version = promoted[i].row.turn
===============================================================================
