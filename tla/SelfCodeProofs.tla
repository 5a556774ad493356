---------------------------- MODULE SelfCodeProofs ----------------------------
(* What TLAPS proves of module SelfCode, for any set of stems and any number of    *)
(* proposals, reports and crashes: the types, that what goes live was gated, that  *)
(* a denied tool stays out, that every staged file has an owner and that a tool is *)
(* quarantined only for as many failures as it takes.                              *)
EXTENDS SelfCode, SequenceTheorems, FiniteSetTheorems, TLAPS

\* A staged module is a proposal of the stem it lies under.
FilesAreOfTheirStem ==
  \A s \in Stems : module[s] # 0 =>
    module[s] \in 1 .. Len(proposals) /\ proposals[module[s]] = s

\* An offer is of the turn it is keyed by, whose gate is over.
RowsAreOfTheirTurn ==
  \A row \in rows : /\ row.turn \in 1 .. Len(proposals) /\ row.turn # gating
                    /\ proposals[row.turn] = row.stem

\* What is staged has passed its gate, is in it, or was cut short.
StagedIsVetted ==
  \A s \in Stems : module[s] # 0 => module[s] = gating \/ module[s] \in gated \cup cutShort

\* The staging area: all that is said about its files.
StagingOK ==
  /\ module \in [Stems -> MaybeVersion] /\ test \in [Stems -> MaybeVersion]
  /\ strays \subseteq Stems
  /\ FilesAreOfTheirStem /\ StagedIsVetted /\ StagedFilesAreOwned
  /\ \A s \in Stems : module[s] \notin denied

\* The proposals and what is known of each.
ProposalsOK ==
  /\ proposals \in Seq(Stems) /\ Len(proposals) <= MaxProposals
  /\ gating \in 0 .. Len(proposals)
  /\ gated \subseteq Versions /\ cutShort \subseteq Versions /\ denied \subseteq Versions
  /\ \A v \in denied : v \in 1 .. Len(proposals)

\* The parked offers.
RowsOK ==
  /\ rows \subseteq PromotionRow
  /\ \A row1, row2 \in rows : row1.turn = row2.turn => row1 = row2
  /\ RowsAreOfTheirTurn

\* The live and quarantined tools, their health and the two bounds.
ToolsOK ==
  /\ live \in [Stems -> MaybeVersion] /\ quarantined \in [Stems -> MaybeVersion]
  /\ strikes \in [Stems -> Nat] /\ loaded \in [Stems -> MaybeVersion]
  /\ failed \in [Versions -> Nat]
  /\ reports \in 0 .. MaxReports /\ crashes \in 0 .. MaxCrashes

\* What has gone live so far.
PromotedOK ==
  /\ promoted \in Seq([version : Versions, row : PromotionRow])
  /\ \A i \in 1 .. Len(promoted) : promoted[i].version \in 1 .. Len(proposals)
  /\ LiveWasGated

IInv == ProposalsOK /\ StagingOK /\ RowsOK /\ ToolsOK /\ PromotedOK

-------------------------------------------------------------------------------
(* The parts, one by one *)

LEMMA Basics ==
  ASSUME IInv
  PROVE  /\ proposals \in Seq(Stems) /\ Len(proposals) \in Nat /\ Len(proposals) <= MaxProposals
         /\ DOMAIN proposals = 1 .. Len(proposals)
         /\ \A v \in 1 .. Len(proposals) : proposals[v] \in Stems
         /\ gating \in 0 .. Len(proposals)
         /\ gated \subseteq Versions /\ cutShort \subseteq Versions /\ denied \subseteq Versions
         /\ \A v \in denied : v \in 1 .. Len(proposals)
  BY LenProperties, ElementOfSeq DEF IInv, ProposalsOK

\* A new proposal keeps all that was said of the older ones.
LEMMA ProposeKeeps ==
  ASSUME IInv, NEW s \in Stems, Propose(s)
  PROVE  /\ proposals' \in Seq(Stems) /\ Len(proposals') = Len(proposals) + 1
         /\ Len(proposals') <= MaxProposals /\ Len(proposals) + 1 \in Versions
         /\ \A v \in 1 .. Len(proposals) : proposals'[v] = proposals[v]
         /\ proposals'[Len(proposals) + 1] = s
         /\ gating = 0
         /\ UNCHANGED <<rows, live, quarantined, strikes, loaded, gated, denied, promoted, failed,
                        reports, crashes>>
<1>1. /\ proposals \in Seq(Stems) /\ Len(proposals) \in Nat /\ MaxProposals \in Nat
      /\ proposals' = Append(proposals, s) /\ Len(proposals) < MaxProposals
  BY Basics, SelfCodeAssumption DEF Propose
<1>2. /\ proposals' \in Seq(Stems) /\ Len(proposals') = Len(proposals) + 1
      /\ \A v \in 1 .. Len(proposals) : proposals'[v] = proposals[v]
      /\ proposals'[Len(proposals) + 1] = s
  BY <1>1, AppendProperties
<1>3. QED
  BY <1>1, <1>2 DEF Propose, toolVars, Versions

\* What went live stays vetted as the proposals and the verdicts grow.
LEMMA PromotedKept ==
  ASSUME IInv, UNCHANGED promoted, Len(proposals') \in Nat, Len(proposals) <= Len(proposals'),
         \A v \in 1 .. Len(proposals) : proposals'[v] = proposals[v],
         gated \subseteq gated', cutShort \subseteq cutShort'
  PROVE  PromotedOK'
<1>1. /\ promoted \in Seq([version : Versions, row : PromotionRow]) /\ Len(proposals) \in Nat
      /\ DOMAIN promoted = 1 .. Len(promoted)
      /\ \A i \in 1 .. Len(promoted) : promoted[i].version \in 1 .. Len(proposals)
  BY LenProperties, Basics DEF IInv, PromotedOK
<1>2. ASSUME NEW i \in 1 .. Len(promoted)
      PROVE  /\ promoted[i].version \in 1 .. Len(proposals')
             /\ promoted[i].version \in gated' \cup cutShort' /\ ~promoted[i].row.expired
             /\ proposals'[promoted[i].version] = promoted[i].row.stem
  <2>1. /\ promoted[i].version \in gated \cup cutShort /\ ~promoted[i].row.expired
        /\ proposals[promoted[i].version] = promoted[i].row.stem
    BY <1>1, <1>2 DEF IInv, PromotedOK, LiveWasGated
  <2>2. QED
    BY <1>1, <2>1
<1>3. LiveWasGated'
  BY <1>1, <1>2 DEF LiveWasGated
<1>4. QED
  BY <1>1, <1>2, <1>3 DEF PromotedOK

\* A step that stages nothing: some stems are emptied, the others keep their files, their
\* reason to have them and their verdict.
LEMMA StagingKept ==
  ASSUME IInv, NEW gone, UNCHANGED proposals,
         module' \in [Stems -> MaybeVersion], test' \in [Stems -> MaybeVersion],
         strays' \subseteq Stems, 0 \notin denied',
         \A s \in Stems : s \in gone => module'[s] = 0 /\ test'[s] = 0,
         \A s \in Stems : s \notin gone =>
           /\ module'[s] = module[s] /\ test'[s] = test[s]
           /\ module[s] # 0 => module[s] \notin denied'
           /\ (module[s] # 0 /\ module[s] = gating) => (gating' = gating \/ gating \in gated' \cup cutShort')
           /\ \/ gating # 0 /\ proposals[gating] = s
              \/ \E row \in rows : row.stem = s
              \/ s \in strays
              => \/ gating' # 0 /\ proposals[gating'] = s
                 \/ \E row \in rows' : row.stem = s
                 \/ s \in strays',
         gated \subseteq gated', cutShort \subseteq cutShort'
  PROVE  StagingOK'
<1>1. FilesAreOfTheirStem'
  BY DEF IInv, StagingOK, FilesAreOfTheirStem
<1>2. StagedIsVetted'
  BY DEF IInv, StagingOK, StagedIsVetted
<1>3. StagedFilesAreOwned'
  BY DEF IInv, StagingOK, StagedFilesAreOwned
<1>4. QED
  BY <1>1, <1>2, <1>3 DEF StagingOK

-------------------------------------------------------------------------------
(* One lemma per action *)

\* A version staged for the stem it was proposed for: gated next, or cut short.
LEMMA StagedAnew ==
  ASSUME IInv, NEW s \in Stems, Propose(s), strays' \subseteq Stems,
         NEW n, n = Len(proposals) + 1, NEW t \in MaybeVersion,
         module' = [module EXCEPT ![s] = n], test' = [test EXCEPT ![s] = t],
         gating' = n \/ (gating' = 0 /\ n \in cutShort' /\ s \in strays'),
         \A u \in Stems : u # s => (u \in strays => u \in strays'),
         cutShort \subseteq cutShort'
  PROVE  StagingOK'
<1>1. /\ Len(proposals) \in Nat /\ n = Len(proposals) + 1 /\ n \in Versions /\ n \in MaybeVersion /\ n # 0
      /\ Len(proposals') = n /\ proposals'[n] = s
      /\ \A v \in 1 .. Len(proposals) : proposals'[v] = proposals[v]
      /\ gating = 0 /\ gated' = gated /\ rows' = rows /\ denied' = denied
  BY Basics, ProposeKeeps DEF Versions, MaybeVersion
<1>2. /\ module \in [Stems -> MaybeVersion] /\ test \in [Stems -> MaybeVersion]
      /\ FilesAreOfTheirStem /\ StagedIsVetted /\ StagedFilesAreOwned
      /\ \A u \in Stems : module[u] \notin denied
  BY DEF IInv, StagingOK
<1>3. /\ module' \in [Stems -> MaybeVersion] /\ test' \in [Stems -> MaybeVersion]
      /\ module'[s] = n
      /\ \A u \in Stems : u # s => module'[u] = module[u] /\ test'[u] = test[u]
  BY <1>1, <1>2
<1>4. n \notin denied
  BY Basics, <1>1
<1>5. FilesAreOfTheirStem'
  <2> SUFFICES ASSUME NEW u \in Stems, module'[u] # 0
               PROVE  module'[u] \in 1 .. Len(proposals') /\ proposals'[module'[u]] = u
    BY DEF FilesAreOfTheirStem
  <2>1. CASE u = s
    BY <2>1, <1>1, <1>3
  <2>2. CASE u # s
    <3>1. module'[u] \in 1 .. Len(proposals) /\ proposals[module'[u]] = u
      BY <2>2, <1>2, <1>3 DEF FilesAreOfTheirStem
    <3>2. QED
      BY <3>1, <1>1
  <2>3. QED
    BY <2>1, <2>2
<1>6. StagedIsVetted'
  <2> SUFFICES ASSUME NEW u \in Stems, module'[u] # 0
               PROVE  module'[u] = gating' \/ module'[u] \in gated' \cup cutShort'
    BY DEF StagedIsVetted
  <2>1. CASE u = s
    BY <2>1, <1>3
  <2>2. CASE u # s
    BY <2>2, <1>1, <1>2, <1>3 DEF StagedIsVetted
  <2>3. QED
    BY <2>1, <2>2
<1>7. StagedFilesAreOwned'
  <2> SUFFICES ASSUME NEW u \in Stems, module'[u] # 0 \/ test'[u] # 0
               PROVE  \/ gating' # 0 /\ proposals'[gating'] = u
                      \/ \E row \in rows' : row.stem = u
                      \/ u \in strays'
    BY DEF StagedFilesAreOwned
  <2>1. CASE u = s
    BY <2>1, <1>1
  <2>2. CASE u # s
    BY <2>2, <1>1, <1>2, <1>3 DEF StagedFilesAreOwned
  <2>3. QED
    BY <2>1, <2>2
<1>8. \A u \in Stems : module'[u] \notin denied'
  BY <1>1, <1>2, <1>3, <1>4
<1>9. QED
  BY <1>3, <1>5, <1>6, <1>7, <1>8 DEF StagingOK

\* A new proposal leaves the offers as they are, whatever becomes of its gate.
LEMMA ProposalRecorded ==
  ASSUME IInv, NEW s \in Stems, Propose(s), gating' \in 0 .. Len(proposals) + 1,
         gating' = 0 \/ gating' = Len(proposals) + 1,
         cutShort \subseteq cutShort', cutShort' \subseteq Versions
  PROVE  ProposalsOK' /\ RowsOK' /\ ToolsOK' /\ PromotedOK'
<1>1. /\ proposals' \in Seq(Stems) /\ Len(proposals) \in Nat
      /\ Len(proposals') = Len(proposals) + 1 /\ Len(proposals') <= MaxProposals
      /\ \A v \in 1 .. Len(proposals) : proposals'[v] = proposals[v]
      /\ UNCHANGED <<rows, live, quarantined, strikes, loaded, gated, denied, promoted, failed,
                     reports, crashes>>
  BY Basics, ProposeKeeps
<1>2. ProposalsOK'
  BY <1>1, Basics DEF ProposalsOK
<1>3. RowsOK'
  <2>1. rows' \subseteq PromotionRow /\ \A row1, row2 \in rows' : row1.turn = row2.turn => row1 = row2
    BY <1>1 DEF IInv, RowsOK
  <2>2. ASSUME NEW row \in rows
        PROVE  /\ row.turn \in 1 .. Len(proposals') /\ row.turn # gating'
               /\ proposals'[row.turn] = row.stem
    <3>1. row.turn \in 1 .. Len(proposals) /\ proposals[row.turn] = row.stem
      BY <2>2 DEF IInv, RowsOK, RowsAreOfTheirTurn
    <3>2. QED
      BY <3>1, <1>1
  <2>3. RowsAreOfTheirTurn'
    BY <1>1, <2>2 DEF RowsAreOfTheirTurn
  <2>4. QED
    BY <2>1, <2>3 DEF RowsOK
<1>4. ToolsOK'
  BY <1>1 DEF IInv, ToolsOK
<1>5. PromotedOK'
  BY <1>1, PromotedKept
<1>6. QED
  BY <1>2, <1>3, <1>4, <1>5

LEMMA StageStep ==
  ASSUME IInv, NEW s \in Stems, Stage(s)
  PROVE  IInv'
<1>1. Propose(s) /\ gating' = Len(proposals) + 1 /\ StagePair(s, gating') /\ cutShort' = cutShort
  BY DEF Stage
<1>2. Len(proposals) \in Nat /\ Len(proposals) + 1 \in Versions /\ cutShort \subseteq Versions
  BY <1>1, Basics, ProposeKeeps
<1>4. StagingOK'
  <2> DEFINE n == Len(proposals) + 1
  <2>1. n \in MaybeVersion /\ n = Len(proposals) + 1 /\ gating' = n /\ cutShort \subseteq cutShort'
    BY <1>1, <1>2 DEF MaybeVersion, Versions
  <2>2. /\ module' = [module EXCEPT ![s] = n] /\ test' = [test EXCEPT ![s] = n]
        /\ strays' \subseteq Stems /\ \A u \in Stems : u # s => (u \in strays => u \in strays')
    BY <1>1 DEF StagePair, IInv, StagingOK
  <2> HIDE DEF n
  <2>3. QED
    BY <1>1, <2>1, <2>2, StagedAnew
<1>5. ProposalsOK' /\ RowsOK' /\ ToolsOK' /\ PromotedOK'
  BY <1>1, <1>2, ProposalRecorded
<1>6. QED
  BY <1>4, <1>5 DEF IInv

LEMMA StagingFailsStep ==
  ASSUME IInv, NEW s \in Stems, StagingFails(s)
  PROVE  IInv'
<1>1. Propose(s) /\ gating' = gating
  BY DEF StagingFails
<1>2. /\ Len(proposals) \in Nat /\ Len(proposals) + 1 \in Versions /\ gating = 0
      /\ cutShort \subseteq Versions
      /\ Len(proposals') = Len(proposals) + 1
      /\ \A v \in 1 .. Len(proposals) : proposals'[v] = proposals[v]
      /\ UNCHANGED <<rows, gated, denied>>
  BY <1>1, Basics, ProposeKeeps
<1>3. /\ module \in [Stems -> MaybeVersion] /\ test \in [Stems -> MaybeVersion]
      /\ strays \subseteq Stems
      /\ FilesAreOfTheirStem /\ StagedIsVetted /\ StagedFilesAreOwned
      /\ \A u \in Stems : module[u] \notin denied
  BY DEF IInv, StagingOK
<1>4. 0 \in MaybeVersion /\ 0 \notin denied
  BY Basics, SelfCodeAssumption DEF MaybeVersion, Versions
<1>5. CASE UNCHANGED <<stagingVars, cutShort>> \/ (Discard({s}) /\ UNCHANGED cutShort)
  <2>1. /\ module' \in [Stems -> MaybeVersion] /\ test' \in [Stems -> MaybeVersion]
        /\ strays' \subseteq Stems /\ cutShort' = cutShort
        /\ \A u \in Stems : \/ module'[u] = 0 /\ test'[u] = 0
                            \/ /\ module'[u] = module[u] /\ test'[u] = test[u]
                               /\ (u \in strays => u \in strays')
    BY <1>3, <1>4, <1>5 DEF stagingVars, Discard, Remove
  <2>2. FilesAreOfTheirStem'
    BY <1>2, <1>3, <2>1 DEF FilesAreOfTheirStem
  <2>3. StagedIsVetted'
    BY <1>1, <1>2, <1>3, <2>1 DEF StagedIsVetted
  <2>4. StagedFilesAreOwned'
    BY <1>1, <1>2, <1>3, <2>1 DEF StagedFilesAreOwned
  <2>5. \A u \in Stems : module'[u] \notin denied'
    BY <1>2, <1>3, <1>4, <2>1
  <2>6. StagingOK'
    BY <2>1, <2>2, <2>3, <2>4, <2>5 DEF StagingOK
  <2>7. QED
    BY <1>1, <1>2, <2>1, <2>6, ProposalRecorded DEF IInv
<1>6. CASE /\ StageHalf(s, Len(proposals) + 1)
           /\ cutShort' = cutShort \cup {Len(proposals) + 1}
  <2>1. /\ module' = [module EXCEPT ![s] = Len(proposals) + 1] /\ test' = [test EXCEPT ![s] = 0]
        /\ strays' = strays \cup {s}
        /\ cutShort' = cutShort \cup {Len(proposals) + 1}
    BY <1>6 DEF StageHalf
  <2>2. StagingOK'
    BY <1>1, <1>2, <1>3, <1>4, <2>1, StagedAnew
  <2>3. QED
    BY <1>1, <1>2, <2>1, <2>2, ProposalRecorded DEF IInv
<1>7. QED
  BY <1>5, <1>6 DEF StagingFails

LEMMA GateEnds ==
  ASSUME IInv, GatePasses \/ GateFails
  PROVE  IInv'
<1>1. /\ gating # 0 /\ gating' = 0 /\ gating \in 1 .. Len(proposals) /\ gating \in Versions
      /\ proposals[gating] \in Stems
      /\ UNCHANGED <<proposals, live, quarantined, strikes, loaded, cutShort, denied, promoted,
                     failed, reports, crashes>>
  BY Basics, SelfCodeAssumption DEF GatePasses, GateFails, toolVars, auditVars, Versions
<1>2. /\ module \in [Stems -> MaybeVersion] /\ test \in [Stems -> MaybeVersion]
      /\ strays \subseteq Stems /\ FilesAreOfTheirStem
      /\ \A u \in Stems : module[u] \notin denied
  BY DEF IInv, StagingOK
<1>3. /\ rows \subseteq PromotionRow
      /\ \A row1, row2 \in rows : row1.turn = row2.turn => row1 = row2
      /\ RowsAreOfTheirTurn
  BY DEF IInv, RowsOK
<1>4. 0 \in MaybeVersion /\ 0 \notin denied
  BY Basics, SelfCodeAssumption DEF MaybeVersion, Versions
<1>5. ProposalsOK' /\ ToolsOK' /\ PromotedOK' /\ gated \subseteq gated'
  <2>1. gated' \subseteq Versions /\ gated \subseteq gated'
    BY <1>1, Basics DEF GatePasses, GateFails, auditVars
  <2>2. PromotedOK'
    BY <1>1, <2>1, Basics, PromotedKept
  <2>3. ProposalsOK' /\ ToolsOK'
    BY <1>1, <2>1 DEF IInv, ProposalsOK, ToolsOK
  <2>4. QED
    BY <2>1, <2>2, <2>3
<1>6. CASE GatePasses
  <2>1. /\ rows' = rows \cup {Offer(gating)} /\ gated' = gated \cup {gating}
        /\ UNCHANGED <<module, test, strays>>
    BY <1>6 DEF GatePasses, stagingVars
  <2>2. /\ Offer(gating) \in PromotionRow /\ Offer(gating).turn = gating
        /\ Offer(gating).stem = proposals[gating]
    BY <1>1 DEF Offer, PromotionRow
  <2>3. RowsOK'
    <3>1. \A row \in rows : row.turn # gating
      BY <1>3 DEF RowsAreOfTheirTurn
    <3>2. \A row1, row2 \in rows' : row1.turn = row2.turn => row1 = row2
      BY <1>3, <2>1, <2>2, <3>1
    <3>3. RowsAreOfTheirTurn'
      BY <1>1, <1>3, <2>1, <2>2 DEF RowsAreOfTheirTurn
    <3>4. QED
      BY <1>3, <2>1, <2>2, <3>2, <3>3 DEF RowsOK
  <2>4. StagingOK'
    <3> DEFINE gone == {}
    <3>1. \A s \in Stems : s \notin gone
    OBVIOUS
    <3>2. ASSUME NEW s \in Stems, gating # 0 /\ proposals[gating] = s
          PROVE  \E row \in rows' : row.stem = s
      BY <2>1, <2>2, <3>2
    <3> HIDE DEF gone
    <3>3. QED
      BY <1>1, <1>2, <1>4, <1>5, <2>1, <3>1, <3>2, StagingKept
  <2>5. QED
    BY <1>5, <2>3, <2>4 DEF IInv
<1>7. CASE GateFails
  <2>1. /\ Discard({proposals[gating]}) /\ rows' = rows /\ gated' = gated
    BY <1>7 DEF GateFails, auditVars
  <2>2. RowsOK'
    BY <1>1, <1>3, <2>1 DEF RowsOK, RowsAreOfTheirTurn, Versions
  <2>3. StagingOK'
    <3> DEFINE gone == {proposals[gating]}
    <3>1. /\ module' = Remove(module, gone) /\ test' = Remove(test, gone)
          /\ strays' = strays \ gone
      BY <2>1 DEF Discard
    <3>2. ASSUME NEW s \in Stems, module[s] # 0, module[s] = gating
          PROVE  s \in gone
      BY <1>2, <3>2 DEF FilesAreOfTheirStem
    <3>3. ASSUME NEW s \in Stems, gating # 0 /\ proposals[gating] = s
          PROVE  s \in gone
      BY <3>3
    <3> HIDE DEF gone
    <3>4. /\ module' \in [Stems -> MaybeVersion] /\ test' \in [Stems -> MaybeVersion]
          /\ strays' \subseteq Stems
          /\ \A s \in Stems : s \in gone => module'[s] = 0 /\ test'[s] = 0
          /\ \A s \in Stems : s \notin gone =>
               module'[s] = module[s] /\ test'[s] = test[s] /\ (s \in strays => s \in strays')
      BY <1>2, <1>4, <3>1 DEF Remove
    <3>5. QED
      BY <1>1, <1>2, <1>4, <1>5, <2>1, <3>2, <3>3, <3>4, StagingKept
  <2>4. QED
    BY <1>5, <2>2, <2>3 DEF IInv
<1>8. QED
  BY <1>6, <1>7

\* Rows that go, one by one or together, take nothing from the others.
LEMMA RowsShrink ==
  ASSUME IInv, rows' \subseteq rows, UNCHANGED proposals, gating' \in {gating, 0}
  PROVE  RowsOK'
<1>1. /\ rows \subseteq PromotionRow
      /\ \A row1, row2 \in rows : row1.turn = row2.turn => row1 = row2
      /\ RowsAreOfTheirTurn
  BY DEF IInv, RowsOK
<1>2. \A row \in rows : row.turn # 0
  BY <1>1 DEF PromotionRow, Versions
<1>3. RowsAreOfTheirTurn'
  BY <1>1, <1>2 DEF RowsAreOfTheirTurn
<1>4. QED
  BY <1>1, <1>3 DEF RowsOK

\* Discarding the stem of a row that goes leaves every other file its owner.
LEMMA DiscardedWithRow ==
  ASSUME IInv, NEW row \in rows, rows' = rows \ {row}, UNCHANGED <<proposals, gating, gated, cutShort>>,
         Discard({row.stem}), denied' \in {denied, denied \cup {row.turn}}
  PROVE  StagingOK'
<1> DEFINE gone == {row.stem}
<1>1. /\ module \in [Stems -> MaybeVersion] /\ test \in [Stems -> MaybeVersion]
      /\ strays \subseteq Stems /\ FilesAreOfTheirStem
      /\ \A u \in Stems : module[u] \notin denied
  BY DEF IInv, StagingOK
<1>2. row.turn \in Versions /\ proposals[row.turn] = row.stem
  BY DEF IInv, RowsOK, RowsAreOfTheirTurn, PromotionRow
<1>3. 0 \in MaybeVersion /\ 0 \notin denied'
  BY <1>2, Basics, SelfCodeAssumption DEF MaybeVersion, Versions
<1>4. module' = Remove(module, gone) /\ test' = Remove(test, gone) /\ strays' = strays \ gone
  BY DEF Discard
<1>5. ASSUME NEW s \in Stems, s \notin gone
      PROVE  /\ module[s] # 0 => module[s] \notin denied'
             /\ (\E r \in rows : r.stem = s) => \E r \in rows' : r.stem = s
  <2>1. (module[s] # 0) => (module[s] # row.turn)
    BY <1>1, <1>2, <1>5 DEF FilesAreOfTheirStem
  <2>2. QED
    BY <1>1, <1>5, <2>1
<1> HIDE DEF gone
<1>6. /\ module' \in [Stems -> MaybeVersion] /\ test' \in [Stems -> MaybeVersion]
      /\ strays' \subseteq Stems
      /\ \A s \in Stems : s \in gone => module'[s] = 0 /\ test'[s] = 0
      /\ \A s \in Stems : s \notin gone =>
           module'[s] = module[s] /\ test'[s] = test[s] /\ (s \in strays => s \in strays')
  BY <1>1, <1>3, <1>4 DEF Remove
<1>7. QED
  BY <1>3, <1>5, <1>6, StagingKept

LEMMA TapStep ==
  ASSUME IInv, NEW row \in rows, Tap(row)
  PROVE  IInv'
<1>1. /\ TakePromotion(row) /\ gating = 0 /\ rows' = rows \ {row}
      /\ UNCHANGED <<proposals, gating, quarantined, strikes, loaded, gated, cutShort, failed,
                     reports, crashes>>
  BY DEF Tap, TapTooLate, TapApproves, TapApprovesInVain, TapDenies, TakePromotion
<1>2. /\ row.turn \in Versions /\ row.turn \in 1 .. Len(proposals) /\ row.stem \in Stems
      /\ proposals[row.turn] = row.stem /\ row \in PromotionRow
  BY DEF IInv, RowsOK, RowsAreOfTheirTurn, PromotionRow
<1>3. RowsOK'
  BY <1>1, RowsShrink
<1>4. /\ module \in [Stems -> MaybeVersion] /\ test \in [Stems -> MaybeVersion]
      /\ strays \subseteq Stems /\ FilesAreOfTheirStem /\ StagedIsVetted
      /\ \A u \in Stems : module[u] \notin denied
  BY DEF IInv, StagingOK
<1>5. CASE TapTooLate(row)
  <2>1. /\ strays' = strays \cup {row.stem}
        /\ UNCHANGED <<module, test, live, denied, promoted>>
    BY <1>5 DEF TapTooLate
  <2>2. StagingOK'
    <3> DEFINE gone == {}
    <3>1. \A s \in Stems : s \notin gone
      OBVIOUS
    <3>2. ASSUME NEW s \in Stems, \E r \in rows : r.stem = s
          PROVE  (\E r \in rows' : r.stem = s) \/ s \in strays'
      BY <1>1, <2>1, <3>2
    <3> HIDE DEF gone
    <3>3. 0 \notin denied
      BY Basics DEF Versions
    <3>4. QED
      BY <1>1, <1>2, <1>4, <2>1, <3>1, <3>2, <3>3, StagingKept
  <2>3. ProposalsOK' /\ ToolsOK'
    BY <1>1, <2>1 DEF IInv, ProposalsOK, ToolsOK
  <2>4. PromotedOK'
    BY <1>1, <2>1, Basics, PromotedKept
  <2>5. QED
    BY <1>3, <2>2, <2>3, <2>4 DEF IInv
<1>6. CASE TapApproves(row)
  <2>1. /\ ~row.expired /\ module[row.stem] # 0
        /\ live' = [live EXCEPT ![row.stem] = module[row.stem]]
        /\ promoted' = Append(promoted, [version |-> module[row.stem], row |-> row])
        /\ Discard({row.stem}) /\ denied' = denied
    BY <1>6 DEF TapApproves, StillValid
  <2>2. StagingOK'
    BY <1>1, <2>1, DiscardedWithRow
  <2>3. ProposalsOK' /\ ToolsOK'
    <3>1. live' \in [Stems -> MaybeVersion]
      BY <1>2, <1>4, <2>1 DEF IInv, ToolsOK
    <3>2. QED
      BY <1>1, <2>1, <3>1 DEF IInv, ProposalsOK, ToolsOK
  <2>4. PromotedOK'
    <3> DEFINE p == [version |-> module[row.stem], row |-> row]
    <3>1. /\ p \in [version : Versions, row : PromotionRow]
          /\ p.version \in 1 .. Len(proposals) /\ p.version \in gated \cup cutShort
          /\ ~p.row.expired /\ proposals[p.version] = p.row.stem
      <4>1. module[row.stem] \in MaybeVersion /\ module[row.stem] # 0
        BY <1>2, <1>4, <2>1
      <4>2. module[row.stem] \in Versions
        BY <4>1, SelfCodeAssumption DEF MaybeVersion, Versions
      <4>3. QED
        BY <1>1, <1>2, <1>4, <2>1, <4>2 DEF FilesAreOfTheirStem, StagedIsVetted
    <3>2. promoted' = Append(promoted, p)
      BY <2>1
    <3> HIDE DEF p
    <3>3. promoted \in Seq([version : Versions, row : PromotionRow]) /\ LiveWasGated
          /\ \A i \in 1 .. Len(promoted) : promoted[i].version \in 1 .. Len(proposals)
      BY DEF IInv, PromotedOK
    <3>4. /\ promoted' \in Seq([version : Versions, row : PromotionRow])
          /\ Len(promoted) \in Nat /\ Len(promoted') = Len(promoted) + 1
          /\ DOMAIN promoted = 1 .. Len(promoted) /\ DOMAIN promoted' = 1 .. Len(promoted')
          /\ \A i \in 1 .. Len(promoted) : promoted'[i] = promoted[i]
          /\ promoted'[Len(promoted) + 1] = p
      BY <3>1, <3>2, <3>3, AppendProperties, LenProperties
    <3>5. ASSUME NEW i \in 1 .. Len(promoted')
          PROVE  /\ promoted'[i].version \in 1 .. Len(proposals)
                 /\ promoted'[i].version \in gated \cup cutShort
                 /\ ~promoted'[i].row.expired
                 /\ proposals[promoted'[i].version] = promoted'[i].row.stem
      <4>1. CASE i = Len(promoted) + 1
        BY <3>1, <3>4, <4>1
      <4>2. CASE i # Len(promoted) + 1
        <5>1. i \in 1 .. Len(promoted) /\ promoted'[i] = promoted[i]
          BY <3>4, <3>5, <4>2
        <5>2. QED
          BY <3>3, <3>4, <5>1 DEF LiveWasGated
      <4>3. QED
        BY <4>1, <4>2
    <3>6. LiveWasGated'
      BY <1>1, <3>4, <3>5 DEF LiveWasGated
    <3>7. QED
      BY <1>1, <3>4, <3>5, <3>6 DEF PromotedOK
  <2>5. QED
    BY <1>3, <2>2, <2>3, <2>4 DEF IInv
<1>7. CASE TapApprovesInVain(row) \/ TapDenies(row)
  <2>1. /\ Discard({row.stem}) /\ UNCHANGED <<live, promoted>>
        /\ denied' \in {denied, denied \cup {row.turn}}
    BY <1>7 DEF TapApprovesInVain, TapDenies
  <2>2. StagingOK'
    BY <1>1, <2>1, DiscardedWithRow
  <2>3. ProposalsOK' /\ ToolsOK'
    BY <1>1, <1>2, <2>1 DEF IInv, ProposalsOK, ToolsOK
  <2>4. PromotedOK'
    BY <1>1, <2>1, Basics, PromotedKept
  <2>5. QED
    BY <1>3, <2>2, <2>3, <2>4 DEF IInv
<1>8. QED
  BY <1>5, <1>6, <1>7 DEF Tap

\* A step that touches neither the files nor the verdicts, and takes no stem its owner.
LEMMA FilesUntouched ==
  ASSUME IInv, UNCHANGED <<proposals, gating, module, test, strays, gated, cutShort, denied>>,
         \A s \in Stems : (\E row \in rows : row.stem = s) => \E row \in rows' : row.stem = s
  PROVE  StagingOK'
<1>1. StagedFilesAreOwned'
  BY DEF IInv, StagingOK, StagedFilesAreOwned
<1>2. QED
  BY <1>1 DEF IInv, StagingOK, FilesAreOfTheirStem, StagedIsVetted

LEMMA ExpireStep ==
  ASSUME IInv, NEW row \in rows, Expire(row)
  PROVE  IInv'
<1> DEFINE late == [row EXCEPT !.expired = TRUE]
<1>1. /\ row \in PromotionRow /\ rows' = (rows \ {row}) \cup {late}
      /\ UNCHANGED <<proposals, gating, module, test, strays, live, quarantined, strikes, loaded,
                     gated, cutShort, denied, promoted, failed, reports, crashes>>
  BY DEF Expire, stagingVars, toolVars, auditVars, IInv, RowsOK
<1>2. late \in PromotionRow /\ late.turn = row.turn /\ late.stem = row.stem
  BY <1>1 DEF PromotionRow
<1> HIDE DEF late
<1>3. RowsOK'
  <2>1. /\ rows \subseteq PromotionRow
        /\ \A row1, row2 \in rows : row1.turn = row2.turn => row1 = row2
        /\ RowsAreOfTheirTurn
    BY DEF IInv, RowsOK
  <2>2. rows' \subseteq PromotionRow
    BY <1>1, <1>2, <2>1
  <2>3. \A row1, row2 \in rows' : row1.turn = row2.turn => row1 = row2
    BY <1>1, <1>2, <2>1
  <2>4. RowsAreOfTheirTurn'
    BY <1>1, <1>2, <2>1 DEF RowsAreOfTheirTurn
  <2>5. QED
    BY <2>2, <2>3, <2>4 DEF RowsOK
<1>4. \A s \in Stems : (\E r \in rows : r.stem = s) => \E r \in rows' : r.stem = s
  BY <1>1, <1>2
<1>5. StagingOK'
  BY <1>1, <1>4, FilesUntouched
<1>6. ProposalsOK' /\ ToolsOK'
  BY <1>1 DEF IInv, ProposalsOK, ToolsOK
<1>7. PromotedOK'
  BY <1>1, Basics, PromotedKept
<1>8. QED
  BY <1>3, <1>5, <1>6, <1>7 DEF IInv

LEMMA PruneStep ==
  ASSUME IInv, Prune
  PROVE  IInv'
<1> DEFINE gone == ExpiredStems
<1>1. /\ rows' = rows \ Expired /\ Discard(gone)
      /\ UNCHANGED <<proposals, gating, live, quarantined, strikes, loaded, gated, cutShort, denied,
                     promoted, failed, reports, crashes>>
  BY DEF Prune, DiscardExpired, toolVars, auditVars
<1>2. /\ module \in [Stems -> MaybeVersion] /\ test \in [Stems -> MaybeVersion]
      /\ strays \subseteq Stems
      /\ \A u \in Stems : module[u] \notin denied
  BY DEF IInv, StagingOK
<1>3. 0 \in MaybeVersion /\ 0 \notin denied
  BY Basics, SelfCodeAssumption DEF MaybeVersion, Versions
<1>4. ASSUME NEW s \in Stems, s \notin gone, NEW r \in rows, r.stem = s
      PROVE  \E row \in rows' : row.stem = s
  BY <1>1, <1>4 DEF ExpiredStems
<1> HIDE DEF gone
<1>5. /\ module' \in [Stems -> MaybeVersion] /\ test' \in [Stems -> MaybeVersion]
      /\ strays' \subseteq Stems
      /\ \A s \in Stems : s \in gone => module'[s] = 0 /\ test'[s] = 0
      /\ \A s \in Stems : s \notin gone =>
           module'[s] = module[s] /\ test'[s] = test[s] /\ (s \in strays => s \in strays')
  BY <1>1, <1>2, <1>3 DEF Discard, Remove
<1>6. StagingOK'
  BY <1>1, <1>2, <1>3, <1>4, <1>5, StagingKept
<1>7. RowsOK'
  BY <1>1, RowsShrink
<1>8. ProposalsOK' /\ ToolsOK'
  BY <1>1 DEF IInv, ProposalsOK, ToolsOK
<1>9. PromotedOK'
  BY <1>1, Basics, PromotedKept
<1>10. QED
  BY <1>6, <1>7, <1>8, <1>9 DEF IInv

LEMMA ToolsStep ==
  ASSUME IInv, WorkerForks \/ \E s \in Stems : ToolFails(s)
  PROVE  IInv'
<1>1. UNCHANGED <<proposals, gating, module, test, strays, rows, gated, cutShort, denied, promoted,
                  crashes>>
  BY DEF WorkerForks, ToolFails, stagingVars, auditVars
<1>2. StagingOK' /\ RowsOK' /\ ProposalsOK' /\ PromotedOK'
  <2>1. StagingOK'
    BY <1>1, FilesUntouched
  <2>2. RowsOK'
    BY <1>1, RowsShrink
  <2>3. PromotedOK'
    BY <1>1, Basics, PromotedKept
  <2>4. QED
    BY <1>1, <2>1, <2>2, <2>3 DEF IInv, ProposalsOK
<1>3. CASE WorkerForks
  BY <1>1, <1>2, <1>3 DEF WorkerForks, auditVars, IInv, ToolsOK
<1>4. ASSUME NEW s \in Stems, ToolFails(s)
      PROVE  ToolsOK'
  <2>1. /\ live \in [Stems -> MaybeVersion] /\ quarantined \in [Stems -> MaybeVersion]
        /\ strikes \in [Stems -> Nat] /\ loaded \in [Stems -> MaybeVersion]
        /\ failed \in [Versions -> Nat]
        /\ reports \in 0 .. MaxReports /\ crashes \in 0 .. MaxCrashes
    BY DEF IInv, ToolsOK
  <2>2. /\ loaded' = loaded /\ crashes' = crashes
        /\ reports < MaxReports /\ reports' = reports + 1
        /\ strikes' = [strikes EXCEPT ![s] = @ + 1]
        /\ failed' = [failed EXCEPT ![loaded[s]] = @ + 1]
        /\ \/ /\ quarantined' = [quarantined EXCEPT ![s] = live[s]]
              /\ live' = [live EXCEPT ![s] = 0]
           \/ UNCHANGED <<live, quarantined>>
    BY <1>4 DEF ToolFails
  <2>3. 0 \in MaybeVersion /\ MaxReports \in Nat
    BY SelfCodeAssumption DEF MaybeVersion
  <2>4. live' \in [Stems -> MaybeVersion] /\ quarantined' \in [Stems -> MaybeVersion]
    BY <2>1, <2>2, <2>3
  <2>5. strikes' \in [Stems -> Nat] /\ failed' \in [Versions -> Nat]
    <3>1. strikes' \in [Stems -> Nat]
      BY <2>1, <2>2
    <3>2. loaded[s] \in Versions
      BY <1>4, <2>1, SelfCodeAssumption DEF ToolFails, MaybeVersion, Versions
    <3>3. failed' \in [Versions -> Nat]
      BY <2>1, <2>2, <3>2
    <3>4. QED
      BY <3>1, <3>3
  <2>6. reports' \in 0 .. MaxReports
    BY <2>1, <2>2, <2>3
  <2>7. QED
    BY <2>1, <2>2, <2>4, <2>5, <2>6 DEF ToolsOK
<1>5. QED
  BY <1>2, <1>3, <1>4 DEF IInv

LEMMA CrashStep ==
  ASSUME IInv, Crash
  PROVE  IInv'
<1>1. /\ crashes < MaxCrashes /\ crashes' = crashes + 1 /\ gating' = 0
      /\ cutShort' = cutShort \cup ({gating} \ {0})
      /\ UNCHANGED <<proposals, module, test, live, quarantined, strikes, loaded, gated, denied,
                     promoted, failed, reports>>
  BY DEF Crash, toolVars
<1>2. PICK taken \in {{}, Expired} \cup {{row} : row \in rows} :
        /\ rows' = rows \ taken
        /\ strays' = strays \cup {row.stem : row \in taken}
             \cup (IF gating = 0 THEN {} ELSE {proposals[gating]})
  BY DEF Crash
<1>3. /\ module \in [Stems -> MaybeVersion] /\ test \in [Stems -> MaybeVersion]
      /\ strays \subseteq Stems
      /\ \A u \in Stems : module[u] \notin denied
  BY DEF IInv, StagingOK
<1>4. /\ gating \in 0 .. Len(proposals) /\ Len(proposals) \in Nat /\ MaxProposals \in Nat
      /\ Len(proposals) <= MaxProposals /\ cutShort \subseteq Versions
      /\ gating # 0 => proposals[gating] \in Stems
  BY Basics, SelfCodeAssumption
<1>5. cutShort \subseteq cutShort' /\ cutShort' \subseteq Versions
  BY <1>1, <1>4 DEF Versions
<1>6. 0 \notin denied
  BY Basics DEF Versions
<1>7. strays' \subseteq Stems /\ strays \subseteq strays'
      /\ \A r \in taken : r \in rows /\ r.stem \in strays'
  <2>1. \A r \in rows : r.stem \in Stems
    BY DEF IInv, RowsOK, PromotionRow
  <2>2. taken \subseteq rows
    BY DEF Expired
  <2>3. QED
    BY <1>2, <1>3, <1>4, <2>1, <2>2
<1>8. StagingOK'
  <2> DEFINE gone == {}
  <2>1. \A s \in Stems : s \notin gone
    OBVIOUS
  <2>2. ASSUME NEW s \in Stems,
               \/ gating # 0 /\ proposals[gating] = s
               \/ \E row \in rows : row.stem = s
               \/ s \in strays
        PROVE  (\E row \in rows' : row.stem = s) \/ s \in strays'
    BY <1>2, <1>7, <2>2
  <2>3. ASSUME NEW s \in Stems, module[s] # 0, module[s] = gating
        PROVE  gating \in gated' \cup cutShort'
    BY <1>1, <2>3
  <2> HIDE DEF gone
  <2>4. QED
    BY <1>1, <1>3, <1>5, <1>6, <1>7, <2>1, <2>2, <2>3, StagingKept
<1>9. RowsOK'
  BY <1>1, <1>2, RowsShrink
<1>10. ProposalsOK' /\ ToolsOK'
  <2>1. MaxCrashes \in Nat
    BY SelfCodeAssumption
  <2>2. ProposalsOK'
    BY <1>1, <1>4, <1>5 DEF IInv, ProposalsOK
  <2>3. ToolsOK'
    BY <1>1, <2>1 DEF IInv, ToolsOK
  <2>4. QED
    BY <2>2, <2>3
<1>11. PromotedOK'
  BY <1>1, <1>4, <1>5, PromotedKept
<1>12. QED
  BY <1>8, <1>9, <1>10, <1>11 DEF IInv

-------------------------------------------------------------------------------
(* The inductive invariant *)

LEMMA InitInv ==
  ASSUME Init
  PROVE  IInv
<1>1. 0 \in MaybeVersion /\ 0 \notin Versions /\ MaxProposals \in Nat /\ MaxReports \in Nat
      /\ MaxCrashes \in Nat
  BY SelfCodeAssumption DEF MaybeVersion, Versions
<1>2. /\ proposals = << >> /\ gating = 0
      /\ module = [s \in Stems |-> 0] /\ test = [s \in Stems |-> 0] /\ rows = {}
      /\ live = [s \in Stems |-> 0] /\ quarantined = [s \in Stems |-> 0]
      /\ loaded = [s \in Stems |-> 0] /\ strikes = [s \in Stems |-> 0]
      /\ gated = {} /\ cutShort = {} /\ strays = {} /\ denied = {}
      /\ promoted = << >> /\ failed = [v \in Versions |-> 0]
      /\ reports = 0 /\ crashes = 0
  BY DEF Init
<1>3. proposals \in Seq(Stems) /\ Len(proposals) = 0
      /\ promoted \in Seq([version : Versions, row : PromotionRow]) /\ Len(promoted) = 0
      /\ DOMAIN promoted = 1 .. Len(promoted)
  BY <1>2, EmptySeq, LenProperties
<1>4. ProposalsOK /\ RowsOK
  BY <1>1, <1>2, <1>3 DEF ProposalsOK, RowsOK, RowsAreOfTheirTurn
<1>5. StagingOK
  BY <1>1, <1>2 DEF StagingOK, FilesAreOfTheirStem, StagedIsVetted, StagedFilesAreOwned
<1>6. ToolsOK
  BY <1>1, <1>2 DEF ToolsOK
<1>7. PromotedOK
  BY <1>3 DEF PromotedOK, LiveWasGated
<1>8. QED
  BY <1>4, <1>5, <1>6, <1>7 DEF IInv

LEMMA NextKeepsInv ==
  ASSUME IInv, [Next]_vars
  PROVE  IInv'
<1>1. CASE UNCHANGED vars
  BY <1>1 DEF vars, stagingVars, toolVars, auditVars, IInv, ProposalsOK, StagingOK, RowsOK, ToolsOK,
     PromotedOK, FilesAreOfTheirStem, StagedIsVetted, StagedFilesAreOwned, RowsAreOfTheirTurn,
     LiveWasGated
<1>2. ASSUME NEW s \in Stems, Stage(s)
      PROVE  IInv'
  BY <1>2, StageStep
<1>3. ASSUME NEW s \in Stems, StagingFails(s)
      PROVE  IInv'
  BY <1>3, StagingFailsStep
<1>4. ASSUME NEW row \in rows, Tap(row) \/ Expire(row)
      PROVE  IInv'
  BY <1>4, TapStep, ExpireStep
<1>5. CASE GatePasses \/ GateFails
  BY <1>5, GateEnds
<1>6. CASE Prune \/ Crash
  BY <1>6, PruneStep, CrashStep
<1>7. CASE WorkerForks \/ \E s \in Stems : ToolFails(s)
  BY <1>7, ToolsStep
<1>8. QED
  BY <1>1, <1>2, <1>3, <1>4, <1>5, <1>6, <1>7 DEF Next

LEMMA InvariantHolds == Spec => []IInv
<1>1. Init => IInv
  BY InitInv
<1>2. IInv /\ [Next]_vars => IInv'
  BY NextKeepsInv
<1>3. QED
  BY <1>1, <1>2, PTL DEF Spec

-------------------------------------------------------------------------------
(* The results *)

\* The types: of the workspace of selfcode.py, its tables and its history variables.
THEOREM TypeCorrect == Spec => []TypeOK
<1>1. IInv => TypeOK
  <2> SUFFICES ASSUME IInv PROVE TypeOK
    OBVIOUS
  <2>1. gating \in MaybeVersion
    BY Basics, SelfCodeAssumption DEF MaybeVersion
  <2>2. QED
    BY <2>1 DEF IInv, ProposalsOK, StagingOK, RowsOK, ToolsOK, PromotedOK, TypeOK
<1>2. QED
  BY <1>1, InvariantHolds, PTL

\* However staging, gates, taps, prunes and deaths of the core interleave, a module that
\* promote() moves live passed its gate or had its staging or gate cut short, and moves by a
\* tap in time on an offer of its own name.
THEOREM VettedLive == Spec => []LiveWasGated
<1>1. IInv => LiveWasGated
  BY DEF IInv, PromotedOK
<1>2. QED
  BY <1>1, InvariantHolds, PTL

\* Nothing litters tools-staging but what is being gated, awaits the owner or is accounted
\* for by a crash, a half-written pair or a late tap.
THEOREM FilesOwned == Spec => []StagedFilesAreOwned
<1>1. IInv => StagedFilesAreOwned
  BY DEF IInv, StagingOK
<1>2. QED
  BY <1>1, InvariantHolds, PTL

\* A version whose offer the owner denied never enters the live directory.
THEOREM DeniedSafe == Spec => DeniedStaysOut
<1>1. ASSUME IInv, [Next]_vars
      PROVE  [\A s \in Stems : live'[s] # live[s] => live'[s] \notin denied]_vars
  <2>1. /\ live \in [Stems -> MaybeVersion] /\ 0 \notin denied
        /\ \A s \in Stems : module[s] \notin denied
    BY <1>1, Basics DEF IInv, ToolsOK, StagingOK, Versions
  <2>2. SUFFICES ASSUME Next, NEW s \in Stems, live'[s] # live[s]
                 PROVE  live'[s] \notin denied
    BY <1>1
  <2>3. (\E t \in Stems : ToolFails(t)) \/ (\E row \in rows : TapApproves(row))
    BY <2>2 DEF Next, Stage, StagingFails, Propose, GatePasses, GateFails, Tap, TapTooLate,
       TapApprovesInVain, TapDenies, Expire, Prune, WorkerForks, Crash, toolVars
  <2>4. ASSUME NEW t \in Stems, ToolFails(t)
        PROVE  live'[s] \notin denied
    BY <2>1, <2>2, <2>4 DEF ToolFails
  <2>5. ASSUME NEW row \in rows, TapApproves(row)
        PROVE  live'[s] \notin denied
    <3>1. row.stem \in Stems
      BY <1>1, <2>5 DEF IInv, RowsOK, PromotionRow
    <3>2. QED
      BY <2>1, <2>2, <2>5, <3>1 DEF TapApproves
  <2>6. QED
    BY <2>3, <2>4, <2>5
<1>2. QED
  BY <1>1, InvariantHolds, PTL DEF Spec, DeniedStaysOut

-------------------------------------------------------------------------------
(***************************************************************************)
(* Strikes and quarantine.  The strikes of a stem are the failures of the  *)
(* versions proposed under it: a report is of the stem the worker loaded   *)
(* the tool from, and a tool is live under the stem it was proposed for.   *)
(***************************************************************************)

\* What is live, or was when the worker was forked, was proposed under that stem.
ToolsAreOfTheirStem ==
  \A s \in Stems :
    /\ live[s] # 0 => live[s] \in 1 .. Len(proposals) /\ proposals[live[s]] = s
    /\ loaded[s] # 0 => loaded[s] \in 1 .. Len(proposals) /\ proposals[loaded[s]] = s

\* Only what was proposed has failed, and no version more often than was reported.
FailuresAreReported ==
  \A v \in Versions : failed[v] <= reports /\ (failed[v] # 0 => v \in 1 .. Len(proposals))

StrikesAreFailures == \A s \in Stems : strikes[s] = FailuresOf(s)

QuarantineHasStrikes == \A s \in Stems : quarantined[s] # 0 => strikes[s] >= Threshold

HealthInv == ToolsAreOfTheirStem /\ FailuresAreReported /\ StrikesAreFailures /\ QuarantineHasStrikes

LEMMA FailuresFinite ==
  ASSUME IInv, NEW s \in Stems
  PROVE  IsFiniteSet(Failures(s)) /\ FailuresOf(s) \in Nat
<1>1. /\ DOMAIN proposals = 1 .. Len(proposals) /\ Len(proposals) \in Int
      /\ 1 \in Int /\ MaxReports \in Int
  BY Basics, SelfCodeAssumption
<1>2. IsFiniteSet(1 .. Len(proposals)) /\ IsFiniteSet(1 .. MaxReports)
  BY <1>1, FS_Interval
<1>3. IsFiniteSet((1 .. Len(proposals)) \X (1 .. MaxReports))
  BY <1>2, FS_Product
<1>4. Failures(s) \in SUBSET ((1 .. Len(proposals)) \X (1 .. MaxReports))
  BY <1>1 DEF Failures
<1>5. IsFiniteSet(Failures(s))
  BY <1>3, <1>4, FS_Subset
<1>6. QED
  BY <1>5, FS_CardinalityType DEF FailuresOf

\* A new proposal has not failed yet: no count changes.
LEMMA FailuresStay ==
  ASSUME IInv, FailuresAreReported, UNCHANGED failed, NEW s \in Stems,
         DOMAIN proposals' = 1 .. Len(proposals'), Len(proposals') \in Nat,
         Len(proposals) <= Len(proposals'), Len(proposals') <= MaxProposals,
         \A v \in 1 .. Len(proposals) : proposals'[v] = proposals[v]
  PROVE  FailuresOf(s)' = FailuresOf(s)
<1>1. /\ DOMAIN proposals = 1 .. Len(proposals) /\ Len(proposals) \in Nat /\ MaxProposals \in Nat
      /\ failed \in [Versions -> Nat]
  BY Basics, SelfCodeAssumption DEF IInv, ToolsOK
<1>2. ASSUME NEW v \in 1 .. Len(proposals'), NEW n \in 1 .. MaxReports, n <= failed[v]
      PROVE  v \in 1 .. Len(proposals)
  <2>1. v \in Versions /\ failed[v] \in Nat
    BY <1>1 DEF Versions
  <2>2. failed[v] # 0
    BY <1>2, <2>1, SelfCodeAssumption
  <2>3. QED
    BY <2>1, <2>2 DEF FailuresAreReported
<1>3. Failures(s)' = Failures(s)
  BY <1>1, <1>2 DEF Failures
<1>4. QED
  BY <1>3 DEF FailuresOf

\* A step that reports nothing.
LEMMA HealthQuiet ==
  ASSUME IInv, HealthInv, ToolsAreOfTheirStem', UNCHANGED <<failed, reports, strikes, quarantined>>,
         proposals' \in Seq(Stems),
         Len(proposals) <= Len(proposals'), Len(proposals') <= MaxProposals,
         \A v \in 1 .. Len(proposals) : proposals'[v] = proposals[v]
  PROVE  HealthInv'
<1>1. /\ DOMAIN proposals' = 1 .. Len(proposals') /\ Len(proposals') \in Nat
      /\ Len(proposals) \in Nat
  BY LenProperties, Basics
<1>2. FailuresAreReported'
  <2> SUFFICES ASSUME NEW v \in Versions
               PROVE  failed[v] <= reports /\ (failed[v] # 0 => v \in 1 .. Len(proposals'))
    BY DEF FailuresAreReported
  <2>1. failed[v] <= reports /\ (failed[v] # 0 => v \in 1 .. Len(proposals))
    BY DEF HealthInv, FailuresAreReported
  <2>2. QED
    BY <1>1, <2>1
<1>3. \A s \in Stems : FailuresOf(s)' = FailuresOf(s)
  BY <1>1, FailuresStay DEF HealthInv
<1>4. StrikesAreFailures'
  BY <1>3 DEF HealthInv, StrikesAreFailures
<1>5. QED
  BY <1>2, <1>4 DEF HealthInv, QuarantineHasStrikes

\* A report adds one failure to the stem the tool is of, and to no other.
LEMMA FailureCounts ==
  ASSUME IInv, HealthInv, NEW s \in Stems, ToolFails(s)
  PROVE  /\ FailuresAreReported' /\ FailuresOf(s)' = FailuresOf(s) + 1
         /\ \A u \in Stems \ {s} : FailuresOf(u)' = FailuresOf(u)
<1> DEFINE v == loaded[s]
           n == failed[v] + 1
<1>1. /\ v \in 1 .. Len(proposals) /\ proposals[v] = s /\ v \in Versions
      /\ DOMAIN proposals = 1 .. Len(proposals)
  <2>1. v # 0
    BY DEF ToolFails
  <2>2. v \in 1 .. Len(proposals) /\ proposals[v] = s
    BY <2>1 DEF HealthInv, ToolsAreOfTheirStem
  <2>3. QED
    BY <2>2, Basics, SelfCodeAssumption DEF Versions
<1>2. /\ failed \in [Versions -> Nat] /\ reports \in Nat /\ MaxReports \in Nat
      /\ reports < MaxReports /\ reports' = reports + 1 /\ proposals' = proposals
      /\ failed' = [failed EXCEPT ![v] = @ + 1]
  BY SelfCodeAssumption DEF ToolFails, IInv, ToolsOK
<1> HIDE DEF v
<1>3. /\ failed[v] \in Nat /\ failed[v] <= reports /\ n \in 1 .. MaxReports
      /\ failed'[v] = n /\ \A w \in Versions \ {v} : failed'[w] = failed[w]
  BY <1>1, <1>2 DEF HealthInv, FailuresAreReported
<1>4. FailuresAreReported'
  <2> SUFFICES ASSUME NEW w \in Versions
               PROVE  failed'[w] <= reports' /\ (failed'[w] # 0 => w \in 1 .. Len(proposals))
    BY <1>2 DEF FailuresAreReported
  <2>1. CASE w = v
    BY <1>1, <1>2, <1>3, <2>1
  <2>2. CASE w # v
    <3>1. /\ failed'[w] = failed[w] /\ failed[w] \in Nat
          /\ failed[w] <= reports /\ (failed[w] # 0 => w \in 1 .. Len(proposals))
      BY <1>2, <1>3, <2>2 DEF HealthInv, FailuresAreReported
    <3>2. QED
      BY <1>2, <3>1
  <2>3. QED
    BY <2>1, <2>2
<1>5. \A w \in 1 .. Len(proposals) : w \in Versions /\ failed[w] \in Nat
  BY <1>2, Basics, SelfCodeAssumption DEF Versions
<1>6. ASSUME NEW w \in 1 .. Len(proposals), NEW k \in 1 .. MaxReports
      PROVE  k <= failed'[w] <=> k <= failed[w] \/ (w = v /\ k = n)
  <2>1. CASE w = v
    BY <1>2, <1>3, <2>1
  <2>2. CASE w # v
    BY <1>3, <1>5, <2>2
  <2>3. QED
    BY <2>1, <2>2
<1>7. <<v, n>> \notin Failures(s)
  BY <1>3 DEF Failures
<1> HIDE DEF n
<1>8. ASSUME NEW u \in Stems \ {s}
      PROVE  FailuresOf(u)' = FailuresOf(u)
  <2>1. Failures(u)' = Failures(u)
    BY <1>1, <1>2, <1>6, <1>8 DEF Failures
  <2>2. QED
    BY <2>1 DEF FailuresOf
<1>9. Failures(s)' = Failures(s) \cup {<<v, n>>}
  BY <1>1, <1>2, <1>3, <1>6 DEF Failures
<1>10. FailuresOf(s)' = FailuresOf(s) + 1
  BY <1>7, <1>9, FailuresFinite, FS_AddElement DEF FailuresOf
<1>11. QED
  BY <1>4, <1>8, <1>10

LEMMA NextHealth ==
  ASSUME IInv, HealthInv, [Next]_vars
  PROVE  HealthInv'
<1>1. /\ proposals \in Seq(Stems) /\ Len(proposals) \in Nat /\ Len(proposals) <= MaxProposals
      /\ live \in [Stems -> MaybeVersion] /\ loaded \in [Stems -> MaybeVersion]
      /\ strikes \in [Stems -> Nat] /\ quarantined \in [Stems -> MaybeVersion]
  BY Basics DEF IInv, ToolsOK
<1>2. ASSUME NEW s \in Stems, Stage(s) \/ StagingFails(s)
      PROVE  HealthInv'
  <2>1. Propose(s)
    BY <1>2 DEF Stage, StagingFails
  <2>2. /\ proposals' \in Seq(Stems) /\ Len(proposals') = Len(proposals) + 1
        /\ Len(proposals') <= MaxProposals
        /\ \A v \in 1 .. Len(proposals) : proposals'[v] = proposals[v]
        /\ UNCHANGED <<live, loaded, failed, reports, strikes, quarantined>>
    BY <2>1, ProposeKeeps
  <2>3. ToolsAreOfTheirStem'
    <3> SUFFICES ASSUME NEW u \in Stems
                 PROVE  /\ live[u] # 0 => live[u] \in 1 .. Len(proposals') /\ proposals'[live[u]] = u
                        /\ loaded[u] # 0 => loaded[u] \in 1 .. Len(proposals') /\ proposals'[loaded[u]] = u
      BY <2>2 DEF ToolsAreOfTheirStem
    <3>1. /\ live[u] # 0 => live[u] \in 1 .. Len(proposals) /\ proposals[live[u]] = u
          /\ loaded[u] # 0 => loaded[u] \in 1 .. Len(proposals) /\ proposals[loaded[u]] = u
      BY DEF HealthInv, ToolsAreOfTheirStem
    <3>2. QED
      BY <1>1, <2>2, <3>1
  <2>4. QED
    BY <1>1, <2>2, <2>3, HealthQuiet
<1>3. ASSUME NEW row \in rows, TapApproves(row)
      PROVE  HealthInv'
  <2>1. /\ row.stem \in Stems /\ module[row.stem] # 0
        /\ live' = [live EXCEPT ![row.stem] = module[row.stem]]
        /\ UNCHANGED <<proposals, loaded, failed, reports, strikes, quarantined>>
    BY <1>3 DEF TapApproves, TakePromotion, IInv, RowsOK, PromotionRow
  <2>2. module[row.stem] \in 1 .. Len(proposals) /\ proposals[module[row.stem]] = row.stem
    BY <2>1 DEF IInv, StagingOK, FilesAreOfTheirStem
  <2>3. ToolsAreOfTheirStem'
    BY <1>1, <2>1, <2>2 DEF HealthInv, ToolsAreOfTheirStem
  <2>4. QED
    BY <1>1, <2>1, <2>3, HealthQuiet
<1>4. CASE WorkerForks
  <2>1. loaded' = live /\ UNCHANGED <<proposals, live, failed, reports, strikes, quarantined>>
    BY <1>4 DEF WorkerForks, auditVars
  <2>2. ToolsAreOfTheirStem'
    BY <2>1 DEF HealthInv, ToolsAreOfTheirStem
  <2>3. QED
    BY <1>1, <2>1, <2>2, HealthQuiet
<1>5. ASSUME NEW s \in Stems, ToolFails(s)
      PROVE  HealthInv'
  <2>1. /\ strikes' = [strikes EXCEPT ![s] = @ + 1] /\ UNCHANGED <<proposals, loaded>>
        /\ \/ /\ strikes[s] + 1 >= Threshold
              /\ quarantined' = [quarantined EXCEPT ![s] = live[s]]
              /\ live' = [live EXCEPT ![s] = 0]
           \/ UNCHANGED <<live, quarantined>>
    BY <1>5 DEF ToolFails, IsRepeatedlyBad
  <2>2. ToolsAreOfTheirStem'
    BY <1>1, <2>1 DEF HealthInv, ToolsAreOfTheirStem
  <2>3. /\ strikes'[s] = strikes[s] + 1 /\ strikes[s] \in Nat
        /\ \A u \in Stems \ {s} : strikes'[u] = strikes[u]
    BY <1>1, <2>1
  <2>4. /\ FailuresAreReported' /\ FailuresOf(s)' = FailuresOf(s) + 1
        /\ \A u \in Stems \ {s} : FailuresOf(u)' = FailuresOf(u)
    BY <1>5, FailureCounts
  <2>5. StrikesAreFailures'
    BY <2>3, <2>4 DEF HealthInv, StrikesAreFailures
  <2>6. QuarantineHasStrikes'
    <3> SUFFICES ASSUME NEW u \in Stems, quarantined'[u] # 0
                 PROVE  strikes'[u] >= Threshold
      BY DEF QuarantineHasStrikes
    <3>1. CASE quarantined'[u] = quarantined[u]
      <4>1. strikes[u] >= Threshold /\ strikes[u] \in Nat /\ Threshold \in Nat
        BY <1>1, <3>1, SelfCodeAssumption DEF HealthInv, QuarantineHasStrikes
      <4>2. QED
        BY <2>3, <4>1
    <3>2. CASE quarantined'[u] # quarantined[u]
      BY <1>1, <2>1, <2>3, <3>2
    <3>3. QED
      BY <3>1, <3>2
  <2>7. QED
    BY <2>2, <2>4, <2>5, <2>6 DEF HealthInv
<1>6. CASE \/ GatePasses \/ GateFails \/ Prune \/ Crash \/ UNCHANGED vars
           \/ \E row \in rows : \/ TapTooLate(row) \/ TapApprovesInVain(row) \/ TapDenies(row)
                                \/ Expire(row)
  <2>1. UNCHANGED <<proposals, live, loaded, failed, reports, strikes, quarantined>>
    BY <1>6 DEF GatePasses, GateFails, Prune, Crash, Expire, TapTooLate, TapApprovesInVain, TapDenies,
       TakePromotion, vars, toolVars, auditVars
  <2>2. ToolsAreOfTheirStem'
    BY <2>1 DEF HealthInv, ToolsAreOfTheirStem
  <2>3. QED
    BY <1>1, <2>1, <2>2, HealthQuiet
<1>7. QED
  BY <1>2, <1>3, <1>4, <1>5, <1>6 DEF Next, Tap

\* However proposals, promotions, forks, late reports and deaths interleave, what
\* _handle_tool_failures moved to quarantine had failed Threshold times under its name.
THEOREM QuarantineSafe == Spec => []QuarantineIsEarned
<1>1. Init => HealthInv
  <2> SUFFICES ASSUME Init PROVE HealthInv
    OBVIOUS
  <2>1. /\ proposals = <<>> /\ live = [s \in Stems |-> 0] /\ loaded = [s \in Stems |-> 0]
        /\ strikes = [s \in Stems |-> 0] /\ quarantined = [s \in Stems |-> 0]
        /\ failed = [v \in Versions |-> 0] /\ reports = 0
    BY DEF Init
  <2>2. \A s : Failures(s) = {}
    BY <2>1 DEF Failures
  <2>3. \A s : FailuresOf(s) = 0
    BY <2>2, FS_EmptySet DEF FailuresOf
  <2>4. QED
    BY <2>1, <2>3
    DEF HealthInv, ToolsAreOfTheirStem, FailuresAreReported, StrikesAreFailures, QuarantineHasStrikes
<1>2. IInv /\ HealthInv /\ [Next]_vars => HealthInv'
  BY NextHealth
<1>3. HealthInv => QuarantineIsEarned
  BY DEF HealthInv, StrikesAreFailures, QuarantineHasStrikes, QuarantineIsEarned
<1>4. QED
  BY <1>1, <1>2, <1>3, InvariantHolds, PTL DEF Spec
===============================================================================
