---------------------------- MODULE ExchangeProofs ----------------------------
(***************************************************************************)
(* What holds of Exchange for any number of workers, tool rounds and       *)
(* providers, and any set of replies, and of Timeouts for any knob.        *)
(***************************************************************************)
EXTENDS Exchange, Timeouts, SequenceTheorems, TLAPS

Elems(q) == {q[i] : i \in 1 .. Len(q)}

-------------------------------------------------------------------------------
(* Sequences and records *)

\* What Append does to a sequence and to its elements.
LEMMA AppendElems ==
  ASSUME NEW S, NEW q \in Seq(S), NEW e \in S
  PROVE  /\ Append(q, e) \in Seq(S)
         /\ Elems(Append(q, e)) = Elems(q) \cup {e}
         /\ Len(q) \in Nat /\ Len(Append(q, e)) = Len(q) + 1
         /\ \A i \in 1 .. Len(q) : Append(q, e)[i] = q[i]
         /\ Append(q, e)[Len(q) + 1] = e
<1>1. /\ Append(q, e) \in Seq(S) /\ Len(Append(q, e)) = Len(q) + 1 /\ Len(q) \in Nat
      /\ \A i \in 1 .. Len(q) : Append(q, e)[i] = q[i]
      /\ Append(q, e)[Len(q) + 1] = e
  BY AppendProperties, LenProperties
<1>2. QED
  BY <1>1 DEF Elems

\* What is left of a sequence cut short.
LEMMA PrefixElems ==
  ASSUME NEW S, NEW q \in Seq(S), NEW n \in 0 .. Len(q)
  PROVE  /\ SubSeq(q, 1, n) \in Seq(S) /\ Len(SubSeq(q, 1, n)) = n /\ Len(q) \in Nat
         /\ \A i \in 1 .. n : SubSeq(q, 1, n)[i] = q[i]
         /\ Elems(SubSeq(q, 1, n)) \subseteq Elems(q)
<1>1. Len(q) \in Nat /\ n \in Nat /\ n <= Len(q)
  BY LenProperties
<1>2. /\ SubSeq(q, 1, n) \in Seq(S) /\ Len(SubSeq(q, 1, n)) = n
      /\ \A i \in 1 .. n : SubSeq(q, 1, n)[i] = q[i]
  <2>1. \A i \in 1 .. n : q[i] \in S
    BY <1>1, ElementOfSeq
  <2>2. QED
    BY <1>1, <2>1, SubSeqProperties
<1>3. QED
  BY <1>1, <1>2 DEF Elems

\* What Head and Tail make of a nonempty sequence.
LEMMA TailElems ==
  ASSUME NEW S, NEW q \in Seq(S), q # << >>
  PROVE  /\ Head(q) \in S /\ Head(q) = q[1] /\ Tail(q) \in Seq(S)
         /\ Elems(Tail(q)) \subseteq Elems(q) /\ Head(q) \in Elems(q)
         /\ Len(q) \in Nat \ {0} /\ Len(Tail(q)) = Len(q) - 1
         /\ \A i \in 1 .. Len(q) - 1 : Tail(q)[i] = q[i + 1]
<1>1. /\ Head(q) \in S /\ Head(q) = q[1] /\ Tail(q) \in Seq(S)
      /\ Len(q) \in Nat \ {0} /\ Len(Tail(q)) = Len(q) - 1
      /\ \A i \in 1 .. Len(q) - 1 : Tail(q)[i] = q[i + 1]
  BY HeadTailProperties, EmptySeq, LenProperties
<1>2. Elems(Tail(q)) \subseteq Elems(q)
  BY <1>1 DEF Elems
<1>3. QED
  BY <1>1, <1>2 DEF Elems

LEMMA EmptyElems == Elems(<< >>) = {}
  BY EmptySeq DEF Elems

\* The elements of a typed sequence have its type.
LEMMA ElemsTyped ==
  ASSUME NEW S, NEW q \in Seq(S)
  PROVE  Elems(q) \subseteq S
  BY ElementOfSeq DEF Elems

\* A sequence of one element.
LEMMA OneElem ==
  ASSUME NEW S, NEW e \in S
  PROVE  << e >> \in Seq(S) /\ Elems(<< e >>) = {e} /\ Len(<< e >>) = 1 /\ << e >>[1] = e
  BY DEF Elems

\* The calls up to a RISKY one are those before it and the call itself.
LEMMA KeptOneByOne ==
  ASSUME NEW S, NEW s \in Seq(S), NEW c \in Seq(S), NEW i \in 1 .. Len(c)
  PROVE  /\ s \o SubSeq(c, 1, i) \in Seq(S) /\ s \o SubSeq(c, 1, i - 1) \in Seq(S)
         /\ s \o SubSeq(c, 1, i) = Append(s \o SubSeq(c, 1, i - 1), c[i])
<1> DEFINE a == SubSeq(c, 1, i)
           b == SubSeq(c, 1, i - 1)
<1>1. i \in Nat /\ 1 <= i /\ i <= Len(c) /\ Len(c) \in Nat /\ Len(s) \in Nat
  BY LenProperties
<1>2. /\ a \in Seq(S) /\ Len(a) = i /\ \A k \in 1 .. i : a[k] = c[k]
      /\ b \in Seq(S) /\ Len(b) = i - 1 /\ \A k \in 1 .. i - 1 : b[k] = c[k]
  <2>1. /\ a \in Seq(S) /\ b \in Seq(S)
    <3>1. \A k \in 1 .. i : c[k] \in S
      BY <1>1, ElementOfSeq
    <3>2. \A k \in 1 .. i - 1 : c[k] \in S
      BY <1>1, ElementOfSeq
    <3>3. QED
      BY <1>1, <3>1, <3>2, SubSeqProperties
  <2>2. QED
    BY <1>1, <2>1, SubSeqProperties
<1>3. c[i] \in S
  BY <1>1, ElementOfSeq
<1> HIDE DEF a, b
<1>4. /\ s \o a \in Seq(S) /\ Len(s \o a) = Len(s) + i
      /\ \A k \in 1 .. Len(s) + i : (s \o a)[k] = IF k <= Len(s) THEN s[k] ELSE c[k - Len(s)]
  <2>1. /\ s \o a \in Seq(S) /\ Len(s \o a) = Len(s) + Len(a)
        /\ \A k \in 1 .. Len(s) + Len(a) : (s \o a)[k] = IF k <= Len(s) THEN s[k] ELSE a[k - Len(s)]
    BY <1>2, ConcatProperties
  <2>2. QED
    BY <1>1, <1>2, <2>1
<1>5. /\ s \o b \in Seq(S) /\ Len(s \o b) = Len(s) + i - 1
      /\ \A k \in 1 .. Len(s) + i - 1 : (s \o b)[k] = IF k <= Len(s) THEN s[k] ELSE c[k - Len(s)]
  <2>1. /\ s \o b \in Seq(S) /\ Len(s \o b) = Len(s) + Len(b)
        /\ \A k \in 1 .. Len(s) + Len(b) : (s \o b)[k] = IF k <= Len(s) THEN s[k] ELSE b[k - Len(s)]
    BY <1>2, ConcatProperties
  <2>2. QED
    BY <1>1, <1>2, <2>1
<1> DEFINE l == s \o a
           r == Append(s \o b, c[i])
<1>6. /\ r \in Seq(S) /\ Len(r) = Len(s) + i
      /\ \A k \in 1 .. Len(s) + i - 1 : r[k] = (s \o b)[k]
      /\ r[Len(s) + i] = c[i]
  BY <1>1, <1>3, <1>5, AppendProperties
<1>7. l \in Seq(S) /\ Len(l) = Len(r)
  BY <1>4, <1>6
<1> HIDE DEF l, r
<1>8. \A k \in 1 .. Len(l) : l[k] = r[k]
  <2>1. Len(l) = Len(s) + i
    BY <1>6, <1>7
  <2>2. ASSUME NEW k \in 1 .. Len(s) + i - 1 PROVE l[k] = r[k]
    <3>1. k \in 1 .. Len(s) + i
      BY <1>1
    <3>2. l[k] = IF k <= Len(s) THEN s[k] ELSE c[k - Len(s)]
      BY <1>4, <3>1 DEF l
    <3>3. QED
      BY <1>5, <1>6, <3>2
  <2>3. l[Len(s) + i] = c[i]
    <3>1. Len(s) + i \in 1 .. Len(s) + i /\ ~(Len(s) + i <= Len(s)) /\ Len(s) + i - Len(s) = i
      BY <1>1
    <3>2. QED
      BY <1>4, <3>1 DEF l
  <2>4. \A k \in 1 .. Len(l) : k \in 1 .. Len(s) + i - 1 \/ k = Len(s) + i
    BY <1>1, <2>1
  <2>5. r[Len(s) + i] = c[i]
    BY <1>6
  <2>6. QED
    BY <2>2, <2>3, <2>4, <2>5
<1>9. l = r
  BY <1>6, <1>7, <1>8, SeqEqual
<1>10. QED
  BY <1>4, <1>5, <1>9 DEF l, r, a, b

\* A frame is a Job or a Result, never both.
LEMMA JobIsNoResult == \A f \in Job : f \notin Result
  BY DEF Job, Result

-------------------------------------------------------------------------------
(* Types and the pairing of calls: what a row, the core and a resumed worker *)
(* hold is a conversation whose last call, and no other, has no result.      *)

\* The last call of the conversation a Result hands to core is the only one without result.
AskIsOpen(r) == r.kind = "ask" => r.convo.asked = Append(r.convo.answered, r.call)

WorkerHasATurn == pc # "gone" => turn \in Turns
ReportReady == pc = "report" => Len(report) = 1

\* At its waits a worker has a result for every call, when it resumes for all but one.
ConvoOK ==
  /\ pc \in {"ask", "wait"} => convo.asked = convo.answered
  /\ pc = "resolve" => /\ Len(resume) = 1
                       /\ convo.asked = Append(convo.answered, resume[1].call)

ReportOpen == \A r \in Elems(report) : AskIsOpen(r)

FrameOK(f) ==
  /\ f \in Job => f.convo.asked = f.convo.answered
  /\ f \in Result => AskIsOpen(f)

FramesOK == \A t \in Turns : \A f \in Elems(up[t]) : FrameOK(f)

IsOpen(x) == x.convo.asked = Append(x.convo.answered, x.call)

ParkedOpen ==
  /\ \A t \in DOMAIN paused : IsOpen(paused[t])
  /\ \A x \in Elems(resuming) : IsOpen(x)

CallInv ==
  /\ TypeOK
  /\ WorkerHasATurn /\ ReportReady
  /\ ConvoOK /\ ReportOpen /\ FramesOK /\ ParkedOpen

LEMMA FreshTyped == Fresh \in Convo /\ Fresh.asked = Fresh.answered
  BY EmptySeq DEF Fresh, Convo

\* The row a database may hold at the start.
LEMMA OldRowTyped ==
  /\ OldCall \in Call /\ OldRow \in [call : Call, convo : Convo]
  /\ OldRow.call = OldCall /\ IsOpen(OldRow)
<1>1. OldCall \in Call
  BY ExchangeAssumption DEF OldCall, Call, Tiers
<1>2. << >> \in Seq(Call) /\ << OldCall >> \in Seq(Call) /\ << OldCall >> = Append(<< >>, OldCall)
  BY <1>1, EmptySeq, OneElem
<1>3. QED
  BY <1>1, <1>2 DEF OldRow, Convo, IsOpen

LEMMA InitPaused ==
  ASSUME Init
  PROVE  /\ DOMAIN paused \subseteq {0} /\ \A t \in DOMAIN paused : paused[t] = OldRow
         /\ asked \subseteq {[turn |-> 0, call |-> OldCall]}
         /\ \A t \in DOMAIN paused : [turn |-> t, call |-> OldCall] \in asked
<1>1. DOMAIN << >> = {}
  BY EmptySeq
<1>2. CASE paused = << >> /\ asked = {}
  BY <1>1, <1>2
<1>3. CASE paused = [t \in {0} |-> OldRow] /\ asked = {[turn |-> 0, call |-> OldCall]}
  BY <1>3
<1>4. QED
  BY <1>2, <1>3 DEF Init

LEMMA InitCalls == Init => CallInv
<1> SUFFICES ASSUME Init PROVE CallInv
  OBVIOUS
<1>1. << >> \in Seq(Result) /\ << >> \in Seq(Frame) /\ << >> \in Seq(Completion)
      /\ << >> \in Seq(Job) /\ << >> \in Seq(Serving) /\ << >> \in Seq(Call)
      /\ << >> \in Seq(ResumeState) /\ << >> \in Seq(Resumption)
  BY EmptySeq
<1>2. 0 \in 0 .. MaxTurns /\ OldCall \in Call /\ OldRow \in [call : Call, convo : Convo]
  BY OldRowTyped, ExchangeAssumption
<1>3. TypeOK
  <2>1. brokerUp \in BOOLEAN
    BY DEF Init
  <2>2. /\ DOMAIN paused \subseteq 0 .. MaxTurns
        /\ \A t \in DOMAIN paused : paused[t] \in [call : Call, convo : Convo]
    BY <1>2, InitPaused
  <2>3. asked \subseteq [turn : 0 .. MaxTurns, call : Call]
    BY <1>2, InitPaused
  <2>4. QED
    BY <1>1, <2>1, <2>2, <2>3, FreshTyped, ExchangeAssumption DEF Init, TypeOK
<1>4. WorkerHasATurn /\ ReportReady /\ ConvoOK
  BY DEF Init, WorkerHasATurn, ReportReady, ConvoOK
<1>5. ReportOpen /\ FramesOK /\ ParkedOpen
  BY InitPaused, OldRowTyped, EmptyElems DEF Init, ReportOpen, FramesOK, ParkedOpen
<1>6. QED
  BY <1>3, <1>4, <1>5 DEF CallInv

LEMMA ConnectCalls ==
  ASSUME CallInv, Connect
  PROVE  /\ turn' \in Turns /\ round' \in 0 .. MaxTools
         /\ report' \in Seq(Result) /\ Elems(report') = {}
         /\ open' \subseteq Turns /\ registered' \in 0 .. MaxTurns /\ mail' \in Seq(Completion)
<1>1. turn' \in Turns
  BY ExchangeAssumption DEF CallInv, TypeOK, Connect, Turns
<1>2. /\ round' = 0 /\ report' = << >> /\ mail' = << >>
      /\ open' = open \cup {turn'} /\ registered' = turn' /\ open \subseteq Turns
  BY DEF CallInv, TypeOK, Connect
<1>3. << >> \in Seq(Result) /\ << >> \in Seq(Completion)
  BY EmptySeq
<1>4. 0 \in 0 .. MaxTools /\ turn' \in 0 .. MaxTurns
  BY <1>1, ExchangeAssumption DEF Turns
<1>5. QED
  BY <1>1, <1>2, <1>3, <1>4, EmptyElems

LEMMA SpawnTurnCalls ==
  ASSUME CallInv, SpawnTurn
  PROVE  CallInv'
<1>1. Connect
  BY DEF SpawnTurn
<1>2. TypeOK'
  BY <1>1, ConnectCalls, FreshTyped, EmptySeq
     DEF CallInv, TypeOK, SpawnTurn, Connect, brokerVars, auditVars, Turns
<1>3. WorkerHasATurn' /\ ReportReady' /\ ConvoOK'
  BY <1>1, ConnectCalls, FreshTyped DEF SpawnTurn, WorkerHasATurn, ReportReady, ConvoOK
<1>4. ReportOpen' /\ FramesOK' /\ ParkedOpen'
  BY <1>1, ConnectCalls DEF CallInv, SpawnTurn, Connect, ReportOpen, FramesOK, ParkedOpen
<1>5. QED
  BY <1>2, <1>3, <1>4 DEF CallInv

\* What the core took from a row, and what a worker was given of it.
LEMMA ResumingTyped ==
  ASSUME CallInv, resuming # << >>
  PROVE  /\ resuming[1] \in Resumption /\ resuming[1] \in Elems(resuming)
         /\ resuming[1].call \in Call /\ resuming[1].convo \in Convo
         /\ resuming[1].approved \in BOOLEAN /\ IsOpen(resuming[1])
<1>1. resuming[1] \in Resumption /\ resuming[1] \in Elems(resuming)
  BY TailElems DEF CallInv, TypeOK
<1>2. QED
  BY <1>1 DEF Resumption, CallInv, ParkedOpen

LEMMA ResumeTyped ==
  ASSUME CallInv, pc = "resolve"
  PROVE  /\ resume[1] \in ResumeState /\ resume[1].call \in Call /\ resume[1].approved \in BOOLEAN
         /\ Elems(resume) = {resume[1]}
         /\ convo.asked = Append(convo.answered, resume[1].call)
<1>1. resume \in Seq(ResumeState) /\ Len(resume) = 1
      /\ convo.asked = Append(convo.answered, resume[1].call)
  BY DEF CallInv, TypeOK, ConvoOK
<1>2. resume[1] \in ResumeState
  <2>1. 1 \in 1 .. Len(resume)
    BY <1>1
  <2>2. QED
    BY <1>1, <2>1, ElementOfSeq
<1>3. QED
  BY <1>1, <1>2 DEF ResumeState, Elems

LEMMA SpawnResumeCalls ==
  ASSUME CallInv, SpawnResume
  PROVE  CallInv'
<1> DEFINE r == [call |-> resuming[1].call, approved |-> resuming[1].approved]
<1>1. Connect /\ resuming # << >> /\ convo' = resuming[1].convo /\ resume' = << r >>
      /\ resuming' = << >> /\ pc' = "resolve" /\ UNCHANGED <<paused, approved>>
  BY DEF SpawnResume
<1>2. r \in ResumeState /\ r.call = resuming[1].call /\ convo' \in Convo
      /\ convo'.asked = Append(convo'.answered, resuming[1].call)
  BY <1>1, ResumingTyped DEF ResumeState, IsOpen
<1> HIDE DEF r
<1>3. resume' \in Seq(ResumeState) /\ Len(resume') = 1 /\ resume'[1] = r
      /\ resuming' \in Seq(Resumption) /\ Elems(resuming') = {}
  BY <1>1, <1>2, OneElem, EmptySeq, EmptyElems
<1>4. TypeOK'
  BY <1>1, <1>2, <1>3, ConnectCalls
     DEF CallInv, TypeOK, Connect, brokerVars, auditVars, Turns
<1>5. WorkerHasATurn' /\ ReportReady' /\ ConvoOK'
  BY <1>1, <1>2, <1>3, ConnectCalls DEF WorkerHasATurn, ReportReady, ConvoOK
<1>6. ReportOpen' /\ FramesOK' /\ ParkedOpen'
  BY <1>1, <1>3, ConnectCalls DEF CallInv, Connect, ReportOpen, FramesOK, ParkedOpen
<1>7. QED
  BY <1>4, <1>5, <1>6 DEF CallInv

LEMMA ResolveCalls ==
  ASSUME CallInv, Resolve
  PROVE  CallInv'
<1> DEFINE c == resume[1].call
<1>1. c \in Call /\ convo.asked = Append(convo.answered, c)
  BY ResumeTyped DEF Resolve
<1>2. convo \in Convo /\ convo.asked \in Seq(Call) /\ convo.answered \in Seq(Call)
  BY DEF CallInv, TypeOK, Convo
<1>3. convo' = [convo EXCEPT !.answered = Append(convo.answered, c)]
      /\ (ran' = Append(ran, c) \/ ran' = ran)
  BY DEF Resolve
<1> HIDE DEF c
<1>4. /\ convo' \in Convo /\ convo'.asked = convo'.answered
  <2>1. Append(convo.answered, c) \in Seq(Call)
    BY <1>1, <1>2, AppendElems
  <2>2. QED
    BY <1>1, <1>2, <1>3, <2>1 DEF Convo
<1>5. ran' \in Seq(Call) /\ resume' \in Seq(ResumeState)
  <2>1. Append(ran, c) \in Seq(Call) /\ ran \in Seq(Call)
    BY <1>1, AppendElems DEF CallInv, TypeOK
  <2>2. QED
    BY <1>3, <2>1, EmptySeq DEF Resolve
<1>6. TypeOK'
  BY <1>4, <1>5 DEF CallInv, TypeOK, Resolve, hubVars, brokerVars, coreVars
<1>7. WorkerHasATurn' /\ ReportReady' /\ ConvoOK'
  BY <1>4 DEF CallInv, Resolve, WorkerHasATurn, ReportReady, ConvoOK
<1>8. ReportOpen' /\ FramesOK' /\ ParkedOpen'
  BY DEF CallInv, Resolve, ReportOpen, FramesOK, ParkedOpen, hubVars, coreVars
<1>9. QED
  BY <1>6, <1>7, <1>8 DEF CallInv

\* A frame that is in order, appended to a stream, leaves it in order.
LEMMA FrameSent ==
  ASSUME CallInv, NEW t \in Turns, NEW f \in Frame, FrameOK(f),
         up' = [up EXCEPT ![t] = Append(@, f)]
  PROVE  up' \in [Turns -> Seq(Frame)] /\ FramesOK'
<1>1. up \in [Turns -> Seq(Frame)] /\ up[t] \in Seq(Frame)
  BY DEF CallInv, TypeOK
<1>2. /\ up'[t] \in Seq(Frame) /\ Elems(up'[t]) = Elems(up[t]) \cup {f}
      /\ \A u \in Turns \ {t} : up'[u] = up[u]
  BY <1>1, AppendElems
<1>3. QED
  BY <1>1, <1>2 DEF CallInv, FramesOK

\* So does the one that is read.
LEMMA FrameRead ==
  ASSUME CallInv, NEW t \in Turns, up[t] # << >>, up' = [up EXCEPT ![t] = Tail(@)]
  PROVE  up' \in [Turns -> Seq(Frame)] /\ FramesOK' /\ Head(up[t]) \in Frame /\ FrameOK(Head(up[t]))
<1>1. up \in [Turns -> Seq(Frame)] /\ up[t] \in Seq(Frame)
  BY DEF CallInv, TypeOK
<1>2. /\ Head(up[t]) \in Frame /\ Head(up[t]) \in Elems(up[t])
      /\ up'[t] \in Seq(Frame) /\ Elems(up'[t]) \subseteq Elems(up[t])
      /\ \A u \in Turns \ {t} : up'[u] = up[u]
  BY <1>1, TailElems
<1>3. QED
  BY <1>1, <1>2 DEF CallInv, FramesOK

LEMMA SendJobCalls ==
  ASSUME CallInv, SendJob
  PROVE  CallInv'
<1> DEFINE f == [turn |-> turn, round |-> round, convo |-> convo]
<1>1. turn \in Turns /\ f \in Job
  BY DEF CallInv, TypeOK, WorkerHasATurn, SendJob, Job
<1>2. f \in Frame /\ FrameOK(f)
  <2>1. f.convo.asked = f.convo.answered
    BY DEF CallInv, ConvoOK, SendJob
  <2>2. QED
    BY <1>1, <2>1, JobIsNoResult DEF FrameOK, Frame
<1>3. up' = [up EXCEPT ![turn] = Append(@, f)]
  BY DEF SendJob
<1> HIDE DEF f
<1>4. up' \in [Turns -> Seq(Frame)] /\ FramesOK'
  BY <1>1, <1>2, <1>3, FrameSent
<1>5. TypeOK'
  BY <1>4 DEF CallInv, TypeOK, SendJob, brokerVars, coreVars, auditVars
<1>6. WorkerHasATurn' /\ ReportReady' /\ ConvoOK' /\ ReportOpen' /\ ParkedOpen'
  BY DEF CallInv, SendJob, WorkerHasATurn, ReportReady, ConvoOK, ReportOpen, ParkedOpen, coreVars
<1>7. QED
  BY <1>4, <1>5, <1>6 DEF CallInv

\* A Result of the worker's own words or of a text reply.
LEMMA ReportingCalls ==
  ASSUME CallInv, pc # "gone", NEW kind \in {"text", "tired", "fail"}, NEW from \in 0 .. MaxTurns,
         Reporting(kind, from), UNCHANGED turn
  PROVE  /\ report' \in Seq(Result) /\ pc' = "report"
         /\ WorkerHasATurn' /\ ReportReady' /\ ConvoOK' /\ ReportOpen'
<1> DEFINE r == [turn |-> turn, kind |-> kind, from |-> from]
<1>1. turn \in Turns
  BY DEF CallInv, WorkerHasATurn
<1>2. r \in Result /\ r.kind # "ask"
  BY <1>1 DEF Result
<1>3. report' = << r >> /\ pc' = "report"
  BY DEF Reporting
<1> HIDE DEF r
<1>4. report' \in Seq(Result) /\ Elems(report') = {r} /\ Len(report') = 1
  BY <1>2, <1>3, OneElem
<1>5. QED
  BY <1>1, <1>2, <1>3, <1>4 DEF WorkerHasATurn, ReportReady, ConvoOK, ReportOpen, AskIsOpen

LEMMA ShortOnTimeCalls ==
  ASSUME CallInv, ShortOnTime
  PROVE  CallInv'
<1>1. /\ report' \in Seq(Result) /\ pc' = "report"
      /\ WorkerHasATurn' /\ ReportReady' /\ ConvoOK' /\ ReportOpen'
  BY ReportingCalls, ExchangeAssumption DEF ShortOnTime
<1>2. TypeOK'
  BY <1>1 DEF CallInv, TypeOK, ShortOnTime, hubVars, brokerVars, coreVars, auditVars
<1>3. FramesOK' /\ ParkedOpen'
  BY DEF CallInv, ShortOnTime, FramesOK, ParkedOpen, hubVars, coreVars
<1>4. QED
  BY <1>1, <1>2, <1>3 DEF CallInv

LEMMA GiveUpCalls ==
  ASSUME CallInv, GiveUp
  PROVE  CallInv'
<1>1. /\ report' \in Seq(Result) /\ pc' = "report"
      /\ WorkerHasATurn' /\ ReportReady' /\ ConvoOK' /\ ReportOpen'
  BY ReportingCalls, ExchangeAssumption DEF GiveUp
<1>2. gaveUp' \subseteq Turns
  BY DEF CallInv, TypeOK, WorkerHasATurn, GiveUp
<1>3. TypeOK'
  BY <1>1, <1>2 DEF CallInv, TypeOK, GiveUp, hubVars, brokerVars, coreVars
<1>4. FramesOK' /\ ParkedOpen'
  BY DEF CallInv, GiveUp, FramesOK, ParkedOpen, hubVars, coreVars
<1>5. QED
  BY <1>1, <1>3, <1>4 DEF CallInv

\* The completion a worker reads is one, and what it leaves in the mail has its type.
LEMMA ReadTyped ==
  ASSUME CallInv, Read
  PROVE  /\ Head(mail) \in Completion /\ Head(mail).calls \in Seq(Call) /\ Head(mail).turn \in Turns
         /\ mail' \in Seq(Completion) /\ turn \in Turns
<1>1. Head(mail) \in Completion /\ mail' \in Seq(Completion)
  BY TailElems DEF CallInv, TypeOK, Read
<1>2. QED
  BY <1>1 DEF CallInv, WorkerHasATurn, Read, Completion

\* What a completion read does not touch.
LEMMA ReadKeeps ==
  ASSUME CallInv, Read
  PROVE  FramesOK' /\ ParkedOpen'
  BY DEF CallInv, Read, FramesOK, ParkedOpen, coreVars

LEMMA ReadReportCalls ==
  ASSUME CallInv, Read, NEW kind \in {"text", "fail", "tired"}, NEW from \in 0 .. MaxTurns,
         Reporting(kind, from), UNCHANGED <<round, convo>>
  PROVE  CallInv'
<1>1. pc # "gone" /\ UNCHANGED turn
  BY DEF Read
<1>2. /\ report' \in Seq(Result) /\ pc' = "report"
      /\ WorkerHasATurn' /\ ReportReady' /\ ConvoOK' /\ ReportOpen'
  BY <1>1, ReportingCalls
<1>3. TypeOK'
  BY <1>2, ReadTyped DEF CallInv, TypeOK, Read, brokerVars, coreVars, auditVars
<1>4. QED
  BY <1>2, <1>3, ReadKeeps DEF CallInv

LEMMA ReadFreeCalls ==
  ASSUME CallInv, ReadFree
  PROVE  CallInv'
<1> DEFINE calls == Head(mail).calls
<1>1. Read /\ calls # << >> /\ ~TooManyTools /\ round' = round + 1 /\ pc' = "ask"
      /\ report' = report /\ pc = "wait"
      /\ convo' = [asked |-> convo.asked \o calls, answered |-> convo.answered \o calls]
  BY DEF ReadFree, Read
<1>2. round' \in 0 .. MaxTools
  BY <1>1, ExchangeAssumption DEF CallInv, TypeOK, TooManyTools
<1>3. convo.asked \in Seq(Call) /\ convo.answered = convo.asked /\ calls \in Seq(Call)
  BY <1>1, ReadTyped DEF CallInv, TypeOK, ConvoOK, Convo
<1> HIDE DEF calls
<1>4. convo' \in Convo /\ convo'.asked = convo'.answered
  <2>1. convo.asked \o calls \in Seq(Call)
    BY <1>3, ConcatProperties
  <2>2. QED
    BY <1>1, <1>3, <2>1 DEF Convo
<1>5. TypeOK'
  BY <1>1, <1>2, <1>4, ReadTyped DEF CallInv, TypeOK, Read, brokerVars, coreVars, auditVars
<1>6. WorkerHasATurn' /\ ReportReady' /\ ConvoOK' /\ ReportOpen'
  BY <1>1, <1>4, ReadTyped DEF CallInv, Read, WorkerHasATurn, ReportReady, ConvoOK, ReportOpen
<1>7. QED
  BY <1>1, <1>5, <1>6, ReadKeeps DEF CallInv

LEMMA ReadRiskyCalls ==
  ASSUME CallInv, ReadRisky
  PROVE  CallInv'
<1> DEFINE calls == Head(mail).calls
           c(i)  == [asked |-> convo.asked \o SubSeq(calls, 1, i),
                     answered |-> convo.answered \o SubSeq(calls, 1, i - 1)]
           r(i)  == [turn |-> turn, kind |-> "ask", from |-> Head(mail).turn, call |-> calls[i],
                     convo |-> c(i)]
<1>1. Read /\ pc' = "report" /\ round' = round /\ convo' = convo /\ pc = "wait"
  BY DEF ReadRisky, Read
<1>2. PICK i \in FirstRisky(calls) : report' = << r(i) >>
  BY DEF ReadRisky, KeptCalls
<1>3. convo.asked \in Seq(Call) /\ convo.answered = convo.asked /\ calls \in Seq(Call)
  BY <1>1, ReadTyped DEF CallInv, TypeOK, ConvoOK, Convo
<1>4. i \in 1 .. Len(calls)
  BY <1>3, LenProperties DEF FirstRisky, RiskyIn
<1>5. calls[i] \in Call
  BY <1>3, <1>4, ElementOfSeq
<1>6. c(i) \in Convo /\ c(i).asked = Append(c(i).answered, calls[i])
  <2>1. /\ convo.asked \o SubSeq(calls, 1, i) \in Seq(Call)
        /\ convo.asked \o SubSeq(calls, 1, i - 1) \in Seq(Call)
        /\ convo.asked \o SubSeq(calls, 1, i) = Append(convo.asked \o SubSeq(calls, 1, i - 1), calls[i])
    <3> HIDE DEF calls
    <3>1. QED
      BY <1>3, <1>4, KeptOneByOne
  <2>2. QED
    BY <1>3, <2>1 DEF Convo
<1>7. r(i) \in Result /\ AskIsOpen(r(i))
  <2>1. turn \in Turns /\ Head(mail).turn \in Turns
    BY <1>1, ReadTyped
  <2> HIDE DEF c, calls
  <2>2. QED
    BY <1>5, <1>6, <2>1 DEF Result, AskIsOpen
<1> HIDE DEF r, c, calls
<1>8. report' \in Seq(Result) /\ Elems(report') = {r(i)} /\ Len(report') = 1
  BY <1>2, <1>7, OneElem
<1>9. TypeOK'
  BY <1>1, <1>8, ReadTyped DEF CallInv, TypeOK, Read, brokerVars, coreVars, auditVars
<1>10. WorkerHasATurn' /\ ReportReady' /\ ConvoOK' /\ ReportOpen'
  BY <1>1, <1>7, <1>8, ReadTyped DEF Read, WorkerHasATurn, ReportReady, ConvoOK, ReportOpen
<1>11. QED
  BY <1>1, <1>9, <1>10, ReadKeeps DEF CallInv

LEMMA ToolLoopCalls ==
  ASSUME CallInv, ToolLoop
  PROVE  CallInv'
<1>1. CASE ReadFailure
  BY <1>1, ReadReportCalls, ExchangeAssumption DEF ReadFailure
<1>2. CASE ReadText
  <2>1. Read /\ Head(mail).turn \in 0 .. MaxTurns
    BY <1>2, ReadTyped, ExchangeAssumption DEF ReadText, Turns
  <2>2. QED
    BY <1>2, <2>1, ReadReportCalls DEF ReadText
<1>3. CASE ReadTooMany
  BY <1>3, ReadReportCalls, ExchangeAssumption DEF ReadTooMany
<1>4. QED
  BY <1>1, <1>2, <1>3, ReadFreeCalls, ReadRiskyCalls DEF ToolLoop

\* A worker that is gone has nothing left.
LEMMA ExitTyped ==
  ASSUME Exit
  PROVE  /\ round' \in 0 .. MaxTools /\ convo' \in Convo /\ report' \in Seq(Result)
         /\ Elems(report') = {} /\ resume' \in Seq(ResumeState) /\ mail' \in Seq(Completion)
         /\ Elems(mail') = {}
  BY FreshTyped, EmptySeq, EmptyElems, ExchangeAssumption DEF Exit

LEMMA WriteResultCalls ==
  ASSUME CallInv, WriteResult
  PROVE  CallInv'
<1>1. turn \in Turns /\ report \in Seq(Result) /\ Len(report) = 1
  BY DEF CallInv, TypeOK, WorkerHasATurn, ReportReady, WriteResult
<1>2. report[1] \in Result /\ report[1] \in Elems(report)
  BY <1>1, ElementOfSeq DEF Elems
<1>3. report[1] \in Frame /\ FrameOK(report[1])
  BY <1>2, JobIsNoResult DEF CallInv, ReportOpen, FrameOK, Frame
<1>4. up' \in [Turns -> Seq(Frame)] /\ FramesOK'
  <2>1. up' = [up EXCEPT ![turn] = Append(@, report[1])]
    BY DEF WriteResult
  <2>2. QED
    BY <1>1, <1>3, <2>1, FrameSent
<1>5. TypeOK'
  BY <1>4, ExitTyped DEF CallInv, TypeOK, WriteResult, Exit, brokerVars, coreVars
<1>6. WorkerHasATurn' /\ ReportReady' /\ ConvoOK' /\ ReportOpen' /\ ParkedOpen'
  BY ExitTyped DEF CallInv, WriteResult, Exit, WorkerHasATurn, ReportReady, ConvoOK, ReportOpen,
                   ParkedOpen, coreVars
<1>7. QED
  BY <1>4, <1>5, <1>6 DEF CallInv

LEMMA KilledCalls ==
  ASSUME CallInv, Killed
  PROVE  CallInv'
<1>1. gaveUp' \subseteq Turns
  BY DEF CallInv, TypeOK, WorkerHasATurn, Killed
<1>2. TypeOK'
  BY <1>1, ExitTyped DEF CallInv, TypeOK, Killed, Exit, brokerVars, coreVars
<1>3. WorkerHasATurn' /\ ReportReady' /\ ConvoOK' /\ ReportOpen' /\ FramesOK' /\ ParkedOpen'
  BY ExitTyped DEF CallInv, Killed, Exit, WorkerHasATurn, ReportReady, ConvoOK, ReportOpen, FramesOK,
         ParkedOpen, coreVars
<1>4. QED
  BY <1>2, <1>3 DEF CallInv

\* An approval core parks is the open call of the Result that brought it.
LEMMA ParksCalls ==
  ASSUME CallInv, NEW r \in Result, AskIsOpen(r), r.kind = "ask", Parks(r), UNCHANGED resuming
  PROVE  /\ DOMAIN paused' \subseteq 0 .. MaxTurns
         /\ \A t \in DOMAIN paused' : paused'[t] \in [call : Call, convo : Convo]
         /\ ParkedOpen' /\ asked' \subseteq [turn : 0 .. MaxTurns, call : Call]
<1> DEFINE row == [call |-> r.call, convo |-> r.convo]
<1>0. r.turn \in Turns /\ r.turn \in 0 .. MaxTurns /\ r.call \in Call
      /\ row \in [call : Call, convo : Convo] /\ IsOpen(row)
  BY ExchangeAssumption DEF Result, Turns, AskIsOpen, IsOpen
<1>1. asked' \subseteq [turn : 0 .. MaxTurns, call : Call]
  BY <1>0 DEF CallInv, TypeOK, Parks
<1>2. CASE UNCHANGED paused
  BY <1>1, <1>2 DEF CallInv, TypeOK, ParkedOpen
<1>3. CASE paused' = [u \in DOMAIN paused \cup {r.turn} |-> IF u = r.turn THEN row ELSE paused[u]]
  <2> HIDE DEF row
  <2>1. /\ DOMAIN paused' = DOMAIN paused \cup {r.turn}
        /\ \A u \in DOMAIN paused' : paused'[u] = row \/ (u \in DOMAIN paused /\ paused'[u] = paused[u])
    BY <1>3
  <2>2. QED
    BY <1>0, <1>1, <2>1 DEF CallInv, TypeOK, ParkedOpen
<1>4. QED
  BY <1>2, <1>3 DEF Parks

LEMMA RouteResultCalls ==
  ASSUME CallInv, NEW t \in Turns, RouteResult(t)
  PROVE  CallInv'
<1> DEFINE r == Head(up[t])
<1>1. up' \in [Turns -> Seq(Frame)] /\ FramesOK' /\ FrameOK(r) /\ r \in Result
      /\ ((r.kind = "ask" /\ Parks(r)) \/ UNCHANGED <<asked, paused>>)
      /\ UNCHANGED <<workerVars, open, registered, mail, brokerVars, resuming, approved, auditVars>>
  BY FrameRead DEF RouteResult
<1> HIDE DEF r
<1>2. AskIsOpen(r)
  BY <1>1 DEF FrameOK
<1>3. /\ DOMAIN paused' \subseteq 0 .. MaxTurns
      /\ \A u \in DOMAIN paused' : paused'[u] \in [call : Call, convo : Convo]
      /\ ParkedOpen' /\ asked' \subseteq [turn : 0 .. MaxTurns, call : Call]
  <2>1. CASE r.kind = "ask" /\ Parks(r)
    BY <1>1, <1>2, <2>1, ParksCalls
  <2>2. CASE UNCHANGED <<asked, paused>>
    BY <1>1, <2>2 DEF CallInv, TypeOK, ParkedOpen
  <2>3. QED
    BY <1>1, <2>1, <2>2
<1>5. TypeOK'
  BY <1>1, <1>3 DEF CallInv, TypeOK, workerVars, brokerVars, auditVars
<1>6. WorkerHasATurn' /\ ReportReady' /\ ConvoOK' /\ ReportOpen'
  BY <1>1 DEF CallInv, WorkerHasATurn, ReportReady, ConvoOK, ReportOpen, workerVars
<1>7. QED
  BY <1>1, <1>3, <1>5, <1>6 DEF CallInv

\* What the core does with a row when nobody works.
LEMMA CoreCalls ==
  ASSUME CallInv, Core
  PROVE  CallInv'
<1>1. UNCHANGED <<workerVars, hubVars, brokerVars, asked, auditVars>>
  BY DEF Core, Tap, ResumeFails, RowExpires
<1>2. /\ DOMAIN paused' \subseteq DOMAIN paused
      /\ \A t \in DOMAIN paused' : paused'[t] = paused[t]
  BY DEF Core, Tap, TakeRow, ResumeFails, RowExpires
<1>3. /\ resuming' \in Seq(Resumption) /\ approved' \subseteq 0 .. MaxTurns
      /\ \A x \in Elems(resuming') : IsOpen(x)
  <2>1. CASE ResumeFails \/ \E t \in 0 .. MaxTurns : RowExpires(t)
    BY <2>1, EmptySeq, EmptyElems DEF CallInv, TypeOK, ParkedOpen, ResumeFails, RowExpires
  <2>2. ASSUME NEW t \in 0 .. MaxTurns, Tap(t)
        PROVE  /\ resuming' \in Seq(Resumption) /\ approved' \subseteq 0 .. MaxTurns
               /\ \A x \in Elems(resuming') : IsOpen(x)
    <3> DEFINE x(yes) == [call |-> paused[t].call, convo |-> paused[t].convo, approved |-> yes]
    <3>1. paused[t] \in [call : Call, convo : Convo] /\ IsOpen(paused[t])
      BY <2>2 DEF Tap, CallInv, TypeOK, ParkedOpen
    <3>2. PICK yes \in BOOLEAN : resuming' = << x(yes) >> /\ approved' \subseteq approved \cup {t}
      BY <2>2 DEF Tap
    <3>3. x(yes) \in Resumption /\ IsOpen(x(yes))
      BY <3>1 DEF Resumption, IsOpen
    <3> HIDE DEF x
    <3>4. QED
      BY <3>2, <3>3, OneElem DEF CallInv, TypeOK
  <2>3. QED
    BY <2>1, <2>2 DEF Core
<1>4. TypeOK'
  BY <1>1, <1>2, <1>3 DEF CallInv, TypeOK, workerVars, hubVars, brokerVars, auditVars
<1>5. WorkerHasATurn' /\ ReportReady' /\ ConvoOK' /\ ReportOpen' /\ FramesOK' /\ ParkedOpen'
  BY <1>1, <1>2, <1>3 DEF CallInv, WorkerHasATurn, ReportReady, ConvoOK, ReportOpen, FramesOK,
                          ParkedOpen, workerVars, hubVars
<1>6. QED
  BY <1>4, <1>5 DEF CallInv

LEMMA RouteJobCalls ==
  ASSUME CallInv, NEW t \in Turns, RouteJob(t)
  PROVE  CallInv'
<1>1. up' \in [Turns -> Seq(Frame)] /\ FramesOK' /\ Head(up[t]) \in Job
  BY FrameRead DEF RouteJob
<1>2. jobs' \in Seq(Job)
  <2>1. jobs \in Seq(Job) /\ Append(jobs, Head(up[t])) \in Seq(Job)
    BY <1>1, AppendElems DEF CallInv, TypeOK
  <2>2. QED
    BY <2>1 DEF RouteJob
<1>3. TypeOK'
  BY <1>1, <1>2 DEF CallInv, TypeOK, RouteJob, workerVars, coreVars, auditVars
<1>4. WorkerHasATurn' /\ ReportReady' /\ ConvoOK' /\ ReportOpen' /\ ParkedOpen'
  BY DEF CallInv, RouteJob, WorkerHasATurn, ReportReady, ConvoOK, ReportOpen, ParkedOpen,
         workerVars, coreVars
<1>5. QED
  BY <1>1, <1>3, <1>4 DEF CallInv

\* What a step of the hub's registry or of the broker does not touch.
LEMMA OthersKeepCalls ==
  ASSUME CallInv, UNCHANGED <<workerVars, up, coreVars>>
  PROVE  WorkerHasATurn' /\ ReportReady' /\ ConvoOK' /\ ReportOpen' /\ FramesOK' /\ ParkedOpen'
  BY DEF CallInv, WorkerHasATurn, ReportReady, ConvoOK, ReportOpen, FramesOK, ParkedOpen,
         workerVars, coreVars

LEMMA CloseCalls ==
  ASSUME CallInv, NEW t \in Turns, Close(t)
  PROVE  CallInv'
<1>1. TypeOK'
  BY ExchangeAssumption
     DEF CallInv, TypeOK, Close, Deregister, workerVars, brokerVars, coreVars, auditVars
<1>2. QED
  BY <1>1, OthersKeepCalls DEF CallInv, Close

LEMMA RouteCompletionCalls ==
  ASSUME CallInv, RouteCompletion
  PROVE  CallInv'
<1>1. answers' \in Seq(Completion) /\ Append(mail, Head(answers)) \in Seq(Completion)
  BY TailElems, AppendElems DEF CallInv, TypeOK, RouteCompletion
<1>2. mail' \in Seq(Completion) /\ registered' \in 0 .. MaxTurns
  <2>1. mail \in Seq(Completion) /\ registered \in 0 .. MaxTurns /\ 0 \in 0 .. MaxTurns
    BY ExchangeAssumption DEF CallInv, TypeOK
  <2>2. \/ mail' = Append(mail, Head(answers)) /\ registered' = registered
        \/ registered' \in {registered, 0} /\ mail' = mail
    BY DEF RouteCompletion
  <2>3. QED
    BY <1>1, <2>1, <2>2
<1>3. TypeOK'
  BY <1>1, <1>2 DEF CallInv, TypeOK, RouteCompletion, workerVars, coreVars, auditVars
<1>4. QED
  BY <1>3, OthersKeepCalls DEF CallInv, RouteCompletion

LEMMA TakeJobCalls ==
  ASSUME CallInv, TakeJob
  PROVE  CallInv'
<1> DEFINE s == [job |-> Head(jobs), provider |-> 1, attempt |-> 1]
<1>1. jobs' \in Seq(Job) /\ Head(jobs) \in Job
  BY TailElems DEF CallInv, TypeOK, TakeJob
<1>2. s \in Serving
  BY <1>1, ExchangeAssumption DEF Serving
<1>3. serving' = << s >>
  BY DEF TakeJob
<1> HIDE DEF s
<1>4. serving' \in Seq(Serving)
  BY <1>2, <1>3, OneElem
<1>5. TypeOK'
  BY <1>1, <1>4 DEF CallInv, TypeOK, TakeJob, workerVars, hubVars, coreVars, auditVars
<1>6. QED
  BY <1>5, OthersKeepCalls DEF CallInv, TakeJob, hubVars

\* The Job in hand, while there is one.
LEMMA ServingTyped ==
  ASSUME TypeOK, serving # << >>
  PROVE  /\ serving[1] \in Serving /\ serving[1].job \in Job
         /\ serving[1].job.turn \in Turns /\ serving[1].job.round \in Nat
         /\ serving[1].provider \in 1 .. Providers /\ serving[1].attempt \in 1 .. 2
<1>1. serving[1] \in Serving
  BY TailElems DEF TypeOK
<1>2. serving[1].job \in Job /\ serving[1].provider \in 1 .. Providers /\ serving[1].attempt \in 1 .. 2
  BY <1>1 DEF Serving
<1>3. QED
  BY <1>1, <1>2 DEF Job

\* A reply is a completion, and a call to a provider is counted.
LEMMA ReplyTyped ==
  ASSUME TypeOK, serving # << >>, NEW ok \in BOOLEAN, NEW calls \in Seq(Call), Reply(ok, calls)
  PROVE  answers' \in Seq(Completion)
<1> DEFINE a == [turn |-> serving[1].job.turn, round |-> serving[1].job.round, ok |-> ok,
                 calls |-> calls]
<1>1. a \in Completion
  BY ServingTyped DEF Completion
<1>2. answers \in Seq(Completion) /\ answers' = IF brokerUp THEN Append(answers, a) ELSE answers
  BY DEF TypeOK, Reply
<1> HIDE DEF a
<1>3. QED
  BY <1>1, <1>2, AppendElems

LEMMA BilledTyped ==
  ASSUME TypeOK, serving # << >>, Billed
  PROVE  spent' \in [Turns -> Nat]
<1>1. PICK n : n = spent[serving[1].job.turn]
  OBVIOUS
<1>2. n \in Nat /\ n + 1 \in Nat
  <2>1. spent \in [Turns -> Nat] /\ serving[1].job.turn \in Turns
    BY ServingTyped DEF TypeOK
  <2>2. n \in Nat
    BY <1>1, <2>1
  <2>3. QED
    BY <2>2
<1>3. PICK m \in {n, n + 1} : spent' = [spent EXCEPT ![serving[1].job.turn] = m]
  BY <1>1 DEF Billed
<1>4. QED
  BY <1>2, <1>3 DEF TypeOK

\* The calls of a completion, numbered.
LEMMA CallsTyped ==
  ASSUME TypeOK, serving # << >>, NEW tiers \in Replies
  PROVE  [i \in DOMAIN tiers |->
           [turn |-> serving[1].job.turn, round |-> serving[1].job.round, pos |-> i,
            tier |-> tiers[i]]] \in Seq(Call)
<1> DEFINE calls == [i \in DOMAIN tiers |->
          [turn |-> serving[1].job.turn, round |-> serving[1].job.round, pos |-> i,
           tier |-> tiers[i]]]
<1>1. tiers \in Seq(Tiers)
  BY ExchangeAssumption DEF Tiers
<1>2. Len(tiers) \in Nat /\ DOMAIN tiers = 1 .. Len(tiers)
  BY <1>1, LenProperties
<1>3. \A i \in 1 .. Len(tiers) : tiers[i] \in Tiers /\ i \in Nat
  BY <1>1, <1>2, ElementOfSeq
<1>4. \A i \in 1 .. Len(tiers) : calls[i] \in Call
  BY <1>2, <1>3, ServingTyped, ExchangeAssumption DEF Call, Turns
<1>5. calls \in [1 .. Len(tiers) -> Call]
  BY <1>2, <1>4
<1>6. QED
  BY <1>2, <1>5, SeqDef

LEMMA ProviderAnswersCalls ==
  ASSUME CallInv, ProviderAnswers
  PROVE  CallInv'
<1>1. TypeOK /\ serving # << >>
  BY DEF CallInv, ProviderAnswers
<1>2. PICK tiers \in Replies :
        Reply(TRUE, [i \in DOMAIN tiers |->
          [turn |-> serving[1].job.turn, round |-> serving[1].job.round, pos |-> i,
           tier |-> tiers[i]]])
  BY DEF ProviderAnswers
<1> DEFINE calls == [i \in DOMAIN tiers |->
          [turn |-> serving[1].job.turn, round |-> serving[1].job.round, pos |-> i,
           tier |-> tiers[i]]]
<1>3. calls \in Seq(Call)
  BY <1>1, CallsTyped
<1>4. answers' \in Seq(Completion)
  <2>1. Reply(TRUE, calls)
    BY <1>2
  <2> HIDE DEF calls
  <2>2. QED
    BY <1>1, <1>3, <2>1, ReplyTyped
<1>5. spent' \in [Turns -> Nat] /\ serving' \in Seq(Serving)
  BY <1>1, BilledTyped, EmptySeq DEF ProviderAnswers, JobIsDone
<1>6. TypeOK'
  BY <1>4, <1>5 DEF CallInv, TypeOK, ProviderAnswers, workerVars, hubVars, coreVars
<1>7. QED
  BY <1>6, OthersKeepCalls DEF CallInv, ProviderAnswers, hubVars

LEMMA ProviderHiccupsCalls ==
  ASSUME CallInv, ProviderHiccups
  PROVE  CallInv'
<1> DEFINE s == [serving[1] EXCEPT !.attempt = 2]
<1>1. TypeOK /\ serving # << >> /\ serving' = << s >>
  BY DEF CallInv, ProviderHiccups
<1>2. s \in Serving
  BY <1>1, ServingTyped DEF Serving
<1> HIDE DEF s
<1>3. spent' \in [Turns -> Nat] /\ serving' \in Seq(Serving)
  BY <1>1, <1>2, BilledTyped, OneElem DEF ProviderHiccups
<1>4. TypeOK'
  BY <1>3 DEF CallInv, TypeOK, ProviderHiccups, workerVars, hubVars, coreVars
<1>5. QED
  BY <1>4, OthersKeepCalls DEF CallInv, ProviderHiccups, hubVars

LEMMA ProviderFailsCalls ==
  ASSUME CallInv, ProviderFails
  PROVE  CallInv'
<1> DEFINE s == [serving[1] EXCEPT !.provider = @ + 1, !.attempt = 1]
<1>1. TypeOK /\ serving # << >> /\ FallBack
  BY DEF CallInv, ProviderFails
<1>2. answers' \in Seq(Completion) /\ serving' \in Seq(Serving)
  <2>1. CASE serving[1].provider < Providers
    <3>1. s \in Serving
      <4>1. serving[1] \in Serving /\ serving[1].provider \in 1 .. Providers
        BY <1>1, ServingTyped
      <4>2. serving[1].provider + 1 \in 1 .. Providers /\ 1 \in 1 .. 2
        BY <2>1, <4>1, ExchangeAssumption
      <4>3. QED
        BY <4>1, <4>2 DEF Serving
    <3>2. serving' = << s >> /\ answers' = answers
      BY <1>1, <2>1 DEF FallBack
    <3> HIDE DEF s
    <3>3. QED
      BY <1>1, <3>1, <3>2, OneElem DEF TypeOK
  <2>2. CASE ~(serving[1].provider < Providers)
    <3>1. serving' = << >> /\ Reply(FALSE, << >>)
      BY <1>1, <2>2 DEF FallBack, JobIsDone
    <3>2. << >> \in Seq(Call) /\ FALSE \in BOOLEAN
      BY EmptySeq
    <3>3. answers' \in Seq(Completion)
      BY <1>1, <3>1, <3>2, ReplyTyped
    <3>4. QED
      BY <3>1, <3>3, EmptySeq
  <2>3. QED
    BY <2>1, <2>2
<1>3. spent' \in [Turns -> Nat]
  BY <1>1, BilledTyped DEF ProviderFails
<1>4. TypeOK'
  BY <1>2, <1>3 DEF CallInv, TypeOK, ProviderFails, workerVars, hubVars, coreVars
<1>5. QED
  BY <1>4, OthersKeepCalls DEF CallInv, ProviderFails, hubVars

\* What is left of the Jobs and of the answers when the connection is lost.
LEMMA DropsPrefixes ==
  ASSUME CallInv, BrokerDrops
  PROVE  /\ jobs' \in Seq(Job) /\ Elems(jobs') \subseteq Elems(jobs) /\ Len(jobs') \in Nat
         /\ Len(jobs') <= Len(jobs) /\ \A i \in 1 .. Len(jobs') : jobs'[i] = jobs[i]
         /\ answers' \in Seq(Completion) /\ Elems(answers') \subseteq Elems(answers)
         /\ Len(answers') \in Nat /\ Len(answers') <= Len(answers)
         /\ \A i \in 1 .. Len(answers') : answers'[i] = answers[i]
<1>1. /\ jobs \in Seq(Job) /\ answers \in Seq(Completion)
      /\ Len(jobs) \in Nat /\ Len(answers) \in Nat
  BY LenProperties DEF CallInv, TypeOK
<1>2. PICK n \in 0 .. Len(jobs) : jobs' = SubSeq(jobs, 1, n)
  BY DEF BrokerDrops
<1>3. PICK m \in 0 .. Len(answers) : answers' = SubSeq(answers, 1, m)
  BY DEF BrokerDrops
<1>4. /\ jobs' \in Seq(Job) /\ Elems(jobs') \subseteq Elems(jobs) /\ Len(jobs') = n
      /\ \A i \in 1 .. n : jobs'[i] = jobs[i]
  BY <1>1, <1>2, PrefixElems
<1>5. /\ answers' \in Seq(Completion) /\ Elems(answers') \subseteq Elems(answers)
      /\ Len(answers') = m /\ \A i \in 1 .. m : answers'[i] = answers[i]
  BY <1>1, <1>3, PrefixElems
<1>6. n \in Nat /\ n <= Len(jobs) /\ m \in Nat /\ m <= Len(answers)
  BY <1>1
<1>7. QED
  BY <1>4, <1>5, <1>6

LEMMA ConnectionCalls ==
  ASSUME CallInv, BrokerDrops \/ BrokerReconnects
  PROVE  CallInv'
<1>1. TypeOK'
  <2>1. brokerUp' \in BOOLEAN
    BY DEF BrokerDrops, BrokerReconnects
  <2>2. CASE BrokerDrops
    <3>1. jobs' \in Seq(Job) /\ answers' \in Seq(Completion)
      BY <2>2, DropsPrefixes
    <3>2. drops' \in 0 .. MaxDrops
      BY <2>2, ExchangeAssumption DEF CallInv, TypeOK, BrokerDrops
    <3>3. QED
      BY <2>1, <2>2, <3>1, <3>2
         DEF CallInv, TypeOK, BrokerDrops, workerVars, hubVars, coreVars, auditVars
  <2>3. CASE BrokerReconnects
    BY <2>1, <2>3, EmptySeq
       DEF CallInv, TypeOK, BrokerReconnects, workerVars, hubVars, coreVars, auditVars
  <2>4. QED
    BY <2>2, <2>3
<1>2. QED
  BY <1>1, OthersKeepCalls DEF CallInv, BrokerDrops, BrokerReconnects, hubVars

LEMMA CallInvStep == CallInv /\ [Next]_vars => CallInv'
<1> SUFFICES ASSUME CallInv, [Next]_vars PROVE CallInv'
  OBVIOUS
<1>1. CASE SpawnTurn \/ SpawnResume \/ Core
  BY <1>1, SpawnTurnCalls, SpawnResumeCalls, CoreCalls
<1>2. CASE Worker \/ Killed
  BY <1>2, ResolveCalls, SendJobCalls, ShortOnTimeCalls, ToolLoopCalls, GiveUpCalls,
     WriteResultCalls, KilledCalls DEF Worker
<1>3. CASE Hub
  BY <1>3, RouteCompletionCalls, RouteResultCalls, RouteJobCalls, CloseCalls DEF Hub
<1>4. CASE Broker \/ BrokerDrops
  BY <1>4, TakeJobCalls, ProviderAnswersCalls, ProviderHiccupsCalls, ProviderFailsCalls,
     ConnectionCalls DEF Broker, Chain
<1>5. CASE UNCHANGED vars
  <2>1. TypeOK'
    BY <1>5 DEF CallInv, TypeOK, vars, workerVars, hubVars, brokerVars, coreVars, auditVars
  <2>2. QED
    BY <1>5, <2>1, OthersKeepCalls DEF CallInv, vars, hubVars
<1>6. QED
  BY <1>1, <1>2, <1>3, <1>4, <1>5 DEF Next, Done

LEMMA CallsCorrect == Spec => []CallInv
<1>1. QED
  BY InitCalls, CallInvStep, PTL DEF Spec

\* Every variable keeps its type.
THEOREM TypeCorrect == Spec => []TypeOK
<1>1. CallInv => TypeOK
  BY DEF CallInv
<1>2. QED
  BY <1>1, CallsCorrect, PTL

\* Every conversation on its way to a provider holds one result per call.
THEOREM PairedSafe == Spec => []CallsArePaired
<1>1. CallInv => CallsArePaired
  <2> SUFFICES ASSUME CallInv, NEW t \in Turns, NEW i \in DOMAIN up[t], up[t][i] \in Job
               PROVE  up[t][i].convo.asked = up[t][i].convo.answered
    BY DEF CallsArePaired
  <2>1. up[t] \in Seq(Frame)
    BY DEF CallInv, TypeOK
  <2>2. up[t][i] \in Elems(up[t])
    BY <2>1, LenProperties DEF Elems
  <2>3. QED
    BY <2>2 DEF CallInv, FramesOK, FrameOK
<1>2. QED
  BY <1>1, CallsCorrect, PTL

-------------------------------------------------------------------------------
(* The registry *)

\* A live worker is registered, waiting or not.
Registered == pc # "gone" => registered = turn

\* A worker waiting for the broker is the one completions are routed to.
THEOREM ReachSafe == Spec => []ReachableWhileWaiting
<1>1. Init => Registered
  BY DEF Init, Registered
<1>2. Registered /\ [Next]_vars => Registered'
  <2> SUFFICES ASSUME Registered, [Next]_vars PROVE Registered'
    OBVIOUS
  <2>1. CASE SpawnTurn \/ SpawnResume
    BY <2>1 DEF Registered, SpawnTurn, SpawnResume, Connect
  <2>2. CASE Worker \/ Killed
    BY <2>2 DEF Registered, Worker, Resolve, SendJob, ShortOnTime, ToolLoop, ReadFailure, ReadText,
                ReadTooMany, ReadFree, ReadRisky, Read, GiveUp, WriteResult, Killed, Exit, hubVars
  <2>3. CASE RouteCompletion
    BY <2>3 DEF Registered, RouteCompletion, workerVars
  <2>4. ASSUME NEW t \in Turns, RouteResult(t) \/ RouteJob(t) PROVE Registered'
    BY <2>4 DEF Registered, RouteResult, RouteJob, workerVars
  <2>5. ASSUME NEW t \in Turns, Close(t) PROVE Registered'
    BY <2>5 DEF Registered, Close, Deregister, workerVars
  <2>6. CASE Broker \/ BrokerDrops
    BY <2>6 DEF Registered, Broker, TakeJob, Chain, ProviderAnswers, ProviderHiccups, ProviderFails,
                BrokerReconnects, BrokerDrops, workerVars, hubVars
  <2>7. CASE Core \/ UNCHANGED vars
    BY <2>7 DEF Registered, Core, Tap, ResumeFails, RowExpires, vars, workerVars, hubVars
  <2>8. QED
    BY <2>1, <2>2, <2>3, <2>4, <2>5, <2>6, <2>7 DEF Next, Hub, Done
<1>3. Registered => ReachableWhileWaiting
  BY DEF Registered, ReachableWhileWaiting
<1>4. QED
  BY <1>1, <1>2, <1>3, PTL DEF Spec

-------------------------------------------------------------------------------
(* Which Job an answer is for, as long as nobody has given up: at most one  *)
(* Job or answer is under way, and only while its worker waits for it.      *)

NoJobIn(q) == \A f \in Elems(q) : f \notin Job

\* Nothing is under way.
Quiet ==
  /\ jobs = << >> /\ serving = << >> /\ answers = << >> /\ mail = << >>
  /\ \A t \in Turns : NoJobIn(up[t])
  /\ pc # "gone" => up[turn] = << >>

IsMine(x) == x.turn = turn /\ x.round = round

\* At most one thing is, and it belongs to this iteration of this worker.
OneAfoot ==
  /\ Len(up[turn]) + Len(jobs) + Len(serving) + Len(answers) + Len(mail) <= 1
  /\ \A t \in Turns : \A f \in Elems(up[t]) : f \in Job => t = turn /\ IsMine(f)
  /\ \A j \in Elems(jobs) : IsMine(j)
  /\ \A s \in Elems(serving) : IsMine(s.job)
  /\ \A a \in Elems(answers) : IsMine(a)
  /\ \A a \in Elems(mail) : IsMine(a)

MatchOK == gaveUp = {} => (pc = "wait" => OneAfoot) /\ (pc # "wait" => Quiet)

\* A worker that is not forked yet has written nothing.
FutureIsEmpty == \A t \in Turns : t > turn => up[t] = << >>

MatchInv == CallInv /\ FutureIsEmpty /\ MatchOK

\* The lengths of what is under way are numbers, zero for what is empty.
LEMMA Lengths ==
  ASSUME CallInv
  PROVE  /\ Len(jobs) \in Nat /\ Len(serving) \in Nat /\ Len(answers) \in Nat /\ Len(mail) \in Nat
         /\ \A t \in Turns : Len(up[t]) \in Nat /\ up[t] \in Seq(Frame)
         /\ (Len(jobs) = 0 => jobs = << >>) /\ (Len(serving) = 0 => serving = << >>)
         /\ (Len(answers) = 0 => answers = << >>) /\ (Len(mail) = 0 => mail = << >>)
         /\ \A t \in Turns : Len(up[t]) = 0 => up[t] = << >>
<1>1. /\ jobs \in Seq(Job) /\ serving \in Seq(Serving) /\ answers \in Seq(Completion)
      /\ mail \in Seq(Completion) /\ \A t \in Turns : up[t] \in Seq(Frame)
  BY DEF CallInv, TypeOK
<1>2. QED
  BY <1>1, EmptySeq, LenProperties

LEMMA InitMatch == Init => FutureIsEmpty /\ MatchOK
<1> SUFFICES ASSUME Init PROVE FutureIsEmpty /\ MatchOK
  OBVIOUS
<1>1. FutureIsEmpty /\ pc = "gone"
  BY DEF Init, FutureIsEmpty
<1>2. Quiet
  BY EmptyElems DEF Init, Quiet, NoJobIn
<1>3. QED
  BY <1>1, <1>2 DEF MatchOK

LEMMA FutureStep ==
  ASSUME MatchInv, [Next]_vars
  PROVE  FutureIsEmpty'
<1>1. CASE SpawnTurn \/ SpawnResume
  <2>1. turn' = turn + 1 /\ up' = up /\ turn \in Nat
    BY <1>1, ExchangeAssumption DEF MatchInv, CallInv, TypeOK, SpawnTurn, SpawnResume, Connect
  <2>2. \A t \in Turns : t > turn' => t > turn
    BY <2>1 DEF Turns
  <2>3. QED
    BY <2>1, <2>2 DEF MatchInv, FutureIsEmpty
<1>2. CASE SendJob \/ WriteResult
  <2>1. turn' = turn /\ turn \in Turns /\ \A t \in Turns \ {turn} : up'[t] = up[t]
    BY <1>2 DEF MatchInv, CallInv, TypeOK, WorkerHasATurn, SendJob, WriteResult, Exit
  <2>2. QED
    BY <2>1, ExchangeAssumption DEF MatchInv, FutureIsEmpty, Turns
<1>3. CASE Resolve \/ ShortOnTime \/ ToolLoop \/ GiveUp \/ Killed
  BY <1>3 DEF MatchInv, FutureIsEmpty, Resolve, ShortOnTime, ToolLoop, ReadFailure, ReadText,
              ReadTooMany, ReadFree, ReadRisky, Read, GiveUp, Killed, Exit, hubVars
<1>4. ASSUME NEW t \in Turns, RouteResult(t) \/ RouteJob(t) PROVE FutureIsEmpty'
  <2>1. turn' = turn /\ up[t] # << >> /\ \A u \in Turns \ {t} : up'[u] = up[u]
    BY <1>4 DEF MatchInv, CallInv, TypeOK, RouteResult, RouteJob, workerVars
  <2>2. ~(t > turn)
    BY <2>1 DEF MatchInv, FutureIsEmpty
  <2>3. QED
    BY <2>1, <2>2 DEF MatchInv, FutureIsEmpty
<1>5. ASSUME NEW t \in Turns, Close(t) PROVE FutureIsEmpty'
  BY <1>5 DEF MatchInv, FutureIsEmpty, Close, workerVars
<1>6. CASE RouteCompletion \/ Broker \/ BrokerDrops
  BY <1>6 DEF MatchInv, FutureIsEmpty, RouteCompletion, Broker, TakeJob, Chain, ProviderAnswers,
              ProviderHiccups, ProviderFails, BrokerReconnects, BrokerDrops, workerVars, hubVars
<1>7. CASE Core \/ UNCHANGED vars
  BY <1>7 DEF MatchInv, FutureIsEmpty, Core, Tap, ResumeFails, RowExpires, vars, workerVars, hubVars
<1>8. QED
  BY <1>1, <1>2, <1>3, <1>4, <1>5, <1>6, <1>7 DEF Next, Worker, Hub, Done

\* A worker is forked into silence.
LEMMA ConnectMatch ==
  ASSUME MatchInv, gaveUp = {}, Connect, pc' # "wait"
  PROVE  Quiet'
<1>1. Quiet /\ up' = up /\ turn' \in Turns /\ turn' > turn
  BY ConnectCalls DEF MatchInv, CallInv, TypeOK, MatchOK, Connect, Turns
<1>2. up'[turn'] = << >>
  BY <1>1 DEF MatchInv, FutureIsEmpty
<1>3. QED
  BY <1>1, <1>2 DEF Quiet, NoJobIn, Connect, brokerVars

LEMMA SendJobMatch ==
  ASSUME MatchInv, gaveUp = {}, SendJob
  PROVE  OneAfoot'
<1> DEFINE f == [turn |-> turn, round |-> round, convo |-> convo]
<1>1. Quiet /\ turn \in Turns /\ up[turn] = << >> /\ IsMine(f)
  BY DEF MatchInv, CallInv, WorkerHasATurn, MatchOK, Quiet, SendJob, IsMine
<1>2. f \in Frame
  BY <1>1 DEF MatchInv, CallInv, TypeOK, Frame, Job
<1>3. up' = [up EXCEPT ![turn] = Append(@, f)]
  BY DEF SendJob
<1> HIDE DEF f
<1>4. /\ Len(up'[turn]) = 1 /\ Elems(up'[turn]) = {f}
      /\ \A t \in Turns \ {turn} : up'[t] = up[t]
  <2>1. up \in [Turns -> Seq(Frame)] /\ << >> \in Seq(Frame) /\ Len(<< >>) = 0
    BY EmptySeq DEF MatchInv, CallInv, TypeOK
  <2>3. Len(up'[turn]) = 1 /\ Elems(up'[turn]) = {f}
    <3>1. up[turn] \in Seq(Frame) /\ Len(up[turn]) = 0 /\ Elems(up[turn]) = {}
      BY <1>1, <2>1, EmptyElems
    <3>2. /\ Elems(Append(up[turn], f)) = Elems(up[turn]) \cup {f}
          /\ Len(Append(up[turn], f)) = Len(up[turn]) + 1
      BY <1>2, <3>1, AppendElems
    <3>3. up'[turn] = Append(up[turn], f)
      BY <1>1, <1>3, <2>1
    <3>4. QED
      BY <3>1, <3>2, <3>3
  <2>4. QED
    BY <1>3, <2>1, <2>3
<1>5. /\ jobs' = << >> /\ serving' = << >> /\ answers' = << >> /\ mail' = << >>
      /\ turn' = turn /\ round' = round
  BY <1>1 DEF Quiet, SendJob, brokerVars
<1>6. Len(up'[turn']) + Len(jobs') + Len(serving') + Len(answers') + Len(mail') <= 1
  <2>1. Len(jobs') = 0 /\ Len(serving') = 0 /\ Len(answers') = 0 /\ Len(mail') = 0
    BY <1>5, EmptySeq
  <2>2. Len(up'[turn']) = 1
    BY <1>4, <1>5
  <2>3. QED
    BY <2>1, <2>2
<1>7. \A t \in Turns : \A g \in Elems(up'[t]) : g \in Job => t = turn /\ g = f
  BY <1>1, <1>4 DEF Quiet, NoJobIn
<1>8. QED
  BY <1>1, <1>5, <1>6, <1>7, EmptyElems DEF OneAfoot, IsMine

\* A worker that reads its answer is waiting for no other.
LEMMA ReadMatch ==
  ASSUME MatchInv, gaveUp = {}, Read, pc' # "gone"
  PROVE  Quiet'
<1>1. OneAfoot /\ turn \in Turns /\ mail # << >> /\ mail' = Tail(mail) /\ turn' = turn /\ up' = up
  BY DEF MatchInv, CallInv, WorkerHasATurn, MatchOK, Read
<1>2. Len(mail) \in Nat \ {0} /\ Len(mail') = Len(mail) - 1 /\ mail' \in Seq(Completion)
  BY <1>1, TailElems DEF MatchInv, CallInv, TypeOK
<1>3. Len(up[turn]) = 0 /\ Len(jobs) = 0 /\ Len(serving) = 0 /\ Len(answers) = 0 /\ Len(mail') = 0
  BY <1>1, <1>2, Lengths DEF MatchInv, OneAfoot
<1>4. /\ up[turn] = << >> /\ jobs = << >> /\ serving = << >> /\ answers = << >> /\ mail' = << >>
  BY <1>1, <1>2, <1>3, Lengths, EmptySeq DEF MatchInv
<1>5. \A t \in Turns : NoJobIn(up[t])
  BY <1>1, <1>4, EmptyElems DEF OneAfoot, NoJobIn
<1>6. QED
  BY <1>1, <1>4, <1>5 DEF Quiet, NoJobIn, Read, brokerVars

LEMMA WriteResultMatch ==
  ASSUME MatchInv, gaveUp = {}, WriteResult
  PROVE  Quiet'
<1>1. Quiet /\ pc' = "gone" /\ up' = [up EXCEPT ![turn] = Append(@, report[1])]
  BY DEF MatchInv, MatchOK, WriteResult, Exit
<1>2. report[1] \in Frame /\ report[1] \notin Job
  <2>1. report \in Seq(Result) /\ Len(report) = 1
    BY DEF MatchInv, CallInv, TypeOK, ReportReady, WriteResult
  <2>2. report[1] \in Result
    BY <2>1, ElementOfSeq
  <2>3. QED
    BY <2>2, JobIsNoResult DEF Frame
<1>3. \A t \in Turns : NoJobIn(up'[t])
  <2>1. turn \in Turns /\ up \in [Turns -> Seq(Frame)]
    BY DEF MatchInv, CallInv, TypeOK, WorkerHasATurn, WriteResult
  <2>2. Elems(up'[turn]) = Elems(up[turn]) \cup {report[1]} /\ \A t \in Turns \ {turn} : up'[t] = up[t]
    BY <1>1, <1>2, <2>1, AppendElems
  <2>3. QED
    BY <1>1, <1>2, <2>2 DEF Quiet, NoJobIn
<1>4. QED
  BY <1>1, <1>3 DEF Quiet, NoJobIn, WriteResult, Exit, brokerVars

LEMMA WorkerMatch ==
  ASSUME MatchInv, Worker \/ Killed
  PROVE  MatchOK'
<1> SUFFICES ASSUME gaveUp' = {} PROVE (pc' = "wait" => OneAfoot') /\ (pc' # "wait" => Quiet')
  BY DEF MatchOK
<1>1. CASE Resolve \/ ShortOnTime
  <2>1. gaveUp = {} /\ pc # "wait" /\ pc # "gone" /\ pc' # "wait" /\ Quiet
    BY <1>1 DEF MatchInv, MatchOK, Resolve, ShortOnTime, Reporting, auditVars
  <2>2. QED
    BY <1>1, <2>1 DEF Quiet, NoJobIn, Resolve, ShortOnTime, hubVars, brokerVars
<1>2. CASE SendJob
  BY <1>2, SendJobMatch DEF SendJob, auditVars
<1>3. CASE ToolLoop
  <2>1. Read /\ pc' # "wait" /\ pc' # "gone"
    BY <1>3 DEF ToolLoop, ReadFailure, ReadText, ReadTooMany, ReadFree, ReadRisky, Reporting
  <2>2. gaveUp = {}
    BY <2>1 DEF Read, auditVars
  <2>3. QED
    BY <2>1, <2>2, ReadMatch
<1>4. CASE GiveUp
  BY <1>4 DEF GiveUp
<1>5. CASE WriteResult
  BY <1>5, WriteResultMatch DEF WriteResult, Exit
<1>6. CASE Killed
  <2>1. gaveUp = {} /\ pc # "wait" /\ pc' = "gone" /\ Quiet
    BY <1>6 DEF MatchInv, MatchOK, Killed, Exit
  <2>2. QED
    BY <1>6, <2>1 DEF Quiet, NoJobIn, Killed, Exit, brokerVars
<1>7. QED
  BY <1>1, <1>2, <1>3, <1>4, <1>5, <1>6 DEF Worker

\* A Result leaves a stream: what is left of it holds no Job it did not hold.
LEMMA RouteResultMatch ==
  ASSUME MatchInv, gaveUp = {}, NEW t \in Turns, RouteResult(t)
  PROVE  (pc' = "wait" => OneAfoot') /\ (pc' # "wait" => Quiet')
<1>1. /\ Elems(up'[t]) \subseteq Elems(up[t]) /\ Len(up'[t]) = Len(up[t]) - 1 /\ Len(up[t]) \in Nat
      /\ \A u \in Turns \ {t} : up'[u] = up[u]
  BY TailElems DEF MatchInv, CallInv, TypeOK, RouteResult
<1>2. /\ turn' = turn /\ pc' = pc /\ round' = round /\ jobs' = jobs /\ serving' = serving
      /\ answers' = answers /\ mail' = mail /\ up[t] # << >>
  BY DEF RouteResult, workerVars, brokerVars
<1>3. CASE pc = "wait"
  <2>1. OneAfoot /\ turn \in Turns
    BY <1>3 DEF MatchInv, MatchOK, CallInv, WorkerHasATurn
  <2>2. Len(up'[turn]) <= Len(up[turn]) /\ Len(up'[turn]) \in Int
    BY <1>1, <2>1, Lengths DEF MatchInv
  <2>3. Len(up'[turn]) + Len(jobs) + Len(serving) + Len(answers) + Len(mail) <= 1
    BY <2>1, <2>2, Lengths DEF MatchInv, OneAfoot
  <2>4. \A u \in Turns : \A f \in Elems(up'[u]) : f \in Job => u = turn /\ IsMine(f)
    BY <1>1, <2>1 DEF OneAfoot
  <2>5. QED
    BY <1>2, <1>3, <2>1, <2>3, <2>4 DEF OneAfoot, IsMine
<1>4. CASE pc # "wait"
  <2>1. Quiet
    BY <1>4 DEF MatchInv, MatchOK
  <2>2. \A u \in Turns : NoJobIn(up'[u])
    BY <1>1, <2>1 DEF Quiet, NoJobIn
  <2>3. pc # "gone" => up'[turn] = << >>
    BY <1>1, <1>2, <2>1 DEF Quiet, MatchInv, CallInv, WorkerHasATurn
  <2>4. QED
    BY <1>2, <1>4, <2>1, <2>2, <2>3 DEF Quiet, NoJobIn
<1>5. QED
  BY <1>3, <1>4

LEMMA RouteJobMatch ==
  ASSUME MatchInv, gaveUp = {}, NEW t \in Turns, RouteJob(t)
  PROVE  (pc' = "wait" => OneAfoot') /\ (pc' # "wait" => Quiet')
<1> DEFINE j == Head(up[t])
<1>1. /\ Elems(up'[t]) \subseteq Elems(up[t]) /\ Len(up'[t]) = Len(up[t]) - 1 /\ Len(up[t]) \in Nat
      /\ \A u \in Turns \ {t} : up'[u] = up[u]
      /\ j \in Elems(up[t]) /\ j \in Job
  BY TailElems DEF MatchInv, CallInv, TypeOK, RouteJob
<1>2. /\ turn' = turn /\ pc' = pc /\ round' = round /\ serving' = serving
      /\ answers' = answers /\ mail' = mail
      /\ jobs' = IF brokerUp THEN Append(jobs, j) ELSE jobs
  BY DEF RouteJob, workerVars
<1> HIDE DEF j
<1>3. pc = "wait" /\ OneAfoot /\ t = turn /\ IsMine(j)
  BY <1>1 DEF MatchInv, MatchOK, Quiet, NoJobIn, OneAfoot
<1>4. Len(jobs') <= Len(jobs) + 1 /\ Len(jobs') \in Nat /\ Elems(jobs') \subseteq Elems(jobs) \cup {j}
  <2>1. jobs \in Seq(Job)
    BY DEF MatchInv, CallInv, TypeOK
  <2>2. QED
    BY <1>1, <1>2, <2>1, AppendElems, LenProperties
<1>5. Len(up'[turn]) + Len(jobs') + Len(serving) + Len(answers) + Len(mail) <= 1
  BY <1>1, <1>3, <1>4, Lengths DEF MatchInv, OneAfoot
<1>6. \A u \in Turns : \A f \in Elems(up'[u]) : f \in Job => u = turn /\ IsMine(f)
  BY <1>1, <1>3 DEF OneAfoot
<1>7. \A f \in Elems(jobs') : IsMine(f)
  BY <1>3, <1>4 DEF OneAfoot
<1>8. QED
  BY <1>2, <1>3, <1>5, <1>6, <1>7 DEF OneAfoot, IsMine

\* From here on nothing of the worker moves: what is under way is handed on.
LEMMA HandedOn ==
  ASSUME MatchInv, gaveUp = {}, pc = "wait", UNCHANGED <<workerVars, up>>,
         Len(jobs') + Len(serving') + Len(answers') + Len(mail')
           <= Len(jobs) + Len(serving) + Len(answers) + Len(mail),
         Len(jobs') \in Nat, Len(serving') \in Nat, Len(answers') \in Nat, Len(mail') \in Nat,
         \A j \in Elems(jobs') : IsMine(j), \A s \in Elems(serving') : IsMine(s.job),
         \A a \in Elems(answers') : IsMine(a), \A a \in Elems(mail') : IsMine(a)
  PROVE  OneAfoot'
<1>1. OneAfoot /\ turn' = turn /\ round' = round /\ up' = up /\ turn \in Turns
  BY DEF MatchInv, MatchOK, CallInv, WorkerHasATurn, workerVars
<1>2. Len(up[turn]) + Len(jobs') + Len(serving') + Len(answers') + Len(mail') <= 1
  BY <1>1, Lengths DEF MatchInv, OneAfoot
<1>3. QED
  BY <1>1, <1>2 DEF OneAfoot, IsMine

LEMMA RouteCompletionMatch ==
  ASSUME MatchInv, gaveUp = {}, RouteCompletion
  PROVE  (pc' = "wait" => OneAfoot') /\ (pc' # "wait" => Quiet')
<1> DEFINE a == Head(answers)
<1>1. pc = "wait" /\ OneAfoot /\ pc' = pc
  BY DEF MatchInv, MatchOK, Quiet, RouteCompletion, workerVars
<1>2. /\ a \in Completion /\ a \in Elems(answers) /\ Elems(answers') \subseteq Elems(answers)
      /\ Len(answers') = Len(answers) - 1 /\ Len(answers) \in Nat \ {0}
  BY TailElems DEF MatchInv, CallInv, TypeOK, RouteCompletion
<1>3. mail' = Append(mail, a) \/ mail' = mail
  BY DEF RouteCompletion
<1> HIDE DEF a
<1>4. Elems(mail') \subseteq Elems(mail) \cup {a} /\ Len(mail') <= Len(mail) + 1 /\ Len(mail') \in Nat
  <2>1. mail \in Seq(Completion)
    BY DEF MatchInv, CallInv, TypeOK
  <2>2. QED
    <3>1. /\ Elems(Append(mail, a)) = Elems(mail) \cup {a}
          /\ Len(Append(mail, a)) = Len(mail) + 1 /\ Len(mail) \in Nat
      BY <1>2, <2>1, AppendElems
    <3>2. CASE mail' = Append(mail, a)
      BY <3>1, <3>2
    <3>3. CASE mail' = mail
      BY <3>1, <3>3
    <3>4. QED
      BY <1>3, <3>2, <3>3
<1>5. UNCHANGED <<workerVars, up>> /\ jobs' = jobs /\ serving' = serving
  BY DEF RouteCompletion
<1>6. Len(jobs') + Len(serving') + Len(answers') + Len(mail')
           <= Len(jobs) + Len(serving) + Len(answers) + Len(mail)
  BY <1>2, <1>4, <1>5, Lengths DEF MatchInv
<1>7. OneAfoot'
  BY <1>1, <1>2, <1>4, <1>5, <1>6, Lengths, HandedOn DEF MatchInv, OneAfoot
<1>8. QED
  BY <1>1, <1>7

LEMMA TakeJobMatch ==
  ASSUME MatchInv, gaveUp = {}, TakeJob
  PROVE  (pc' = "wait" => OneAfoot') /\ (pc' # "wait" => Quiet')
<1> DEFINE s == [job |-> Head(jobs), provider |-> 1, attempt |-> 1]
<1>1. pc = "wait" /\ OneAfoot /\ pc' = pc
  BY DEF MatchInv, MatchOK, Quiet, TakeJob, workerVars
<1>2. /\ s.job \in Elems(jobs) /\ Elems(jobs') \subseteq Elems(jobs)
      /\ Len(jobs') = Len(jobs) - 1 /\ Len(jobs) \in Nat \ {0} /\ Head(jobs) \in Job
  BY TailElems DEF MatchInv, CallInv, TypeOK, TakeJob
<1>3. serving' = << s >> /\ serving = << >>
  BY DEF TakeJob
<1>4. s \in Serving
  BY <1>2, ExchangeAssumption DEF Serving
<1> HIDE DEF s
<1>5. Len(serving') = 1 /\ Elems(serving') = {s} /\ Len(serving) = 0
  BY <1>3, <1>4, OneElem, EmptySeq
<1>6. UNCHANGED <<workerVars, up>> /\ answers' = answers /\ mail' = mail
  BY DEF TakeJob, hubVars
<1>7. Len(jobs') + Len(serving') + Len(answers') + Len(mail')
           <= Len(jobs) + Len(serving) + Len(answers) + Len(mail)
  BY <1>2, <1>5, <1>6, Lengths DEF MatchInv
<1>8. OneAfoot'
  BY <1>1, <1>2, <1>5, <1>6, <1>7, Lengths, HandedOn DEF MatchInv, OneAfoot
<1>9. QED
  BY <1>1, <1>8

\* The Job in hand is done, and its answer written or lost.
LEMMA AnsweredMatch ==
  ASSUME MatchInv, gaveUp = {}, serving # << >>, serving' = << >>,
         NEW ok \in BOOLEAN, NEW calls \in Seq(Call), Reply(ok, calls),
         UNCHANGED <<workerVars, up, mail, jobs>>
  PROVE  (pc' = "wait" => OneAfoot') /\ (pc' # "wait" => Quiet')
<1> DEFINE a == [turn |-> serving[1].job.turn, round |-> serving[1].job.round, ok |-> ok,
                 calls |-> calls]
<1>1. pc = "wait" /\ OneAfoot /\ pc' = pc
  BY DEF MatchInv, MatchOK, Quiet, workerVars
<1>2. serving \in Seq(Serving) /\ answers \in Seq(Completion) /\ TypeOK
  BY DEF MatchInv, CallInv, TypeOK
<1>3. serving[1] \in Elems(serving) /\ Len(serving) \in Nat \ {0}
  BY <1>2, TailElems
<1>4. a \in Completion
  BY <1>2, ServingTyped DEF Completion
<1>5. IsMine(a)
  BY <1>1, <1>3 DEF OneAfoot, IsMine
<1>6. answers' = Append(answers, a) \/ answers' = answers
  BY DEF Reply
<1> HIDE DEF a
<1>7. Elems(answers') \subseteq Elems(answers) \cup {a} /\ Len(answers') <= Len(answers) + 1
      /\ Len(answers') \in Nat
  <2>1. /\ Elems(Append(answers, a)) = Elems(answers) \cup {a}
        /\ Len(Append(answers, a)) = Len(answers) + 1 /\ Len(answers) \in Nat
    BY <1>2, <1>4, AppendElems
  <2>2. CASE answers' = Append(answers, a)
    BY <2>1, <2>2
  <2>3. CASE answers' = answers
    BY <2>1, <2>3
  <2>4. QED
    BY <1>6, <2>2, <2>3
<1>8. Len(serving') = 0 /\ Elems(serving') = {} /\ jobs' = jobs /\ mail' = mail
  BY EmptySeq, EmptyElems
<1>9. Len(jobs') + Len(serving') + Len(answers') + Len(mail')
           <= Len(jobs) + Len(serving) + Len(answers) + Len(mail)
  BY <1>3, <1>7, <1>8, Lengths DEF MatchInv
<1>10. OneAfoot'
  BY <1>1, <1>5, <1>7, <1>8, <1>9, Lengths, HandedOn DEF MatchInv, OneAfoot
<1>11. QED
  BY <1>1, <1>10

\* The chain goes on with the Job in hand.
LEMMA GoesOnMatch ==
  ASSUME MatchInv, gaveUp = {}, serving # << >>, NEW s \in Serving, s.job = serving[1].job,
         serving' = << s >>, UNCHANGED <<workerVars, up, mail, jobs, answers>>
  PROVE  (pc' = "wait" => OneAfoot') /\ (pc' # "wait" => Quiet')
<1>1. pc = "wait" /\ OneAfoot /\ pc' = pc
  BY DEF MatchInv, MatchOK, Quiet, workerVars
<1>2. serving[1] \in Elems(serving) /\ Len(serving) \in Nat \ {0}
  BY TailElems DEF MatchInv, CallInv, TypeOK
<1>3. Len(serving') = 1 /\ Elems(serving') = {s}
  BY OneElem
<1>4. jobs' = jobs /\ mail' = mail /\ answers' = answers
  OBVIOUS
<1>5. Len(jobs') + Len(serving') + Len(answers') + Len(mail')
           <= Len(jobs) + Len(serving) + Len(answers) + Len(mail)
  BY <1>2, <1>3, <1>4, Lengths DEF MatchInv
<1>6. IsMine(s.job)
  BY <1>1, <1>2 DEF OneAfoot, IsMine
<1>7. OneAfoot'
  BY <1>1, <1>3, <1>4, <1>5, <1>6, Lengths, HandedOn DEF MatchInv, OneAfoot
<1>8. QED
  BY <1>1, <1>7

LEMMA ChainMatch ==
  ASSUME MatchInv, gaveUp = {}, Chain
  PROVE  (pc' = "wait" => OneAfoot') /\ (pc' # "wait" => Quiet')
<1>1. serving # << >> /\ TypeOK /\ UNCHANGED <<workerVars, up, mail, jobs>>
  BY DEF MatchInv, CallInv, Chain, ProviderAnswers, ProviderHiccups, ProviderFails, hubVars
<1>2. CASE ProviderAnswers
  <2>1. PICK calls : Reply(TRUE, calls) /\ calls \in Seq(Call)
    <3>1. PICK tiers \in Replies :
            Reply(TRUE, [i \in DOMAIN tiers |->
              [turn |-> serving[1].job.turn, round |-> serving[1].job.round, pos |-> i,
               tier |-> tiers[i]]])
      BY <1>2 DEF ProviderAnswers
    <3>2. QED
      BY <1>1, <3>1, CallsTyped
  <2>2. QED
    BY <1>1, <1>2, <2>1, AnsweredMatch DEF ProviderAnswers, JobIsDone
<1>3. CASE ProviderHiccups
  <2> DEFINE s == [serving[1] EXCEPT !.attempt = 2]
  <2>1. s \in Serving /\ s.job = serving[1].job /\ serving' = << s >> /\ answers' = answers
    BY <1>1, <1>3, ServingTyped DEF Serving, ProviderHiccups
  <2> HIDE DEF s
  <2>2. QED
    BY <1>1, <2>1, GoesOnMatch
<1>4. CASE ProviderFails
  <2>1. CASE serving[1].provider < Providers
    <3> DEFINE s == [serving[1] EXCEPT !.provider = @ + 1, !.attempt = 1]
    <3>1. serving[1] \in Serving /\ serving[1].provider + 1 \in 1 .. Providers /\ 1 \in 1 .. 2
      BY <1>1, <2>1, ServingTyped, ExchangeAssumption
    <3>2. s \in Serving /\ s.job = serving[1].job
      BY <3>1 DEF Serving
    <3>3. serving' = << s >> /\ answers' = answers
      BY <1>4, <2>1 DEF ProviderFails, FallBack
    <3> HIDE DEF s
    <3>4. QED
      BY <1>1, <3>2, <3>3, GoesOnMatch
  <2>2. CASE ~(serving[1].provider < Providers)
    <3>1. serving' = << >> /\ Reply(FALSE, << >>) /\ << >> \in Seq(Call) /\ FALSE \in BOOLEAN
      BY <1>4, <2>2, EmptySeq DEF ProviderFails, FallBack, JobIsDone
    <3>2. QED
      BY <1>1, <3>1, AnsweredMatch
  <2>3. QED
    BY <2>1, <2>2
<1>5. QED
  BY <1>2, <1>3, <1>4 DEF Chain

LEMMA DropsMatch ==
  ASSUME MatchInv, gaveUp = {}, BrokerDrops
  PROVE  (pc' = "wait" => OneAfoot') /\ (pc' # "wait" => Quiet')
<1>1. /\ jobs' \in Seq(Job) /\ Elems(jobs') \subseteq Elems(jobs) /\ Len(jobs') \in Nat
      /\ Elems(answers') \subseteq Elems(answers) /\ Len(answers') \in Nat
      /\ Len(jobs') <= Len(jobs) /\ Len(answers') <= Len(answers) /\ answers' \in Seq(Completion)
  BY DropsPrefixes DEF MatchInv
<1>2. serving' = serving /\ UNCHANGED <<workerVars, up>> /\ mail' = mail
  BY DEF BrokerDrops, hubVars
<1>3. CASE pc = "wait"
  <2>1. OneAfoot
    BY <1>3 DEF MatchInv, MatchOK
  <2>2. Len(jobs') + Len(serving') + Len(answers') + Len(mail')
           <= Len(jobs) + Len(serving) + Len(answers) + Len(mail)
    BY <1>1, <1>2, Lengths DEF MatchInv
  <2>3. OneAfoot'
    BY <1>1, <1>2, <1>3, <2>1, <2>2, Lengths, HandedOn DEF MatchInv, OneAfoot
  <2>4. QED
    BY <1>2, <1>3, <2>3 DEF workerVars
<1>4. CASE pc # "wait"
  <2>1. Quiet
    BY <1>4 DEF MatchInv, MatchOK
  <2>2. jobs' = << >> /\ answers' = << >>
    <3>1. Len(jobs') = 0 /\ Len(answers') = 0
      BY <1>1, <2>1, EmptySeq DEF Quiet
    <3>2. QED
      BY <1>1, <3>1, EmptySeq
  <2>3. QED
    BY <1>2, <1>4, <2>1, <2>2 DEF Quiet, NoJobIn, workerVars
<1>5. QED
  BY <1>3, <1>4

LEMMA ReconnectsMatch ==
  ASSUME MatchInv, gaveUp = {}, BrokerReconnects
  PROVE  (pc' = "wait" => OneAfoot') /\ (pc' # "wait" => Quiet')
<1>1. /\ jobs' = << >> /\ serving' = serving /\ answers' = answers /\ mail' = mail
      /\ UNCHANGED <<workerVars, up>>
  BY DEF BrokerReconnects, hubVars
<1>2. Len(jobs') = 0 /\ Elems(jobs') = {}
  BY <1>1, EmptySeq, EmptyElems
<1>3. CASE pc = "wait"
  <2>1. OneAfoot
    BY <1>3 DEF MatchInv, MatchOK
  <2>2. Len(jobs') + Len(serving') + Len(answers') + Len(mail')
           <= Len(jobs) + Len(serving) + Len(answers) + Len(mail)
    BY <1>1, <1>2, Lengths DEF MatchInv
  <2>3. OneAfoot'
    BY <1>1, <1>2, <1>3, <2>1, <2>2, Lengths, HandedOn DEF MatchInv, OneAfoot
  <2>4. QED
    BY <1>1, <1>3, <2>3 DEF workerVars
<1>4. CASE pc # "wait"
  BY <1>1, <1>4 DEF MatchInv, MatchOK, Quiet, NoJobIn, workerVars
<1>5. QED
  BY <1>3, <1>4

\* What is under way does not depend on the registry.
LEMMA SameMatch ==
  ASSUME MatchInv, gaveUp = {},
         UNCHANGED <<turn, pc, round, up, jobs, serving, answers, mail>>
  PROVE  (pc' = "wait" => OneAfoot') /\ (pc' # "wait" => Quiet')
  BY DEF MatchInv, MatchOK, OneAfoot, IsMine, Quiet, NoJobIn

LEMMA MatchStep ==
  ASSUME MatchInv, [Next]_vars
  PROVE  MatchOK'
<1>1. CASE Worker \/ Killed
  BY <1>1, WorkerMatch
<1> SUFFICES ASSUME ~(Worker \/ Killed), gaveUp' = {}
             PROVE  (pc' = "wait" => OneAfoot') /\ (pc' # "wait" => Quiet')
  BY <1>1 DEF MatchOK
<1>2. CASE SpawnTurn \/ SpawnResume
  <2>1. Connect /\ gaveUp = {} /\ pc' # "wait"
    BY <1>2 DEF SpawnTurn, SpawnResume, Connect, auditVars
  <2>2. QED
    BY <2>1, ConnectMatch
<1>3. CASE Hub
  <2>1. gaveUp = {}
    BY <1>3 DEF Hub, RouteCompletion, RouteResult, RouteJob, Close, auditVars
  <2>2. ASSUME NEW t \in Turns, Close(t)
        PROVE  (pc' = "wait" => OneAfoot') /\ (pc' # "wait" => Quiet')
    BY <2>1, <2>2, SameMatch DEF Close, workerVars, brokerVars
  <2>3. QED
    BY <1>3, <2>1, <2>2, RouteCompletionMatch, RouteResultMatch, RouteJobMatch DEF Hub
<1>4. CASE TakeJob \/ Chain \/ BrokerDrops
  <2>1. gaveUp = {}
    BY <1>4 DEF TakeJob, Chain, ProviderAnswers, ProviderHiccups, ProviderFails, BrokerDrops, auditVars
  <2>2. QED
    BY <1>4, <2>1, TakeJobMatch, ChainMatch, DropsMatch
<1>5. CASE Core \/ UNCHANGED vars
  BY <1>5, SameMatch
     DEF Core, Tap, ResumeFails, RowExpires, vars, workerVars, hubVars, brokerVars, auditVars
<1>6. CASE BrokerReconnects
  <2>1. gaveUp = {}
    BY <1>6 DEF BrokerReconnects, auditVars
  <2>2. QED
    BY <1>6, <2>1, ReconnectsMatch
<1>7. QED
  BY <1>2, <1>3, <1>4, <1>5, <1>6 DEF Next, Broker, Done

\* As long as no worker has given up, a completion reaches only the worker that asked
\* for it, in the iteration that asked.
THEOREM MatchSafe == Spec => []AnswersMatchUntilAGiveUp
<1>1. Init => MatchInv
  BY InitCalls, InitMatch DEF MatchInv
<1>2. MatchInv /\ [Next]_vars => MatchInv'
  BY CallInvStep, FutureStep, MatchStep DEF MatchInv
<1>3. MatchInv => AnswersMatchUntilAGiveUp
  <2> SUFFICES ASSUME MatchInv, gaveUp = {}, NEW i \in DOMAIN mail
               PROVE  mail[i].turn = turn /\ mail[i].round = round
    BY DEF AnswersMatchUntilAGiveUp
  <2>1. mail \in Seq(Completion)
    BY DEF MatchInv, CallInv, TypeOK
  <2>2. mail[i] \in Elems(mail) /\ mail # << >>
    BY <2>1, LenProperties, EmptySeq DEF Elems
  <2>3. OneAfoot
    BY <2>2 DEF MatchInv, MatchOK, Quiet
  <2>4. QED
    BY <2>2, <2>3 DEF OneAfoot, IsMine
<1>4. QED
  BY <1>1, <1>2, <1>3, PTL DEF Spec

-------------------------------------------------------------------------------
(* What a turn costs: its Jobs are served in the order of their rounds, and *)
(* each is charged for its own round only.                                  *)

PerJob == 2 * Providers

\* What the Jobs of all rounds before r may cost.
Cost(r) == PerJob * r

\* The calls made for the Job in hand.
Used(s) == 2 * (s.provider - 1) + (s.attempt - 1)

\* Of two Jobs of one turn, f asks in an earlier round than g.
Precedes(f, g) == (f \in Job /\ g \in Job /\ f.turn = g.turn) => f.round < g.round

Ordered(q) == \A i, k \in 1 .. Len(q) : i < k => Precedes(q[i], q[k])

OwnFrames == \A t \in Turns : \A f \in Elems(up[t]) : f \in Job => f.turn = t

UpInOrder == \A t \in Turns : Ordered(up[t])
JobsInOrder == Ordered(jobs)
JobsBeforeUp == \A j \in Elems(jobs), t \in Turns : \A f \in Elems(up[t]) : Precedes(j, f)
ServingFirst ==
  \A s \in Elems(serving) :
    /\ \A j \in Elems(jobs) : Precedes(s.job, j)
    /\ \A t \in Turns : \A f \in Elems(up[t]) : Precedes(s.job, f)

InOrder == OwnFrames /\ UpInOrder /\ JobsInOrder /\ JobsBeforeUp /\ ServingFirst

\* No Job is of a turn, or of a round of this turn, that has not begun to ask.
Known(f) ==
  f \in Job =>
    /\ f.turn <= turn /\ f.round <= MaxTools
    /\ f.turn = turn /\ pc \in {"resolve", "ask"} => f.round < round
    /\ f.turn = turn /\ pc = "wait" => f.round <= round

AllKnown ==
  /\ \A t \in Turns : \A f \in Elems(up[t]) : Known(f)
  /\ \A j \in Elems(jobs) : Known(j)
  /\ \A s \in Elems(serving) : Known(s.job)

\* Up to the Job, its turn has been charged for earlier rounds only.
Covered(f) == f \in Job => spent[f.turn] <= Cost(f.round)

AllCovered ==
  /\ \A t \in Turns : \A f \in Elems(up[t]) : Covered(f)
  /\ \A j \in Elems(jobs) : Covered(j)
  /\ \A s \in Elems(serving) : spent[s.job.turn] <= Cost(s.job.round) + Used(s)

TurnsCovered ==
  /\ pc \in {"resolve", "ask"} => spent[turn] <= Cost(round)
  /\ pc = "wait" => spent[turn] <= Cost(round + 1)
  /\ \A t \in Turns : spent[t] <= Cost(MaxTools + 1)
  /\ \A t \in Turns : t > turn => spent[t] = 0

SpendInv == CallInv /\ InOrder /\ AllKnown /\ AllCovered /\ TurnsCovered

\* The arithmetic of it.
LEMMA CostSteps ==
  /\ PerJob \in Nat \ {0}
  /\ Cost(0) = 0
  /\ \A r \in Nat : Cost(r) \in Nat /\ Cost(r + 1) = Cost(r) + PerJob
  /\ \A a, b \in Nat : a < b => Cost(a + 1) <= Cost(b)
<1>1. PerJob \in Nat \ {0}
  BY ExchangeAssumption DEF PerJob
<1>2. ASSUME NEW k \in Nat, NEW r \in Nat
      PROVE  k * r \in Nat /\ k * (r + 1) = k * r + k
  OBVIOUS
<1>3. \A r \in Nat : Cost(r) \in Nat /\ Cost(r + 1) = Cost(r) + PerJob
  BY <1>1, <1>2 DEF Cost
<1>4. ASSUME NEW a \in Nat, NEW b \in Nat, a < b PROVE Cost(a + 1) <= Cost(b)
  <2>1. PICK d \in Nat : b = (a + 1) + d
    <3>1. b - (a + 1) \in Nat /\ b = (a + 1) + (b - (a + 1))
      BY <1>4
    <3>2. QED
      BY <3>1
  <2>2. ASSUME NEW k \in Nat, NEW r \in Nat, NEW e \in Nat
        PROVE  k * (r + e) = k * r + k * e /\ k * e \in Nat /\ k * r \in Nat
    OBVIOUS
  <2>3. PerJob * ((a + 1) + d) = PerJob * (a + 1) + PerJob * d /\ PerJob * d \in Nat
        /\ PerJob * (a + 1) \in Nat
    BY <1>1, <2>2
  <2>4. QED
    BY <2>1, <2>3 DEF Cost
<1>5. Cost(0) = 0
  <2>1. \A k \in Nat : k * 0 = 0
    OBVIOUS
  <2>2. QED
    BY <1>1, <2>1 DEF Cost
<1>6. QED
  BY <1>1, <1>3, <1>4, <1>5

LEMMA CostIsNat ==
  ASSUME NEW r \in Nat
  PROVE  Cost(r) \in Nat
  BY CostSteps

LEMMA CostGrows ==
  ASSUME NEW a \in Nat, NEW b \in Nat, a < b
  PROVE  Cost(a + 1) <= Cost(b)
  BY CostSteps

LEMMA UsedIsNat ==
  ASSUME NEW s, s.provider \in Nat \ {0}, s.attempt \in Nat \ {0}
  PROVE  Used(s) \in Nat
<1>1. \A p, a \in Nat \ {0} : 2 * (p - 1) + (a - 1) \in Nat
  OBVIOUS
<1>2. QED
  BY <1>1 DEF Used

LEMMA OrderedTail ==
  ASSUME NEW S, NEW q \in Seq(S), q # << >>, Ordered(q)
  PROVE  Ordered(Tail(q)) /\ \A f \in Elems(Tail(q)) : Precedes(Head(q), f)
<1>1. /\ Head(q) = q[1] /\ Len(q) \in Nat \ {0} /\ Len(Tail(q)) = Len(q) - 1
      /\ \A i \in 1 .. Len(q) - 1 : Tail(q)[i] = q[i + 1]
  BY TailElems
<1>2. ASSUME NEW i \in 1 .. Len(Tail(q)), NEW k \in 1 .. Len(Tail(q)), i < k
      PROVE  Precedes(Tail(q)[i], Tail(q)[k])
  <2>1. i + 1 \in 1 .. Len(q) /\ k + 1 \in 1 .. Len(q) /\ i + 1 < k + 1
    BY <1>1, <1>2
  <2>2. Tail(q)[i] = q[i + 1] /\ Tail(q)[k] = q[k + 1]
    BY <1>1
  <2>3. QED
    BY <2>1, <2>2 DEF Ordered
<1>3. ASSUME NEW f \in Elems(Tail(q)) PROVE Precedes(Head(q), f)
  <2>1. PICK i \in 1 .. Len(Tail(q)) : f = Tail(q)[i]
    BY DEF Elems
  <2>2. 1 \in 1 .. Len(q) /\ i + 1 \in 1 .. Len(q) /\ 1 < i + 1 /\ f = q[i + 1]
    BY <1>1, <2>1
  <2>3. QED
    BY <1>1, <2>2 DEF Ordered
<1>4. QED
  BY <1>2, <1>3 DEF Ordered

LEMMA OrderedAppend ==
  ASSUME NEW S, NEW q \in Seq(S), NEW e \in S, Ordered(q), \A f \in Elems(q) : Precedes(f, e)
  PROVE  Ordered(Append(q, e))
<1> DEFINE a == Append(q, e)
<1>1. /\ Len(q) \in Nat /\ Len(a) = Len(q) + 1
      /\ \A i \in 1 .. Len(q) : a[i] = q[i]
      /\ a[Len(q) + 1] = e
  BY AppendElems
<1> HIDE DEF a
<1>2. ASSUME NEW i \in 1 .. Len(a), NEW k \in 1 .. Len(a), i < k PROVE Precedes(a[i], a[k])
  <2>1. i \in 1 .. Len(q) /\ a[i] = q[i] /\ q[i] \in Elems(q)
    BY <1>1, <1>2 DEF Elems
  <2>2. CASE k \in 1 .. Len(q)
    BY <1>1, <1>2, <2>1, <2>2 DEF Ordered
  <2>3. CASE k = Len(q) + 1
    BY <1>1, <2>1, <2>3
  <2>4. QED
    BY <1>1, <2>2, <2>3
<1>3. QED
  BY <1>2 DEF Ordered, a

LEMMA InitSpend == Init => SpendInv
<1> SUFFICES ASSUME Init PROVE SpendInv
  OBVIOUS
<1>1. Len(<< >>) = 0 /\ \A t \in Turns : up[t] = << >>
  BY EmptySeq DEF Init
<1>2. Ordered(<< >>)
  BY <1>1 DEF Ordered
<1>3. InOrder
  BY <1>1, <1>2, EmptyElems
     DEF Init, InOrder, OwnFrames, UpInOrder, JobsInOrder, JobsBeforeUp, ServingFirst
<1>4. AllKnown /\ AllCovered
  BY <1>1, EmptyElems DEF Init, AllKnown, AllCovered
<1>5. TurnsCovered
  <2>1. MaxTools + 1 \in Nat
    BY ExchangeAssumption
  <2>2. Cost(MaxTools + 1) \in Nat
    BY <2>1, CostIsNat
  <2>3. QED
    BY <2>2 DEF Init, TurnsCovered
<1>6. QED
  BY <1>3, <1>4, <1>5, InitCalls DEF SpendInv

\* Frames and Jobs have turns and rounds.
LEMMA JobTyped == \A f \in Job : f.turn \in Turns /\ f.round \in Nat
  BY DEF Job

\* What is spent is a number.
LEMMA SpentTyped == CallInv => \A t \in Turns : spent[t] \in Nat
  BY DEF CallInv, TypeOK

\* A step that moves no frame and spends nothing keeps the order.
LEMMA SameOrder ==
  ASSUME InOrder, UNCHANGED <<up, jobs, serving>>
  PROVE  InOrder'
  BY DEF InOrder, OwnFrames, UpInOrder, JobsInOrder, JobsBeforeUp, ServingFirst, Ordered, Precedes,
         Elems

LEMMA SameCovered ==
  ASSUME AllCovered, UNCHANGED <<up, jobs, serving, spent>>
  PROVE  AllCovered'
  BY DEF AllCovered, Covered, Elems, Used

\* A new worker has asked nothing, and nothing was spent for it.
LEMMA ConnectSpend ==
  ASSUME SpendInv, Connect, pc' \in {"resolve", "ask"}
  PROVE  InOrder' /\ AllKnown' /\ AllCovered' /\ TurnsCovered'
<1>1. UNCHANGED <<up, jobs, serving, spent>> /\ turn' = turn + 1 /\ round' = 0 /\ turn \in Nat
  BY ExchangeAssumption DEF SpendInv, CallInv, TypeOK, Connect, brokerVars, auditVars
<1>2. InOrder' /\ AllCovered'
  BY <1>1, SameOrder, SameCovered DEF SpendInv
<1>3. ASSUME NEW f, Known(f) PROVE Known(f)'
  <2> SUFFICES ASSUME f \in Job
               PROVE  f.turn <= turn' /\ f.round <= MaxTools /\ f.turn # turn'
    BY DEF Known
  <2>1. f.turn \in Nat /\ f.turn <= turn /\ f.round <= MaxTools
    BY <1>3, JobTyped DEF Known, Turns
  <2>2. QED
    BY <1>1, <2>1
<1>4. AllKnown'
  BY <1>1, <1>3 DEF SpendInv, AllKnown
<1>5. TurnsCovered'
  <2>1. turn' \in Turns
    BY ConnectCalls DEF SpendInv
  <2>2. spent[turn'] = 0 /\ spent' = spent
    BY <1>1, <2>1 DEF SpendInv, TurnsCovered
  <2>3. \A t \in Turns : t > turn' => t > turn
    BY <1>1 DEF Turns
  <2>4. QED
    BY <1>1, <2>2, <2>3, CostSteps DEF SpendInv, TurnsCovered
<1>6. QED
  BY <1>2, <1>4, <1>5

\* A step of the worker that asks for nothing more than it has asked for.
LEMMA WorkerSpend ==
  ASSUME SpendInv, UNCHANGED <<turn, up, jobs, serving, spent>>,
         \/ pc' \in {"report", "gone"}
         \/ pc = "resolve" /\ pc' = "ask" /\ round' = round
         \/ pc = "wait" /\ pc' = "ask" /\ round' = round + 1
         \/ pc' = pc /\ round' = round
  PROVE  InOrder' /\ AllKnown' /\ AllCovered' /\ TurnsCovered'
<1>1. InOrder' /\ AllCovered'
  BY SameOrder, SameCovered DEF SpendInv
<1>2. round \in Nat
  BY ExchangeAssumption DEF SpendInv, CallInv, TypeOK
<1>3. ASSUME NEW f, Known(f) PROVE Known(f)'
  <2>1. CASE pc = "wait" /\ pc' = "ask" /\ round' = round + 1
    BY <1>2, <1>3, <2>1, JobTyped DEF Known
  <2>2. CASE ~(pc = "wait" /\ pc' = "ask" /\ round' = round + 1)
    BY <1>3, <2>2 DEF Known
  <2>3. QED
    BY <2>1, <2>2
<1>4. AllKnown'
  BY <1>3 DEF SpendInv, AllKnown
<1>5. TurnsCovered'
  BY DEF SpendInv, TurnsCovered
<1>6. QED
  BY <1>1, <1>4, <1>5

LEMMA SendJobSpend ==
  ASSUME SpendInv, SendJob
  PROVE  InOrder' /\ AllKnown' /\ AllCovered' /\ TurnsCovered'
<1>0. PICK f : f = [turn |-> turn, round |-> round, convo |-> convo]
  OBVIOUS
<1>1. /\ turn \in Turns /\ round \in Nat /\ round <= MaxTools /\ f \in Job /\ f \in Frame
      /\ f.turn = turn /\ f.round = round /\ pc = "ask"
  BY <1>0, ExchangeAssumption DEF SpendInv, CallInv, TypeOK, WorkerHasATurn, SendJob, Job, Frame
<1>2. up' = [up EXCEPT ![turn] = Append(@, f)]
  BY <1>0 DEF SendJob
<1>3. /\ up[turn] \in Seq(Frame) /\ up'[turn] = Append(up[turn], f)
      /\ Elems(up'[turn]) = Elems(up[turn]) \cup {f}
      /\ \A t \in Turns \ {turn} : up'[t] = up[t]
  <2>1. up \in [Turns -> Seq(Frame)]
    BY DEF SpendInv, CallInv, TypeOK
  <2>2. QED
    BY <1>1, <1>2, <2>1, AppendElems
<1>4. /\ turn' = turn /\ round' = round /\ pc' = "wait" /\ jobs' = jobs /\ serving' = serving
      /\ spent' = spent
  BY DEF SendJob, brokerVars, auditVars
<1>5. ASSUME NEW g, Known(g) PROVE Precedes(g, f)
  BY <1>1, <1>5 DEF Known, Precedes
<1>6. ASSUME NEW t \in Turns, NEW g \in Elems(up'[t]) PROVE g \in Elems(up[t]) \/ (t = turn /\ g = f)
  BY <1>3
<1>7. OwnFrames'
  BY <1>1, <1>6 DEF SpendInv, InOrder, OwnFrames
<1>8. UpInOrder'
  <2>1. \A g \in Elems(up[turn]) : Precedes(g, f)
    BY <1>1, <1>5 DEF SpendInv, AllKnown
  <2>2. Ordered(up[turn])
    BY <1>1 DEF SpendInv, InOrder, UpInOrder
  <2>3. Ordered(up'[turn])
    BY <1>1, <1>3, <2>1, <2>2, OrderedAppend
  <2>4. QED
    BY <1>3, <2>3 DEF SpendInv, InOrder, UpInOrder
<1>9. JobsInOrder' /\ JobsBeforeUp'
  <2>1. \A j \in Elems(jobs) : Precedes(j, f)
    BY <1>5 DEF SpendInv, AllKnown
  <2>2. QED
    BY <1>4, <1>6, <2>1 DEF SpendInv, InOrder, JobsInOrder, JobsBeforeUp
<1>10. ServingFirst'
  <2>1. \A s \in Elems(serving) : Precedes(s.job, f)
    BY <1>5 DEF SpendInv, AllKnown
  <2>2. QED
    BY <1>4, <1>6, <2>1 DEF SpendInv, InOrder, ServingFirst
<1>11. AllKnown'
  <2>1. ASSUME NEW g, Known(g) PROVE Known(g)'
    <3>1. g \in Job => g.round \in Nat
      BY JobTyped
    <3>2. QED
      BY <1>1, <1>4, <2>1, <3>1 DEF Known
  <2>2. Known(f)'
    BY <1>1, <1>4 DEF Known, Turns
  <2>3. QED
    BY <1>4, <1>6, <2>1, <2>2 DEF SpendInv, AllKnown
<1>12. AllCovered'
  <2>1. Covered(f)
    BY <1>1 DEF SpendInv, TurnsCovered, Covered
  <2>2. QED
    BY <1>4, <1>6, <2>1 DEF SpendInv, AllCovered, Covered
<1>13. TurnsCovered'
  <2>1. spent[turn] <= Cost(round) /\ Cost(round) <= Cost(round + 1)
    BY <1>1, CostSteps DEF SpendInv, TurnsCovered
  <2>2. spent[turn] \in Nat /\ Cost(round) \in Nat /\ Cost(round + 1) \in Nat
    BY <1>1, SpentTyped, CostSteps DEF SpendInv
  <2>3. spent[turn] <= Cost(round + 1)
    BY <2>1, <2>2
  <2>4. QED
    BY <1>4, <2>3 DEF SpendInv, TurnsCovered
<1>14. QED
  BY <1>7, <1>8, <1>9, <1>10, <1>11, <1>12, <1>13 DEF InOrder

LEMMA WriteResultSpend ==
  ASSUME SpendInv, WriteResult
  PROVE  InOrder' /\ AllKnown' /\ AllCovered' /\ TurnsCovered'
<1>0. PICK r : r = report[1]
  OBVIOUS
<1>1. r \in Frame /\ r \notin Job /\ turn \in Turns
  <2>1. report \in Seq(Result) /\ Len(report) = 1
    BY DEF SpendInv, CallInv, TypeOK, ReportReady, WriteResult
  <2>2. report[1] \in Result
    BY <2>1, ElementOfSeq
  <2>3. QED
    BY <1>0, <2>2, JobIsNoResult DEF Frame, SpendInv, CallInv, WorkerHasATurn, WriteResult
<1>2. up' = [up EXCEPT ![turn] = Append(@, r)]
  BY <1>0 DEF WriteResult
<1>3. /\ up[turn] \in Seq(Frame) /\ up'[turn] = Append(up[turn], r)
      /\ Elems(up'[turn]) = Elems(up[turn]) \cup {r}
      /\ \A t \in Turns \ {turn} : up'[t] = up[t]
  <2>1. up \in [Turns -> Seq(Frame)]
    BY DEF SpendInv, CallInv, TypeOK
  <2>2. QED
    BY <1>1, <1>2, <2>1, AppendElems
<1>4. /\ turn' = turn /\ pc' = "gone" /\ jobs' = jobs /\ serving' = serving
      /\ spent' = spent
  BY DEF WriteResult, Exit, brokerVars
<1>5. \A g : Precedes(g, r)
  BY <1>1 DEF Precedes
<1>6. ASSUME NEW t \in Turns, NEW g \in Elems(up'[t]) PROVE g \in Elems(up[t]) \/ g = r
  BY <1>3
<1>7. OwnFrames' /\ JobsInOrder' /\ JobsBeforeUp' /\ ServingFirst'
  BY <1>1, <1>4, <1>5, <1>6
     DEF SpendInv, InOrder, OwnFrames, JobsInOrder, JobsBeforeUp, ServingFirst
<1>8. UpInOrder'
  <2>1. Ordered(up[turn])
    BY <1>1 DEF SpendInv, InOrder, UpInOrder
  <2>2. Ordered(up'[turn])
    BY <1>1, <1>3, <1>5, <2>1, OrderedAppend
  <2>3. QED
    BY <1>3, <2>2 DEF SpendInv, InOrder, UpInOrder
<1>9. AllKnown'
  <2>1. ASSUME NEW g, Known(g) PROVE Known(g)'
    BY <1>4, <2>1 DEF Known
  <2>2. Known(r)'
    BY <1>1 DEF Known
  <2>3. QED
    BY <1>4, <1>6, <2>1, <2>2 DEF SpendInv, AllKnown
<1>10. AllCovered'
  BY <1>1, <1>4, <1>6 DEF SpendInv, AllCovered, Covered
<1>11. TurnsCovered'
  BY <1>4 DEF SpendInv, TurnsCovered
<1>12. QED
  BY <1>7, <1>8, <1>9, <1>10, <1>11 DEF InOrder

\* The hub reads a frame: the rest of its stream stays in order and behind it.
LEMMA FrameLeaves ==
  ASSUME SpendInv, NEW t \in Turns, up[t] # << >>, up' = [up EXCEPT ![t] = Tail(@)]
  PROVE  /\ Head(up[t]) \in Elems(up[t]) /\ Head(up[t]) \in Frame
         /\ \A u \in Turns : Elems(up'[u]) \subseteq Elems(up[u])
         /\ UpInOrder'
         /\ \A f \in Elems(up'[t]) : Precedes(Head(up[t]), f)
<1>1. up \in [Turns -> Seq(Frame)] /\ Ordered(up[t])
  BY DEF SpendInv, CallInv, TypeOK, InOrder, UpInOrder
<1>2. /\ Head(up[t]) \in Elems(up[t]) /\ Head(up[t]) \in Frame
      /\ Elems(Tail(up[t])) \subseteq Elems(up[t])
      /\ Ordered(Tail(up[t])) /\ \A f \in Elems(Tail(up[t])) : Precedes(Head(up[t]), f)
  <2>1. up[t] \in Seq(Frame)
    BY <1>1
  <2>2. QED
    BY <1>1, <2>1, TailElems, OrderedTail
<1>3. up'[t] = Tail(up[t]) /\ \A u \in Turns \ {t} : up'[u] = up[u]
  BY <1>1
<1>4. QED
  BY <1>2, <1>3 DEF SpendInv, InOrder, UpInOrder

\* The worker does not move and nothing is spent: what was known and covered stays so.
LEMMA HubSpend ==
  ASSUME SpendInv, UNCHANGED <<turn, pc, round, spent>>,
         \A u \in Turns : Elems(up'[u]) \subseteq Elems(up[u]),
         \A j \in Elems(jobs') : Known(j) /\ Covered(j),
         \A s \in Elems(serving') : Known(s.job) /\ spent[s.job.turn] <= Cost(s.job.round) + Used(s)
  PROVE  AllKnown' /\ AllCovered' /\ TurnsCovered' /\ OwnFrames'
<1>1. \A f : Known(f) => Known(f)'
  BY DEF Known
<1>2. AllKnown'
  BY <1>1 DEF SpendInv, AllKnown
<1>3. AllCovered' /\ OwnFrames'
  BY DEF SpendInv, AllCovered, Covered, InOrder, OwnFrames
<1>4. TurnsCovered'
  BY DEF SpendInv, TurnsCovered
<1>5. QED
  BY <1>2, <1>3, <1>4

LEMMA RouteResultSpend ==
  ASSUME SpendInv, NEW t \in Turns, RouteResult(t)
  PROVE  InOrder' /\ AllKnown' /\ AllCovered' /\ TurnsCovered'
<1>1. /\ \A u \in Turns : Elems(up'[u]) \subseteq Elems(up[u])
      /\ UpInOrder'
  BY FrameLeaves DEF RouteResult
<1>2. UNCHANGED <<turn, pc, round, spent, jobs, serving>>
  BY DEF RouteResult, workerVars, brokerVars, auditVars
<1>3. AllKnown' /\ AllCovered' /\ TurnsCovered' /\ OwnFrames'
  BY <1>1, <1>2, HubSpend DEF SpendInv, AllKnown, AllCovered
<1>4. JobsInOrder' /\ JobsBeforeUp' /\ ServingFirst'
  BY <1>1, <1>2 DEF SpendInv, InOrder, JobsInOrder, JobsBeforeUp, ServingFirst
<1>5. QED
  BY <1>1, <1>3, <1>4 DEF InOrder

LEMMA RouteJobSpend ==
  ASSUME SpendInv, NEW t \in Turns, RouteJob(t)
  PROVE  InOrder' /\ AllKnown' /\ AllCovered' /\ TurnsCovered'
<1> DEFINE j == Head(up[t])
<1>1. /\ j \in Elems(up[t]) /\ j \in Job
      /\ \A u \in Turns : Elems(up'[u]) \subseteq Elems(up[u])
      /\ UpInOrder'
      /\ \A f \in Elems(up'[t]) : Precedes(j, f)
  BY FrameLeaves DEF RouteJob
<1>2. UNCHANGED <<turn, pc, round, spent, serving>> /\ jobs' = IF brokerUp THEN Append(jobs, j) ELSE jobs
  BY DEF RouteJob, workerVars, auditVars
<1> HIDE DEF j
<1>3. \A i \in Elems(jobs) : Precedes(i, j)
  BY <1>1 DEF SpendInv, InOrder, JobsBeforeUp
<1>4. JobsInOrder' /\ Elems(jobs') \subseteq Elems(jobs) \cup {j}
  <2>1. jobs \in Seq(Job) /\ Ordered(jobs)
    BY DEF SpendInv, CallInv, TypeOK, InOrder, JobsInOrder
  <2>2. Ordered(Append(jobs, j)) /\ Elems(Append(jobs, j)) = Elems(jobs) \cup {j}
    BY <1>1, <1>3, <2>1, OrderedAppend, AppendElems
  <2>3. CASE jobs' = Append(jobs, j)
    BY <2>2, <2>3 DEF JobsInOrder
  <2>4. CASE jobs' = jobs
    BY <2>1, <2>4 DEF JobsInOrder
  <2>5. QED
    BY <1>2, <2>3, <2>4
<1>5. JobsBeforeUp'
  <2>1. ASSUME NEW u \in Turns, NEW f \in Elems(up'[u]) PROVE Precedes(j, f)
    <3>1. CASE u = t
      BY <1>1, <2>1, <3>1
    <3>2. CASE u # t
      <4>1. f \in Job => f.turn = u
        BY <1>1, <2>1 DEF SpendInv, InOrder, OwnFrames
      <4>2. j.turn = t
        BY <1>1 DEF SpendInv, InOrder, OwnFrames
      <4>3. QED
        BY <3>2, <4>1, <4>2 DEF Precedes
    <3>3. QED
      BY <3>1, <3>2
  <2>2. QED
    BY <1>1, <1>4, <2>1 DEF SpendInv, InOrder, JobsBeforeUp
<1>6. ServingFirst'
  <2>1. \A s \in Elems(serving) : Precedes(s.job, j)
    BY <1>1 DEF SpendInv, InOrder, ServingFirst
  <2>2. QED
    BY <1>1, <1>2, <1>4, <2>1 DEF SpendInv, InOrder, ServingFirst
<1>7. AllKnown' /\ AllCovered' /\ TurnsCovered' /\ OwnFrames'
  <2>1. Known(j) /\ Covered(j)
    BY <1>1 DEF SpendInv, AllKnown, AllCovered
  <2>2. \A i \in Elems(jobs') : Known(i) /\ Covered(i)
    BY <1>4, <2>1 DEF SpendInv, AllKnown, AllCovered
  <2>3. \A s \in Elems(serving') : Known(s.job) /\ spent[s.job.turn] <= Cost(s.job.round) + Used(s)
    BY <1>2 DEF SpendInv, AllKnown, AllCovered
  <2>4. QED
    BY <1>1, <1>2, <2>2, <2>3, HubSpend
<1>8. QED
  BY <1>1, <1>4, <1>5, <1>6, <1>7 DEF InOrder

LEMMA TakeJobSpend ==
  ASSUME SpendInv, TakeJob
  PROVE  InOrder' /\ AllKnown' /\ AllCovered' /\ TurnsCovered'
<1> DEFINE s == [job |-> Head(jobs), provider |-> 1, attempt |-> 1]
<1>1. /\ Head(jobs) \in Elems(jobs) /\ Head(jobs) \in Job /\ Elems(jobs') \subseteq Elems(jobs)
      /\ JobsInOrder' /\ \A j \in Elems(jobs') : Precedes(Head(jobs), j)
  <2>1. jobs \in Seq(Job) /\ jobs # << >> /\ Ordered(jobs) /\ jobs' = Tail(jobs)
    BY DEF SpendInv, CallInv, TypeOK, InOrder, JobsInOrder, TakeJob
  <2>2. /\ Head(jobs) \in Elems(jobs) /\ Head(jobs) \in Job /\ Elems(Tail(jobs)) \subseteq Elems(jobs)
        /\ Ordered(Tail(jobs)) /\ \A j \in Elems(Tail(jobs)) : Precedes(Head(jobs), j)
    BY <2>1, TailElems, OrderedTail
  <2>3. QED
    BY <2>1, <2>2 DEF JobsInOrder
<1>2. s.job = Head(jobs) /\ Used(s) = 0 /\ s \in Serving
  BY <1>1, ExchangeAssumption DEF Used, Serving
<1>3. serving' = << s >> /\ UNCHANGED <<turn, pc, round, spent, up>>
  BY DEF TakeJob, workerVars, hubVars, auditVars
<1> HIDE DEF s
<1>4. Elems(serving') = {s}
  BY <1>2, <1>3, OneElem
<1>5. UpInOrder' /\ JobsBeforeUp'
  BY <1>1, <1>3 DEF SpendInv, InOrder, UpInOrder, JobsBeforeUp
<1>6. ServingFirst'
  BY <1>1, <1>2, <1>3, <1>4 DEF SpendInv, InOrder, JobsBeforeUp, ServingFirst
<1>7. AllKnown' /\ AllCovered' /\ TurnsCovered' /\ OwnFrames'
  <2>1. Known(s.job) /\ spent[s.job.turn] <= Cost(s.job.round)
    BY <1>1, <1>2 DEF SpendInv, AllKnown, AllCovered, Covered
  <2>2. Cost(s.job.round) + Used(s) = Cost(s.job.round)
    <3>1. s.job.round \in Nat
      BY <1>1, <1>2, JobTyped
    <3>2. Cost(s.job.round) \in Nat
      BY <3>1, CostIsNat
    <3>3. QED
      BY <1>2, <3>2
  <2>3. \A x \in Elems(serving') : Known(x.job) /\ spent[x.job.turn] <= Cost(x.job.round) + Used(x)
    BY <1>4, <2>1, <2>2
  <2>4. \A j \in Elems(jobs') : Known(j) /\ Covered(j)
    BY <1>1 DEF SpendInv, AllKnown, AllCovered
  <2>5. QED
    BY <1>3, <2>3, <2>4, HubSpend
<1>8. QED
  BY <1>1, <1>5, <1>6, <1>7 DEF InOrder

\* A call to a provider is charged to the Job in hand, for its own round: nobody
\* who asks in a later round is the poorer for it.
LEMMA BilledSpend ==
  ASSUME SpendInv, serving # << >>, Billed, UNCHANGED <<turn, pc, round, up, jobs>>
  PROVE  /\ spent'[serving[1].job.turn] <= Cost(serving[1].job.round) + Used(serving[1]) + 1
         /\ \A t \in Turns : \A f \in Elems(up'[t]) : Covered(f)'
         /\ \A j \in Elems(jobs') : Covered(j)'
         /\ TurnsCovered'
<1> DEFINE s == serving[1]
           t == s.job.turn
           r == s.job.round
<1>1. /\ s \in Elems(serving) /\ s.job \in Job /\ t \in Turns /\ r \in Nat
      /\ s.provider \in 1 .. Providers /\ s.attempt \in 1 .. 2
  <2>1. serving \in Seq(Serving) /\ TypeOK
    BY DEF SpendInv, CallInv, TypeOK
  <2>2. serving[1] \in Elems(serving)
    BY <2>1, TailElems
  <2>3. QED
    BY <2>1, <2>2, ServingTyped
<1>2. Used(s) \in Nat /\ Used(s) + 1 <= PerJob
  BY <1>1, ExchangeAssumption DEF Used, PerJob
<1>3. Known(s.job) /\ spent[t] <= Cost(r) + Used(s)
  BY <1>1 DEF SpendInv, AllKnown, AllCovered
<1>4. /\ spent' \in [Turns -> Nat] /\ spent'[t] <= spent[t] + 1
      /\ \A u \in Turns \ {t} : spent'[u] = spent[u]
  <2>1. spent \in [Turns -> Nat]
    BY DEF SpendInv, CallInv, TypeOK
  <2>2. QED
    BY <1>1, <2>1 DEF Billed
<1>5. spent[t] \in Nat /\ spent'[t] \in Nat
  BY <1>1, <1>4, SpentTyped DEF SpendInv
<1> HIDE DEF s, t, r
<1>6. spent'[t] <= Cost(r) + Used(s) + 1 /\ spent'[t] <= Cost(r + 1)
  <2>1. Cost(r) \in Nat /\ Cost(r + 1) = Cost(r) + PerJob /\ PerJob \in Nat
    BY <1>1, CostSteps
  <2>2. QED
    BY <1>2, <1>3, <1>4, <1>5, <2>1
<1>7. ASSUME NEW b \in Nat, r < b PROVE spent'[t] <= Cost(b)
  <2>0. r + 1 \in Nat
    BY <1>1
  <2>1. Cost(r + 1) <= Cost(b) /\ Cost(b) \in Nat /\ Cost(r + 1) \in Nat
    BY <1>1, <1>7, <2>0, CostIsNat, CostGrows
  <2>2. QED
    BY <1>5, <1>6, <2>1
<1>8. ASSUME NEW f, Covered(f), Precedes(s.job, f) PROVE Covered(f)'
  <2> SUFFICES ASSUME f \in Job PROVE spent'[f.turn] <= Cost(f.round)
    BY DEF Covered
  <2>1. f.turn \in Turns /\ f.round \in Nat
    BY JobTyped
  <2>2. CASE f.turn = t
    BY <1>1, <1>7, <1>8, <2>1, <2>2 DEF Precedes, t, r
  <2>3. CASE f.turn # t
    BY <1>4, <1>8, <2>1, <2>3 DEF Covered
  <2>4. QED
    BY <2>2, <2>3
<1>9. /\ \A u \in Turns : \A f \in Elems(up'[u]) : Covered(f)'
      /\ \A j \in Elems(jobs') : Covered(j)'
  BY <1>1, <1>8 DEF SpendInv, InOrder, ServingFirst, AllCovered
<1>10. TurnsCovered'
  <2>1. turn \in 0 .. MaxTurns /\ round \in Nat /\ MaxTools \in Nat /\ turn \in Nat
    BY ExchangeAssumption DEF SpendInv, CallInv, TypeOK
  <2>2. t <= turn /\ r < MaxTools + 1 /\ t \in Nat
    BY <1>1, <1>3, <2>1 DEF Known, t, r, Turns
  <2>3. pc \in {"resolve", "ask", "wait"} => turn \in Turns
    BY DEF SpendInv, CallInv, WorkerHasATurn
  <2>4. pc \in {"resolve", "ask"} => spent'[turn] <= Cost(round)
    <3> SUFFICES ASSUME pc \in {"resolve", "ask"} PROVE spent'[turn] <= Cost(round)
      OBVIOUS
    <3>1. CASE t = turn
      <4>1. r < round
        BY <1>1, <1>3, <3>1 DEF Known, t, r
      <4>2. QED
        BY <1>7, <2>1, <3>1, <4>1
    <3>2. CASE t # turn
      BY <1>4, <2>3, <3>2 DEF SpendInv, TurnsCovered
    <3>3. QED
      BY <3>1, <3>2
  <2>5. pc = "wait" => spent'[turn] <= Cost(round + 1)
    <3> SUFFICES ASSUME pc = "wait" PROVE spent'[turn] <= Cost(round + 1)
      OBVIOUS
    <3>1. CASE t = turn
      <4>1. r <= round
        BY <1>1, <1>3, <3>1 DEF Known, t, r
      <4>2. r < round + 1 /\ round + 1 \in Nat
        BY <1>1, <2>1, <4>1
      <4>3. QED
        BY <1>7, <3>1, <4>2
    <3>2. CASE t # turn
      BY <1>4, <2>3, <3>2 DEF SpendInv, TurnsCovered
    <3>3. QED
      BY <3>1, <3>2
  <2>6. \A u \in Turns : spent'[u] <= Cost(MaxTools + 1)
    <3>1. spent'[t] <= Cost(MaxTools + 1)
      BY <1>7, <2>1, <2>2
    <3>2. QED
      BY <1>4, <3>1 DEF SpendInv, TurnsCovered
  <2>7. \A u \in Turns : u > turn => spent'[u] = 0
    <3>1. ~(t > turn)
      BY <2>1, <2>2
    <3>2. QED
      BY <1>4, <3>1 DEF SpendInv, TurnsCovered
  <2>8. QED
    BY <2>4, <2>5, <2>6, <2>7 DEF TurnsCovered
<1>11. QED
  BY <1>6, <1>9, <1>10 DEF s, t, r

\* The Job in hand goes on, further on in the chain.
LEMMA GoesOnSpend ==
  ASSUME SpendInv, serving # << >>, Billed, UNCHANGED <<turn, pc, round, up, jobs>>,
         NEW s \in Serving, s.job = serving[1].job, Used(serving[1]) + 1 <= Used(s),
         serving' = << s >>
  PROVE  InOrder' /\ AllKnown' /\ AllCovered' /\ TurnsCovered'
<1>1. /\ serving[1] \in Elems(serving) /\ TypeOK
  BY TailElems DEF SpendInv, CallInv, TypeOK
<1>2. Elems(serving') = {s}
  BY OneElem
<1>3. OwnFrames' /\ UpInOrder' /\ JobsInOrder' /\ JobsBeforeUp'
  BY DEF SpendInv, InOrder, OwnFrames, UpInOrder, JobsInOrder, JobsBeforeUp
<1>4. ServingFirst'
  BY <1>1, <1>2 DEF SpendInv, InOrder, ServingFirst
<1>5. AllKnown'
  BY <1>1, <1>2 DEF SpendInv, AllKnown, Known
<1>6. /\ spent'[s.job.turn] <= Cost(s.job.round) + Used(serving[1]) + 1
      /\ \A t \in Turns : \A f \in Elems(up'[t]) : Covered(f)'
      /\ \A j \in Elems(jobs') : Covered(j)'
      /\ TurnsCovered'
  BY BilledSpend
<1>7. spent'[s.job.turn] <= Cost(s.job.round) + Used(s)
  <2>1. s.job.turn \in Turns /\ s.job.round \in Nat /\ serving[1].provider \in 1 .. Providers
        /\ serving[1].attempt \in 1 .. 2
    BY <1>1, ServingTyped
  <2>2. spent'[s.job.turn] \in Nat
    BY <1>1, <2>1, BilledTyped
  <2>3. Used(serving[1]) \in Nat /\ Used(s) \in Int
    <3>1. s.provider \in Nat \ {0} /\ s.attempt \in Nat \ {0}
      BY ExchangeAssumption DEF Serving
    <3>2. serving[1].provider \in Nat \ {0} /\ serving[1].attempt \in Nat \ {0}
      BY <2>1, ExchangeAssumption
    <3>3. QED
      BY <3>1, <3>2, UsedIsNat
  <2>4. Cost(s.job.round) \in Nat
    BY <2>1, CostSteps
  <2>5. QED
    BY <1>6, <2>2, <2>3, <2>4
<1>8. AllCovered'
  BY <1>2, <1>6, <1>7 DEF AllCovered
<1>9. QED
  BY <1>3, <1>4, <1>5, <1>6, <1>8 DEF InOrder

\* The Job in hand is done.
LEMMA DoneSpend ==
  ASSUME SpendInv, serving # << >>, Billed, UNCHANGED <<turn, pc, round, up, jobs>>,
         serving' = << >>
  PROVE  InOrder' /\ AllKnown' /\ AllCovered' /\ TurnsCovered'
<1>1. Elems(serving') = {}
  BY EmptyElems
<1>2. InOrder'
  BY <1>1 DEF SpendInv, InOrder, OwnFrames, UpInOrder, JobsInOrder, JobsBeforeUp, ServingFirst
<1>3. AllKnown'
  BY <1>1 DEF SpendInv, AllKnown, Known
<1>4. AllCovered' /\ TurnsCovered'
  BY <1>1, BilledSpend DEF AllCovered
<1>5. QED
  BY <1>2, <1>3, <1>4

LEMMA ChainSpend ==
  ASSUME SpendInv, Chain
  PROVE  InOrder' /\ AllKnown' /\ AllCovered' /\ TurnsCovered'
<1>1. serving # << >> /\ TypeOK /\ Billed /\ UNCHANGED <<turn, pc, round, up, jobs>>
  BY DEF SpendInv, CallInv, Chain, ProviderAnswers, ProviderHiccups, ProviderFails, hubVars,
         workerVars
<1>2. /\ serving[1] \in Serving /\ serving[1].provider \in 1 .. Providers
      /\ serving[1].attempt \in 1 .. 2
  BY <1>1, ServingTyped
<1>3. CASE ProviderAnswers
  BY <1>1, <1>3, DoneSpend DEF ProviderAnswers, JobIsDone
<1>4. CASE ProviderHiccups
  <2> DEFINE s == [serving[1] EXCEPT !.attempt = 2]
  <2>1. s \in Serving /\ s.job = serving[1].job /\ serving' = << s >>
        /\ s.provider = serving[1].provider /\ s.attempt = 2 /\ serving[1].attempt < 2
    BY <1>2, <1>4 DEF Serving, ProviderHiccups, MayRetry
  <2> HIDE DEF s
  <2>2. Used(serving[1]) + 1 <= Used(s)
    BY <1>2, <2>1 DEF Used
  <2>3. QED
    BY <1>1, <2>1, <2>2, GoesOnSpend
<1>5. CASE ProviderFails /\ serving[1].provider < Providers
  <2> DEFINE s == [serving[1] EXCEPT !.provider = @ + 1, !.attempt = 1]
  <2>1. serving[1].provider + 1 \in 1 .. Providers /\ 1 \in 1 .. 2
    BY <1>2, <1>5, ExchangeAssumption
  <2>2. s \in Serving /\ s.job = serving[1].job
        /\ s.provider = serving[1].provider + 1 /\ s.attempt = 1
    BY <1>2, <2>1 DEF Serving
  <2>3. serving' = << s >>
    BY <1>5 DEF ProviderFails, FallBack
  <2> HIDE DEF s
  <2>4. Used(serving[1]) + 1 <= Used(s)
    BY <1>2, <2>2 DEF Used
  <2>5. QED
    BY <1>1, <2>2, <2>3, <2>4, GoesOnSpend
<1>6. CASE ProviderFails /\ ~(serving[1].provider < Providers)
  BY <1>1, <1>6, DoneSpend DEF ProviderFails, FallBack, JobIsDone
<1>7. QED
  BY <1>3, <1>4, <1>5, <1>6 DEF Chain

LEMMA DropsSpend ==
  ASSUME SpendInv, BrokerDrops \/ BrokerReconnects
  PROVE  InOrder' /\ AllKnown' /\ AllCovered' /\ TurnsCovered'
<1>1. UNCHANGED <<turn, pc, round, up, serving, spent>>
  BY DEF BrokerDrops, BrokerReconnects, workerVars, hubVars, auditVars
<1>2. Elems(jobs') \subseteq Elems(jobs) /\ Ordered(jobs')
  <2>1. CASE BrokerDrops
    <3>1. /\ Len(jobs') <= Len(jobs) /\ Len(jobs') \in Nat /\ Len(jobs) \in Nat
          /\ \A i \in 1 .. Len(jobs') : jobs'[i] = jobs[i]
          /\ Elems(jobs') \subseteq Elems(jobs)
      BY <2>1, DropsPrefixes, LenProperties DEF SpendInv, CallInv, TypeOK
    <3>2. \A i \in 1 .. Len(jobs') : i \in 1 .. Len(jobs)
      BY <3>1
    <3>3. QED
      BY <3>1, <3>2 DEF SpendInv, InOrder, JobsInOrder, Ordered
  <2>2. CASE BrokerReconnects
    <3>1. jobs' = << >> /\ Len(<< >>) = 0
      BY <2>2, EmptySeq DEF BrokerReconnects
    <3>2. QED
      BY <3>1, EmptyElems DEF Ordered
  <2>3. QED
    BY <2>1, <2>2
<1>3. InOrder'
  BY <1>1, <1>2 DEF SpendInv, InOrder, OwnFrames, UpInOrder, JobsInOrder, JobsBeforeUp, ServingFirst
<1>4. AllKnown' /\ AllCovered' /\ TurnsCovered'
  BY <1>1, <1>2, HubSpend DEF SpendInv, AllKnown, AllCovered
<1>5. QED
  BY <1>3, <1>4

LEMMA SpendStep ==
  ASSUME SpendInv, [Next]_vars
  PROVE  InOrder' /\ AllKnown' /\ AllCovered' /\ TurnsCovered'
<1>1. CASE SpawnTurn \/ SpawnResume
  BY <1>1, ConnectSpend DEF SpawnTurn, SpawnResume
<1>2. CASE SendJob
  BY <1>2, SendJobSpend
<1>3. CASE WriteResult
  BY <1>3, WriteResultSpend
<1>4. CASE Resolve \/ ShortOnTime \/ ToolLoop \/ GiveUp \/ Killed
  <2>1. UNCHANGED <<turn, up, jobs, serving, spent>>
    BY <1>4 DEF Resolve, ShortOnTime, ToolLoop, ReadFailure, ReadText, ReadTooMany, ReadFree,
                ReadRisky, Read, GiveUp, Killed, Exit, hubVars, brokerVars, auditVars
  <2>2. \/ pc' \in {"report", "gone"}
        \/ pc = "resolve" /\ pc' = "ask" /\ round' = round
        \/ pc = "wait" /\ pc' = "ask" /\ round' = round + 1
    BY <1>4 DEF Resolve, ShortOnTime, Reporting, ToolLoop, ReadFailure, ReadText, ReadTooMany,
                ReadFree, ReadRisky, Read, GiveUp, Killed, Exit
  <2>3. QED
    BY <2>1, <2>2, WorkerSpend
<1>5. ASSUME NEW t \in Turns, RouteResult(t) \/ RouteJob(t)
      PROVE  InOrder' /\ AllKnown' /\ AllCovered' /\ TurnsCovered'
  BY <1>5, RouteResultSpend, RouteJobSpend
<1>6. ASSUME \/ RouteCompletion \/ Core \/ UNCHANGED vars
             \/ \E t \in Turns : Close(t)
      PROVE  InOrder' /\ AllKnown' /\ AllCovered' /\ TurnsCovered'
  <2>1. UNCHANGED <<turn, pc, round, up, jobs, serving, spent>>
    BY <1>6 DEF RouteCompletion, Close, Core, Tap, ResumeFails, RowExpires, vars, workerVars,
                hubVars, brokerVars, auditVars
  <2>2. QED
    BY <2>1, WorkerSpend
<1>7. CASE TakeJob \/ Chain \/ BrokerDrops \/ BrokerReconnects
  BY <1>7, TakeJobSpend, ChainSpend, DropsSpend
<1>8. QED
  BY <1>1, <1>2, <1>3, <1>4, <1>5, <1>6, <1>7 DEF Next, Worker, Hub, Broker, Done

\* One turn costs at most two calls per provider and round, whatever fails and whoever dies.
THEOREM SpendSafe == Spec => []SpendIsBounded
<1>1. Init => SpendInv
  BY InitSpend
<1>2. SpendInv /\ [Next]_vars => SpendInv'
  BY CallInvStep, SpendStep DEF SpendInv
<1>3. SpendInv => SpendIsBounded
  <2>1. SpendBound = Cost(MaxTools + 1)
    BY DEF SpendBound, Cost, PerJob
  <2>2. QED
    BY <2>1 DEF SpendInv, TurnsCovered, SpendIsBounded
<1>4. QED
  BY <1>1, <1>2, <1>3, PTL DEF Spec

-------------------------------------------------------------------------------
(* One RISKY call, one execution.  A call is known by the Job it answers.   *)
(* From the Job over the question, the row, the core and the resumed worker *)
(* to the execution its key is handed on from place to place, and is never  *)
(* in two of them.                                                          *)

KeyOf(x) == <<x.turn, x.round>>
Keys == (0 .. MaxTurns) \X Nat

KeysOf(q) == {KeyOf(x) : x \in Elems(q)}
Distinct(q) == \A i, j \in 1 .. Len(q) : KeyOf(q[i]) = KeyOf(q[j]) => i = j

\* A frame that carries a key: a Job, or the call a Result asks the owner about.
Carries(f) == f \in Job \/ f.kind = "ask"
FrameKey(f) == IF f \in Job THEN KeyOf(f) ELSE KeyOf(f.call)

UpKeys      == {k \in Keys : \E t \in Turns : \E f \in Elems(up[t]) : Carries(f) /\ k = FrameKey(f)}
ServingKeys == {KeyOf(s.job) : s \in Elems(serving)}
ReportKeys  == {k \in Keys : pc = "report" /\ \E r \in Elems(report) : r.kind = "ask" /\ k = KeyOf(r.call)}
PausedKeys  == {KeyOf(paused[t].call) : t \in DOMAIN paused}
CallKeys(q) == {KeyOf(x.call) : x \in Elems(q)}

Places ==
  {"up", "jobs", "serving", "answers", "mail", "report", "paused", "resuming", "resume", "ran"}

\* The keys held at each place, in the order they pass through.
Held ==
  [p \in Places |->
     CASE p = "up"      -> UpKeys
       [] p = "jobs"    -> KeysOf(jobs)
       [] p = "serving" -> ServingKeys
       [] p = "answers" -> KeysOf(answers)
       [] p = "mail"    -> KeysOf(mail)
       [] p = "report"  -> ReportKeys
       [] p = "paused"  -> PausedKeys
       [] p = "resuming" -> CallKeys(resuming)
       [] p = "resume"  -> CallKeys(resume)
       [] p = "ran"     -> KeysOf(ran)]

OnePlace == \A p, q \in Places : \A k : k \in Held[p] /\ k \in Held[q] => p = q

\* Nobody holds a key of a round that has not asked yet.
Begun(k) ==
  /\ k \in Keys
  /\ \/ k[1] < turn
     \/ k[1] = turn /\ k[2] < round
     \/ k[1] = turn /\ k[2] = round /\ pc = "wait"
     \/ k[1] = turn /\ pc \in {"report", "gone"}

AllBegun == \A p \in Places : \A k \in Held[p] : Begun(k)

\* Within a place no key occurs twice.
SeqsDistinct == Distinct(jobs) /\ Distinct(answers) /\ Distinct(mail) /\ Distinct(ran)

UpDistinct ==
  \A t, u \in Turns : \A i \in 1 .. Len(up[t]), j \in 1 .. Len(up[u]) :
    Carries(up[t][i]) /\ Carries(up[u][j]) /\ FrameKey(up[t][i]) = FrameKey(up[u][j])
      => t = u /\ i = j

PausedDistinct ==
  \A t, u \in DOMAIN paused : KeyOf(paused[t].call) = KeyOf(paused[u].call) => t = u

OfTheirJob(a) == \A i \in 1 .. Len(a.calls) : KeyOf(a.calls[i]) = KeyOf(a)

CallsOfTheirJob ==
  (\A a \in Elems(answers) : OfTheirJob(a)) /\ (\A a \in Elems(mail) : OfTheirJob(a))

HandInv ==
  /\ OnePlace /\ AllBegun
  /\ SeqsDistinct /\ UpDistinct /\ PausedDistinct
  /\ CallsOfTheirJob

RiskInv == CallInv /\ HandInv

\* What Append and Tail do to the keys of a sequence.
LEMMA AppendKeys ==
  ASSUME NEW S, NEW q \in Seq(S), NEW e \in S, Distinct(q), KeyOf(e) \notin KeysOf(q)
  PROVE  Distinct(Append(q, e)) /\ KeysOf(Append(q, e)) = KeysOf(q) \cup {KeyOf(e)}
<1>1. PICK a : a = Append(q, e)
  OBVIOUS
<1>2. /\ Elems(a) = Elems(q) \cup {e} /\ Len(q) \in Nat /\ Len(a) = Len(q) + 1
      /\ \A i \in 1 .. Len(q) : a[i] = q[i]
      /\ a[Len(q) + 1] = e
  BY <1>1, AppendElems
<1>3. KeysOf(a) = KeysOf(q) \cup {KeyOf(e)}
  BY <1>2 DEF KeysOf
<1>4. \A i \in 1 .. Len(q) : KeyOf(q[i]) \in KeysOf(q)
  BY DEF KeysOf, Elems
<1>5. ASSUME NEW i \in 1 .. Len(a), NEW j \in 1 .. Len(a), KeyOf(a[i]) = KeyOf(a[j])
      PROVE  i = j
  <2>1. (i \in 1 .. Len(q) \/ i = Len(q) + 1) /\ (j \in 1 .. Len(q) \/ j = Len(q) + 1)
    BY <1>2
  <2>2. QED
    BY <1>2, <1>4, <1>5, <2>1 DEF Distinct
<1>6. QED
  BY <1>1, <1>3, <1>5 DEF Distinct

LEMMA TailKeys ==
  ASSUME NEW S, NEW q \in Seq(S), q # << >>, Distinct(q)
  PROVE  /\ Distinct(Tail(q)) /\ KeysOf(Tail(q)) \subseteq KeysOf(q)
         /\ KeyOf(Head(q)) \in KeysOf(q) /\ KeyOf(Head(q)) \notin KeysOf(Tail(q))
<1>1. PICK b : b = Tail(q)
  OBVIOUS
<1>2. /\ Head(q) = q[1] /\ Elems(b) \subseteq Elems(q) /\ Head(q) \in Elems(q)
      /\ Len(q) \in Nat \ {0} /\ Len(b) = Len(q) - 1
      /\ \A i \in 1 .. Len(q) - 1 : b[i] = q[i + 1]
  BY <1>1, TailElems
<1>3. KeysOf(b) \subseteq KeysOf(q) /\ KeyOf(Head(q)) \in KeysOf(q)
  BY <1>2 DEF KeysOf
<1>4. ASSUME NEW i \in 1 .. Len(b)
      PROVE  b[i] = q[i + 1] /\ i \in Nat /\ i + 1 \in 1 .. Len(q) /\ 1 \in 1 .. Len(q) /\ i + 1 # 1
  BY <1>2
<1>5. Distinct(b)
  <2> SUFFICES ASSUME NEW i \in 1 .. Len(b), NEW j \in 1 .. Len(b), KeyOf(b[i]) = KeyOf(b[j])
               PROVE  i = j
    BY DEF Distinct
  <2>1. i + 1 = j + 1
    BY <1>4 DEF Distinct
  <2>2. QED
    BY <1>4, <2>1
<1>6. KeyOf(Head(q)) \notin KeysOf(b)
  <2>1. \A i \in 1 .. Len(b) : KeyOf(q[1]) # KeyOf(b[i])
    BY <1>4 DEF Distinct
  <2>2. QED
    BY <1>2, <2>1 DEF KeysOf, Elems
<1>7. QED
  BY <1>1, <1>3, <1>5, <1>6

LEMMA EmptyKeys == KeysOf(<< >>) = {} /\ Distinct(<< >>)
  BY EmptyElems, EmptySeq DEF KeysOf, Distinct

\* Place by place.
LEMMA HeldIs ==
  /\ Held["up"] = UpKeys /\ Held["jobs"] = KeysOf(jobs) /\ Held["serving"] = ServingKeys
  /\ Held["answers"] = KeysOf(answers) /\ Held["mail"] = KeysOf(mail)
  /\ Held["report"] = ReportKeys /\ Held["paused"] = PausedKeys
  /\ Held["resuming"] = CallKeys(resuming) /\ Held["resume"] = CallKeys(resume)
  /\ Held["ran"] = KeysOf(ran)
  BY DEF Held, Places

LEMMA HeldWillBe ==
  /\ Held'["up"] = UpKeys' /\ Held'["jobs"] = KeysOf(jobs') /\ Held'["serving"] = ServingKeys'
  /\ Held'["answers"] = KeysOf(answers') /\ Held'["mail"] = KeysOf(mail')
  /\ Held'["report"] = ReportKeys' /\ Held'["paused"] = PausedKeys'
  /\ Held'["resuming"] = CallKeys(resuming') /\ Held'["resume"] = CallKeys(resume')
  /\ Held'["ran"] = KeysOf(ran')
  BY DEF Held, Places

\* A place whose variables stay the same holds the same keys.
LEMMA Unmoved ==
  /\ up' = up => UpKeys' = UpKeys
  /\ serving' = serving => ServingKeys' = ServingKeys
  /\ pc' # "report" => ReportKeys' = {}
  /\ report' = report /\ pc' = pc => ReportKeys' = ReportKeys
  /\ paused' = paused => PausedKeys' = PausedKeys
<1>1. up' = up => UpKeys' = UpKeys
  BY DEF UpKeys
<1>2. serving' = serving => ServingKeys' = ServingKeys
  BY DEF ServingKeys
<1>3. /\ pc' # "report" => ReportKeys' = {}
      /\ report' = report /\ pc' = pc => ReportKeys' = ReportKeys
  BY DEF ReportKeys
<1>4. paused' = paused => PausedKeys' = PausedKeys
  BY DEF PausedKeys
<1>5. QED
  BY <1>1, <1>2, <1>3, <1>4

LEMMA OneCallKey ==
  ASSUME NEW x
  PROVE  CallKeys(<< x >>) = {KeyOf(x.call)}
<1>1. x \in {x}
  OBVIOUS
<1>2. Elems(<< x >>) = {x}
  BY <1>1, OneElem
<1>3. QED
  BY <1>2 DEF CallKeys

LEMMA NoCallKeys == CallKeys(<< >>) = {}
  BY EmptyElems DEF CallKeys

\* What has begun stays begun.
KeepsBegun == \A k \in Keys : Begun(k) => Begun(k)'

\* A key is handed on, or nothing but dropped keys changes, or a new one comes up.
LEMMA HandedKey ==
  ASSUME OnePlace, AllBegun, KeepsBegun, NEW src \in Places, NEW dst \in Places, NEW key,
         key \in Held[src], src # dst => key \notin Held'[src],
         Held'[dst] \subseteq Held[dst] \cup {key},
         \A p \in Places \ {dst} : Held'[p] \subseteq Held[p]
  PROVE  OnePlace' /\ AllBegun'
<1>1. OnePlace'
  <2> SUFFICES ASSUME NEW p \in Places, NEW q \in Places, NEW k, k \in Held'[p], k \in Held'[q]
               PROVE  p = q
    BY DEF OnePlace
  <2>1. CASE k # key
    BY <2>1 DEF OnePlace
  <2>2. CASE k = key
    <3>1. ASSUME NEW r \in Places, k \in Held'[r]
          PROVE  r = dst
      <4>1. CASE r # dst
        <5>1. k \in Held[r]
          BY <3>1, <4>1
        <5>2. r = src
          BY <2>2, <5>1 DEF OnePlace
        <5>3. QED
          BY <2>2, <3>1, <4>1, <5>2
      <4>2. QED
        BY <4>1
    <3>2. QED
      BY <3>1
  <2>3. QED
    BY <2>1, <2>2
<1>2. AllBegun'
  <2> SUFFICES ASSUME NEW p \in Places, NEW k \in Held'[p]
               PROVE  Begun(k)'
    BY DEF AllBegun
  <2>1. k \in Held[p] \/ k \in Held[src]
    BY <1>1
  <2>2. Begun(k)
    BY <2>1 DEF AllBegun
  <2>3. QED
    BY <2>2 DEF KeepsBegun, Begun
<1>3. QED
  BY <1>1, <1>2

LEMMA DroppedKeys ==
  ASSUME OnePlace, AllBegun, KeepsBegun, \A p \in Places : Held'[p] \subseteq Held[p]
  PROVE  OnePlace' /\ AllBegun'
<1>1. OnePlace'
  BY DEF OnePlace
<1>2. AllBegun'
  <2> SUFFICES ASSUME NEW p \in Places, NEW k \in Held'[p]
               PROVE  Begun(k)'
    BY DEF AllBegun
  <2>1. Begun(k)
    BY DEF AllBegun
  <2>2. QED
    BY <2>1 DEF KeepsBegun, Begun
<1>3. QED
  BY <1>1, <1>2

LEMMA FreshKey ==
  ASSUME OnePlace, AllBegun, KeepsBegun, NEW dst \in Places, NEW key, Begun(key)',
         \A p \in Places : key \notin Held[p],
         Held'[dst] \subseteq Held[dst] \cup {key},
         \A p \in Places \ {dst} : Held'[p] \subseteq Held[p]
  PROVE  OnePlace' /\ AllBegun'
<1>1. OnePlace'
  <2> SUFFICES ASSUME NEW p \in Places, NEW q \in Places, NEW k, k \in Held'[p], k \in Held'[q]
               PROVE  p = q
    BY DEF OnePlace
  <2>1. CASE k # key
    BY <2>1 DEF OnePlace
  <2>2. CASE k = key
    BY <2>2
  <2>3. QED
    BY <2>1, <2>2
<1>2. AllBegun'
  <2> SUFFICES ASSUME NEW p \in Places, NEW k \in Held'[p]
               PROVE  Begun(k)'
    BY DEF AllBegun
  <2>1. CASE k = key
    BY <2>1
  <2>2. CASE k # key
    <3>1. Begun(k)
      BY <2>2 DEF AllBegun
    <3>2. QED
      BY <3>1 DEF KeepsBegun, Begun
  <2>3. QED
    BY <2>1, <2>2
<1>3. QED
  BY <1>1, <1>2

LEMMA BegunSteps ==
  ASSUME CallInv,
         \/ turn' = turn + 1
         \/ turn' = turn /\ pc' \in {"report", "gone"}
         \/ turn' = turn /\ round' = round /\ (pc' = pc \/ pc = "resolve" \/ (pc = "ask" /\ pc' = "wait"))
         \/ turn' = turn /\ round' = round + 1 /\ pc = "wait"
  PROVE  KeepsBegun
<1> SUFFICES ASSUME NEW k \in Keys, Begun(k)
             PROVE  Begun(k)'
  BY DEF KeepsBegun
<1>1. turn \in Nat /\ round \in Nat /\ k[1] \in Nat /\ k[2] \in Nat
  BY ExchangeAssumption DEF CallInv, TypeOK, Keys, Turns
<1>2. k[1] < turn \/ k[1] = turn
  BY <1>1 DEF Begun
<1>3. CASE turn' = turn + 1
  BY <1>1, <1>2, <1>3 DEF Begun
<1>4. CASE turn' = turn /\ pc' \in {"report", "gone"}
  BY <1>1, <1>2, <1>4 DEF Begun
<1>5. CASE turn' = turn /\ round' = round /\ (pc' = pc \/ pc = "resolve" \/ (pc = "ask" /\ pc' = "wait"))
  BY <1>5 DEF Begun
<1>6. CASE turn' = turn /\ round' = round + 1 /\ pc = "wait"
  BY <1>1, <1>6 DEF Begun
<1>7. QED
  BY <1>3, <1>4, <1>5, <1>6

\* The rounds only grow, and a worker that has asked does not go back to ask again.
LEMMA BegunKept ==
  ASSUME CallInv, [Next]_vars
  PROVE  KeepsBegun
<1>1. CASE SpawnTurn \/ SpawnResume
  BY <1>1, BegunSteps DEF SpawnTurn, SpawnResume, Connect
<1>2. CASE Resolve \/ SendJob
  <2>1. turn' = turn /\ round' = round /\ (pc = "resolve" \/ (pc = "ask" /\ pc' = "wait"))
    BY <1>2 DEF Resolve, SendJob
  <2>2. QED
    BY <2>1, BegunSteps
<1>3. CASE \/ ShortOnTime \/ GiveUp \/ WriteResult \/ Killed
           \/ ReadFailure \/ ReadText \/ ReadTooMany \/ ReadRisky
  <2>1. turn' = turn /\ pc' \in {"report", "gone"}
    BY <1>3 DEF ShortOnTime, GiveUp, WriteResult, Killed, Exit, ReadFailure, ReadText, ReadTooMany,
                ReadRisky, Read, Reporting
  <2>2. QED
    BY <2>1, BegunSteps
<1>4. CASE ReadFree
  <2>1. turn' = turn /\ round' = round + 1 /\ pc = "wait"
    BY <1>4 DEF ReadFree, Read
  <2>2. QED
    BY <2>1, BegunSteps
<1>5. CASE Hub \/ Broker \/ BrokerDrops \/ Core \/ UNCHANGED vars
  <2>1. turn' = turn /\ round' = round /\ pc' = pc
    BY <1>5 DEF Hub, RouteCompletion, RouteResult, RouteJob, Close, Broker, TakeJob, Chain,
       ProviderAnswers, ProviderHiccups, ProviderFails, BrokerReconnects, BrokerDrops, Core, Tap,
       ResumeFails, RowExpires, workerVars, vars
  <2>2. QED
    BY <2>1, BegunSteps
<1>6. QED
  BY <1>1, <1>2, <1>3, <1>4, <1>5 DEF Next, Worker, ToolLoop, Done

SendsFrame(t, f) == up' = [up EXCEPT ![t] = Append(@, f)]
TakesFrame(t) == up' = [up EXCEPT ![t] = Tail(@)]

\* A frame appended to a stream adds its key, if it has one.
LEMMA FrameAppended ==
  ASSUME CallInv, UpDistinct, NEW t \in Turns, NEW f \in Frame, SendsFrame(t, f),
         Carries(f) => FrameKey(f) \notin UpKeys,
         \A u \in Turns : \A g \in Elems(up[u]) : Carries(g) => FrameKey(g) \in Keys
  PROVE  /\ UpDistinct' /\ UpKeys' \subseteq UpKeys \cup {FrameKey(f)}
         /\ ~Carries(f) => UpKeys' \subseteq UpKeys
<1>1. PICK a : a = Append(up[t], f)
  OBVIOUS
<1>2. up \in [Turns -> Seq(Frame)] /\ up[t] \in Seq(Frame)
  BY DEF CallInv, TypeOK
<1>3. /\ Elems(a) = Elems(up[t]) \cup {f} /\ Len(up[t]) \in Nat /\ Len(a) = Len(up[t]) + 1
      /\ \A i \in 1 .. Len(up[t]) : a[i] = up[t][i]
      /\ a[Len(up[t]) + 1] = f
  BY <1>1, <1>2, AppendElems
<1>4. up'[t] = a /\ \A u \in Turns \ {t} : up'[u] = up[u]
  BY <1>1, <1>2 DEF SendsFrame
<1>5. \A u \in Turns : \A g \in Elems(up'[u]) : g \in Elems(up[u]) \/ g = f
  BY <1>3, <1>4
<1>6. UpKeys' \subseteq UpKeys \cup {FrameKey(f)} /\ (~Carries(f) => UpKeys' \subseteq UpKeys)
  BY <1>5 DEF UpKeys
<1>7. \A u \in Turns : \A i \in 1 .. Len(up[u]) : Carries(up[u][i]) => FrameKey(up[u][i]) \in UpKeys
  BY DEF UpKeys, Elems
<1>8. ASSUME NEW u \in Turns, NEW i \in 1 .. Len(up'[u])
      PROVE  \/ i \in 1 .. Len(up[u]) /\ up'[u][i] = up[u][i]
             \/ u = t /\ i = Len(up[t]) + 1 /\ up'[u][i] = f
  <2>1. CASE u = t
    BY <1>3, <1>4, <2>1
  <2>2. CASE u # t
    BY <1>4, <2>2
  <2>3. QED
    BY <2>1, <2>2
<1>9. UpDistinct'
  <2> SUFFICES ASSUME NEW u \in Turns, NEW v \in Turns, NEW i \in 1 .. Len(up'[u]),
                      NEW j \in 1 .. Len(up'[v]), Carries(up'[u][i]), Carries(up'[v][j]),
                      FrameKey(up'[u][i]) = FrameKey(up'[v][j])
               PROVE  u = v /\ i = j
    BY DEF UpDistinct
  <2>1. CASE i \in 1 .. Len(up[u]) /\ up'[u][i] = up[u][i] /\ j \in 1 .. Len(up[v]) /\ up'[v][j] = up[v][j]
    BY <2>1 DEF UpDistinct
  <2>2. QED
    BY <1>7, <1>8, <2>1
<1>10. QED
  BY <1>6, <1>9

\* The frame read off a stream takes its key away.
LEMMA FrameTaken ==
  ASSUME CallInv, UpDistinct, NEW t \in Turns, up[t] # << >>, TakesFrame(t)
  PROVE  /\ UpDistinct' /\ UpKeys' \subseteq UpKeys
         /\ Carries(Head(up[t])) /\ FrameKey(Head(up[t])) \in Keys =>
              FrameKey(Head(up[t])) \in UpKeys /\ FrameKey(Head(up[t])) \notin UpKeys'
<1>1. PICK b : b = Tail(up[t])
  OBVIOUS
<1>2. up \in [Turns -> Seq(Frame)] /\ up[t] \in Seq(Frame)
  BY DEF CallInv, TypeOK
<1>3. /\ Head(up[t]) = up[t][1] /\ Head(up[t]) \in Elems(up[t]) /\ Elems(b) \subseteq Elems(up[t])
      /\ Len(up[t]) \in Nat \ {0} /\ Len(b) = Len(up[t]) - 1
      /\ \A i \in 1 .. Len(up[t]) - 1 : b[i] = up[t][i + 1]
  BY <1>1, <1>2, TailElems
<1>4. up'[t] = b /\ \A u \in Turns \ {t} : up'[u] = up[u]
  BY <1>1, <1>2 DEF TakesFrame
<1>5. UpKeys' \subseteq UpKeys
  <2>1. \A u \in Turns : Elems(up'[u]) \subseteq Elems(up[u])
    BY <1>3, <1>4
  <2>2. QED
    BY <2>1 DEF UpKeys
<1>6. ASSUME NEW i \in 1 .. Len(b)
      PROVE  b[i] = up[t][i + 1] /\ i \in Nat /\ i + 1 \in 1 .. Len(up[t]) /\ 1 \in 1 .. Len(up[t]) /\ i + 1 # 1
  BY <1>3
\* Where a frame that is left was before.
<1>7. ASSUME NEW u \in Turns, NEW i \in 1 .. Len(up'[u])
      PROVE  /\ u = t => i + 1 \in 1 .. Len(up[u]) /\ up'[u][i] = up[u][i + 1] /\ i \in Nat /\ i + 1 # 1
             /\ u # t => i \in 1 .. Len(up[u]) /\ up'[u][i] = up[u][i]
  <2>1. CASE u = t
    <3>1. i \in 1 .. Len(b) /\ up'[u][i] = b[i]
      BY <1>4, <1>7, <2>1
    <3>2. QED
      BY <1>6, <2>1, <3>1
  <2>2. CASE u # t
    BY <1>4, <1>7, <2>2
  <2>3. QED
    BY <2>1, <2>2
<1>8. ASSUME NEW u \in Turns, NEW v \in Turns, NEW i \in 1 .. Len(up'[u]),
             NEW j \in 1 .. Len(up'[v]), Carries(up'[u][i]), Carries(up'[v][j]),
             FrameKey(up'[u][i]) = FrameKey(up'[v][j])
      PROVE  u = v /\ i = j
  <2>1. CASE u = t /\ v = t
    <3>1. /\ i + 1 \in 1 .. Len(up[t]) /\ up'[u][i] = up[t][i + 1] /\ i \in Nat
          /\ j + 1 \in 1 .. Len(up[t]) /\ up'[v][j] = up[t][j + 1] /\ j \in Nat
      BY <1>7, <1>8, <2>1
    <3>2. /\ Carries(up[t][i + 1]) /\ Carries(up[t][j + 1])
          /\ FrameKey(up[t][i + 1]) = FrameKey(up[t][j + 1])
      BY <1>8, <3>1
    <3>3. i + 1 = j + 1
      BY <3>1, <3>2 DEF UpDistinct
    <3>4. QED
      BY <2>1, <3>1, <3>3
  <2>2. CASE u = t /\ v # t
    <3>1. /\ i + 1 \in 1 .. Len(up[t]) /\ up'[u][i] = up[t][i + 1]
          /\ j \in 1 .. Len(up[v]) /\ up'[v][j] = up[v][j]
      BY <1>7, <1>8, <2>2
    <3>2. /\ Carries(up[t][i + 1]) /\ Carries(up[v][j])
          /\ FrameKey(up[t][i + 1]) = FrameKey(up[v][j])
      BY <1>8, <3>1
    <3>3. QED
      BY <2>2, <3>1, <3>2 DEF UpDistinct
  <2>3. CASE u # t /\ v = t
    <3>1. /\ i \in 1 .. Len(up[u]) /\ up'[u][i] = up[u][i]
          /\ j + 1 \in 1 .. Len(up[t]) /\ up'[v][j] = up[t][j + 1]
      BY <1>7, <1>8, <2>3
    <3>2. /\ Carries(up[u][i]) /\ Carries(up[t][j + 1])
          /\ FrameKey(up[u][i]) = FrameKey(up[t][j + 1])
      BY <1>8, <3>1
    <3>3. QED
      BY <2>3, <3>1, <3>2 DEF UpDistinct
  <2>4. CASE u # t /\ v # t
    <3>1. /\ i \in 1 .. Len(up[u]) /\ up'[u][i] = up[u][i]
          /\ j \in 1 .. Len(up[v]) /\ up'[v][j] = up[v][j]
      BY <1>7, <1>8, <2>4
    <3>2. Carries(up[u][i]) /\ Carries(up[v][j]) /\ FrameKey(up[u][i]) = FrameKey(up[v][j])
      BY <1>8, <3>1
    <3>3. QED
      BY <3>1, <3>2 DEF UpDistinct
  <2>5. QED
    BY <2>1, <2>2, <2>3, <2>4
<1>9. ASSUME Carries(up[t][1]), FrameKey(up[t][1]) \in Keys
      PROVE  FrameKey(up[t][1]) \in UpKeys /\ FrameKey(up[t][1]) \notin UpKeys'
  <2>1. FrameKey(up[t][1]) \in UpKeys
    BY <1>3, <1>9 DEF UpKeys
  <2>2. ASSUME NEW u \in Turns, NEW i \in 1 .. Len(up'[u]), Carries(up'[u][i]),
               FrameKey(up'[u][i]) = FrameKey(up[t][1])
        PROVE  FALSE
    <3>0. 1 \in 1 .. Len(up[t])
      BY <1>3
    <3>1. CASE u = t
      <4>1. i + 1 \in 1 .. Len(up[t]) /\ up'[u][i] = up[t][i + 1] /\ i \in Nat /\ i + 1 # 1
        BY <1>7, <2>2, <3>1
      <4>2. Carries(up[t][i + 1]) /\ FrameKey(up[t][i + 1]) = FrameKey(up[t][1])
        BY <2>2, <4>1
      <4>3. QED
        BY <1>9, <3>0, <4>1, <4>2 DEF UpDistinct
    <3>2. CASE u # t
      <4>1. i \in 1 .. Len(up[u]) /\ up'[u][i] = up[u][i]
        BY <1>7, <2>2, <3>2
      <4>2. Carries(up[u][i]) /\ FrameKey(up[u][i]) = FrameKey(up[t][1])
        BY <2>2, <4>1
      <4>3. QED
        BY <1>9, <3>0, <3>2, <4>1, <4>2 DEF UpDistinct
    <3>3. QED
      BY <3>1, <3>2
  <2>3. \A u \in Turns : \A f \in Elems(up'[u]) : Carries(f) => FrameKey(f) # FrameKey(up[t][1])
    BY <2>2 DEF Elems
  <2>4. QED
    BY <2>1, <2>3 DEF UpKeys
<1>10. UpDistinct'
  BY <1>8 DEF UpDistinct
<1>11. QED
  BY <1>3, <1>5, <1>9, <1>10

\* The keys of what is under way, by type.
LEMMA KeysTyped ==
  /\ \A j \in Job : KeyOf(j) \in Keys /\ Carries(j) /\ FrameKey(j) = KeyOf(j)
  /\ \A c \in Call : KeyOf(c) \in Keys
  /\ \A a \in Completion : KeyOf(a) \in Keys
  /\ \A r \in Result : /\ Carries(r) <=> r.kind = "ask"
                       /\ r.kind = "ask" => r.call \in Call /\ FrameKey(r) = KeyOf(r.call)
                                            /\ r.turn \in Turns
<1>1. \A j \in Job : KeyOf(j) \in Keys /\ Carries(j) /\ FrameKey(j) = KeyOf(j)
  BY ExchangeAssumption DEF Job, KeyOf, Keys, Turns, Carries, FrameKey
<1>2. \A c \in Call : KeyOf(c) \in Keys
  BY DEF Call, KeyOf, Keys
<1>3. \A a \in Completion : KeyOf(a) \in Keys
  BY ExchangeAssumption DEF Completion, KeyOf, Keys, Turns
<1>4. ASSUME NEW r \in Result
      PROVE  /\ Carries(r) <=> r.kind = "ask"
             /\ r.kind = "ask" => r.call \in Call /\ FrameKey(r) = KeyOf(r.call) /\ r.turn \in Turns
  <2>1. r \notin Job
    BY JobIsNoResult
  <2>2. r.kind = "ask" => r.call \in Call /\ r.turn \in Turns
    BY DEF Result
  <2>3. QED
    BY <2>1, <2>2 DEF Carries, FrameKey
<1>5. QED
  BY <1>1, <1>2, <1>3, <1>4

LEMMA InitHand == Init => HandInv
<1> SUFFICES ASSUME Init PROVE HandInv
  OBVIOUS
<1>1. UpKeys = {} /\ ServingKeys = {} /\ ReportKeys = {} /\ CallKeys(resuming) = {} /\ CallKeys(resume) = {}
  BY EmptyElems DEF Init, UpKeys, ServingKeys, ReportKeys, CallKeys
<1>2. PICK key : key = <<0, 0>>
  OBVIOUS
<1>3. /\ DOMAIN paused \subseteq {0} /\ PausedKeys \subseteq {key}
      /\ key \in Keys /\ key[1] = 0
  <2>1. KeyOf(OldCall) = key
    BY <1>2 DEF OldCall, KeyOf
  <2>2. key \in Keys /\ key[1] = 0
    BY <1>2, ExchangeAssumption DEF Keys
  <2>3. QED
    BY <2>1, <2>2, InitPaused, OldRowTyped DEF PausedKeys
<1>4. \A p \in Places : Held[p] \subseteq {key} /\ (p # "paused" => Held[p] = {})
  BY <1>1, <1>3, HeldIs, EmptyKeys DEF Init, Places
<1>5. OnePlace /\ AllBegun
  <2>1. Begun(key)
    BY <1>3 DEF Init, Begun
  <2>2. OnePlace
    BY <1>4 DEF OnePlace
  <2>3. AllBegun
    BY <1>4, <2>1 DEF AllBegun
  <2>4. QED
    BY <2>2, <2>3
<1>6. SeqsDistinct
  BY EmptyKeys DEF Init, SeqsDistinct
<1>7. UpDistinct /\ PausedDistinct
  BY <1>3, EmptySeq DEF Init, UpDistinct, PausedDistinct
<1>8. CallsOfTheirJob
  BY EmptyElems DEF Init, CallsOfTheirJob
<1>9. QED
  BY <1>5, <1>6, <1>7, <1>8 DEF HandInv

\* The Held keys of the places an action leaves alone, and the parts of the invariant.
LEMMA SameKeys ==
  ASSUME HandInv, UNCHANGED <<up, jobs, serving, answers, mail, report, pc, paused, resuming, resume, ran>>
  PROVE  Held' = Held /\ UpDistinct' /\ SeqsDistinct' /\ PausedDistinct' /\ CallsOfTheirJob'
<1>1. UpKeys' = UpKeys /\ ServingKeys' = ServingKeys /\ ReportKeys' = ReportKeys
      /\ PausedKeys' = PausedKeys
  BY Unmoved
<1>2. Held' = Held
  BY <1>1 DEF Held
<1>3. UpDistinct' /\ SeqsDistinct' /\ PausedDistinct' /\ CallsOfTheirJob'
  BY DEF HandInv, UpDistinct, SeqsDistinct, PausedDistinct, CallsOfTheirJob
<1>4. QED
  BY <1>2, <1>3

LEMMA SpawnTurnHand ==
  ASSUME RiskInv, KeepsBegun, SpawnTurn
  PROVE  HandInv'
<1>1. /\ UNCHANGED <<up, jobs, serving, answers, paused, resuming, ran>>
      /\ mail' = << >> /\ pc' = "ask" /\ resume' = << >>
  BY DEF SpawnTurn, Connect, brokerVars, auditVars
<1>2. \A p \in Places : Held'[p] \subseteq Held[p]
  <2>1. /\ UpKeys' = UpKeys /\ ServingKeys' = ServingKeys /\ ReportKeys' = {}
        /\ PausedKeys' = PausedKeys /\ CallKeys(resume') = {} /\ KeysOf(mail') = {}
    BY <1>1, Unmoved, EmptyKeys, NoCallKeys
  <2>2. QED
    BY <1>1, <2>1, HeldIs, HeldWillBe DEF Places
<1>3. OnePlace' /\ AllBegun'
  BY <1>2, DroppedKeys DEF RiskInv, HandInv
<1>4. SeqsDistinct' /\ UpDistinct' /\ PausedDistinct'
  BY <1>1, EmptyKeys DEF RiskInv, HandInv, SeqsDistinct, UpDistinct, PausedDistinct
<1>5. CallsOfTheirJob'
  BY <1>1, EmptyElems DEF RiskInv, HandInv, CallsOfTheirJob
<1>6. QED
  BY <1>3, <1>4, <1>5 DEF HandInv

LEMMA SpawnResumeHand ==
  ASSUME RiskInv, KeepsBegun, SpawnResume
  PROVE  HandInv'
<1>1. PICK x, r : x = resuming[1] /\ r = [call |-> x.call, approved |-> x.approved]
  OBVIOUS
<1>2. /\ UNCHANGED <<up, jobs, serving, answers, ran, paused>>
      /\ mail' = << >> /\ pc' = "resolve"
      /\ resuming # << >> /\ resuming' = << >> /\ resume' = << r >>
  BY <1>1 DEF SpawnResume, Connect, brokerVars, auditVars
<1>3. PICK key : key = KeyOf(x.call)
  OBVIOUS
<1>4. CallKeys(resume') = {key} /\ CallKeys(resuming') = {} /\ key \in CallKeys(resuming)
  <2>1. r.call = x.call
    BY <1>1
  <2>2. x \in Elems(resuming)
    BY <1>1, <1>2, ResumingTyped DEF RiskInv
  <2>3. QED
    BY <1>2, <1>3, <2>1, <2>2, OneCallKey, NoCallKeys DEF CallKeys
<1>5. /\ UpKeys' = UpKeys /\ ServingKeys' = ServingKeys /\ ReportKeys' = {} /\ KeysOf(mail') = {}
      /\ PausedKeys' = PausedKeys
  BY <1>2, Unmoved, EmptyKeys
<1>6. /\ key \in Held["resuming"] /\ key \notin Held'["resuming"]
      /\ Held'["resume"] \subseteq Held["resume"] \cup {key}
      /\ \A p \in Places \ {"resume"} : Held'[p] \subseteq Held[p]
  BY <1>2, <1>4, <1>5, HeldIs, HeldWillBe DEF Places
<1>7. OnePlace' /\ AllBegun'
  <2>1. "resuming" \in Places /\ "resume" \in Places
    BY DEF Places
  <2>2. QED
    BY <1>6, <2>1, HandedKey DEF RiskInv, HandInv
<1>8. SeqsDistinct' /\ UpDistinct' /\ PausedDistinct'
  BY <1>2, EmptyKeys DEF RiskInv, HandInv, SeqsDistinct, UpDistinct, PausedDistinct
<1>9. CallsOfTheirJob'
  BY <1>2, EmptyElems DEF RiskInv, HandInv, CallsOfTheirJob
<1>10. QED
  BY <1>7, <1>8, <1>9 DEF HandInv

\* A tap takes the call from its row, and the row is gone.
LEMMA TapHand ==
  ASSUME RiskInv, KeepsBegun, NEW t, Tap(t)
  PROVE  HandInv'
<1>1. PICK x : /\ resuming' = << x >> /\ x.call = paused[t].call
  <2>1. PICK tap \in Taps :
          resuming' = <<[call |-> paused[t].call, convo |-> paused[t].convo,
                         approved |-> tap = "yes"]>>
    BY DEF Tap
  <2>2. PICK x : x = [call |-> paused[t].call, convo |-> paused[t].convo, approved |-> tap = "yes"]
    OBVIOUS
  <2>3. resuming' = << x >> /\ x.call = paused[t].call
    BY <2>1, <2>2
  <2>4. QED
    BY <2>3
<1>2. /\ UNCHANGED <<up, jobs, serving, answers, mail, report, pc, resume, ran>>
      /\ t \in DOMAIN paused /\ DOMAIN paused' = DOMAIN paused \ {t}
      /\ \A u \in DOMAIN paused' : paused'[u] = paused[u]
  BY DEF Tap, TakeRow, workerVars, hubVars, brokerVars, auditVars
<1>3. PICK key : key = KeyOf(paused[t].call)
  OBVIOUS
<1>4. CallKeys(resuming') = {key}
  BY <1>1, <1>3, OneCallKey
<1>5. /\ key \in PausedKeys /\ key \notin PausedKeys' /\ PausedKeys' \subseteq PausedKeys
      /\ PausedDistinct'
  <2>1. PausedDistinct
    BY DEF RiskInv, HandInv
  <2>2. key \in PausedKeys /\ PausedKeys' \subseteq PausedKeys
    BY <1>2, <1>3 DEF PausedKeys
  <2>3. key \notin PausedKeys'
    BY <1>2, <1>3, <2>1 DEF PausedKeys, PausedDistinct
  <2>4. PausedDistinct'
    BY <1>2, <2>1 DEF PausedDistinct
  <2>5. QED
    BY <2>2, <2>3, <2>4
<1>6. UpKeys' = UpKeys /\ ServingKeys' = ServingKeys /\ ReportKeys' = ReportKeys
  BY <1>2, Unmoved
<1>7. /\ key \in Held["paused"] /\ key \notin Held'["paused"]
      /\ Held'["resuming"] \subseteq Held["resuming"] \cup {key}
      /\ \A p \in Places \ {"resuming"} : Held'[p] \subseteq Held[p]
  BY <1>2, <1>4, <1>5, <1>6, HeldIs, HeldWillBe DEF Places
<1>8. OnePlace' /\ AllBegun'
  <2>1. "paused" \in Places /\ "resuming" \in Places
    BY DEF Places
  <2>2. QED
    BY <1>7, <2>1, HandedKey DEF RiskInv, HandInv
<1>9. SeqsDistinct' /\ UpDistinct' /\ CallsOfTheirJob'
  BY <1>2 DEF RiskInv, HandInv, SeqsDistinct, UpDistinct, CallsOfTheirJob
<1>10. QED
  BY <1>5, <1>8, <1>9 DEF HandInv

\* A row or a resumption that is given up takes its key away.
LEMMA GivenUpHand ==
  ASSUME RiskInv, KeepsBegun, ResumeFails \/ \E t \in 0 .. MaxTurns : RowExpires(t)
  PROVE  HandInv'
<1>1. /\ UNCHANGED <<up, jobs, serving, answers, mail, report, pc, resume, ran>>
      /\ resuming' = resuming \/ resuming' = << >>
      /\ DOMAIN paused' \subseteq DOMAIN paused
      /\ \A u \in DOMAIN paused' : paused'[u] = paused[u]
  BY DEF ResumeFails, RowExpires, workerVars, hubVars, brokerVars, auditVars
<1>2. PausedKeys' \subseteq PausedKeys /\ PausedDistinct'
  BY <1>1 DEF PausedKeys, PausedDistinct, RiskInv, HandInv
<1>3. CallKeys(resuming') \subseteq CallKeys(resuming)
  BY <1>1, NoCallKeys
<1>4. UpKeys' = UpKeys /\ ServingKeys' = ServingKeys /\ ReportKeys' = ReportKeys
  BY <1>1, Unmoved
<1>5. \A p \in Places : Held'[p] \subseteq Held[p]
  BY <1>1, <1>2, <1>3, <1>4, HeldIs, HeldWillBe DEF Places
<1>6. OnePlace' /\ AllBegun'
  BY <1>5, DroppedKeys DEF RiskInv, HandInv
<1>7. SeqsDistinct' /\ UpDistinct' /\ CallsOfTheirJob'
  BY <1>1 DEF RiskInv, HandInv, SeqsDistinct, UpDistinct, CallsOfTheirJob
<1>8. QED
  BY <1>2, <1>6, <1>7 DEF HandInv

LEMMA ResolveHand ==
  ASSUME RiskInv, KeepsBegun, Resolve
  PROVE  HandInv'
<1>1. PICK call : call = resume[1].call
  OBVIOUS
<1>2. /\ UNCHANGED <<up, jobs, serving, answers, mail, report, paused, resuming>>
      /\ pc = "resolve" /\ pc' = "ask" /\ resume' = << >>
      /\ ran' = Append(ran, call) \/ ran' = ran
  BY <1>1 DEF Resolve, hubVars, brokerVars, coreVars
<1>3. call \in Call /\ ran \in Seq(Call) /\ Elems(resume) = {resume[1]}
  BY <1>1, <1>2, ResumeTyped DEF RiskInv, CallInv, TypeOK
<1>4. PICK key : key = KeyOf(call)
  OBVIOUS
<1>5. CallKeys(resume) = {key} /\ CallKeys(resume') = {} /\ ReportKeys' = {}
  BY <1>1, <1>2, <1>3, <1>4, Unmoved, NoCallKeys DEF CallKeys
<1>6. key \notin KeysOf(ran)
  BY <1>5, HeldIs DEF RiskInv, HandInv, OnePlace, Places
<1>7. KeysOf(ran') \subseteq KeysOf(ran) \cup {key} /\ Distinct(ran')
  <2>1. Distinct(ran)
    BY DEF RiskInv, HandInv, SeqsDistinct
  <2>2. CASE ran' = Append(ran, call)
    BY <1>3, <1>4, <1>6, <2>1, <2>2, AppendKeys
  <2>3. CASE ran' = ran
    BY <2>1, <2>3
  <2>4. QED
    BY <1>2, <2>2, <2>3
<1>8. UpKeys' = UpKeys /\ ServingKeys' = ServingKeys /\ PausedKeys' = PausedKeys
  BY <1>2, Unmoved
<1>9. /\ key \in Held["resume"] /\ key \notin Held'["resume"]
      /\ Held'["ran"] \subseteq Held["ran"] \cup {key}
      /\ \A p \in Places \ {"ran"} : Held'[p] \subseteq Held[p]
  BY <1>2, <1>5, <1>7, <1>8, HeldIs, HeldWillBe DEF Places
<1>10. OnePlace' /\ AllBegun'
  <2>1. "resume" \in Places /\ "ran" \in Places
    BY DEF Places
  <2>2. QED
    BY <1>9, <2>1, HandedKey DEF RiskInv, HandInv
<1>11. SeqsDistinct' /\ UpDistinct' /\ PausedDistinct'
  BY <1>2, <1>7 DEF RiskInv, HandInv, SeqsDistinct, UpDistinct, PausedDistinct
<1>12. CallsOfTheirJob'
  BY <1>2 DEF RiskInv, HandInv, CallsOfTheirJob
<1>13. QED
  BY <1>10, <1>11, <1>12 DEF HandInv

\* Every frame that carries a key carries one.
LEMMA FrameKeysTyped ==
  ASSUME CallInv
  PROVE  \A u \in Turns : \A g \in Elems(up[u]) : Carries(g) => FrameKey(g) \in Keys
<1> SUFFICES ASSUME NEW u \in Turns, NEW g \in Elems(up[u]), Carries(g)
             PROVE  FrameKey(g) \in Keys
  OBVIOUS
<1>1. g \in Job \/ g \in Result
  BY ElemsTyped DEF CallInv, TypeOK, Frame
<1>2. QED
  BY <1>1, KeysTyped

LEMMA SendJobHand ==
  ASSUME RiskInv, KeepsBegun, SendJob
  PROVE  HandInv'
<1>1. PICK f : f = [turn |-> turn, round |-> round, convo |-> convo]
  OBVIOUS
<1>2. /\ UNCHANGED <<jobs, serving, answers, mail, report, paused, resuming, resume, ran, turn, round>>
      /\ pc = "ask" /\ pc' = "wait" /\ SendsFrame(turn, f)
  BY <1>1 DEF SendJob, brokerVars, coreVars, auditVars, SendsFrame
<1>3. turn \in Turns /\ f \in Job /\ KeyOf(f) = <<turn, round>>
  BY <1>1, <1>2 DEF RiskInv, CallInv, TypeOK, WorkerHasATurn, Job, KeyOf
<1>4. PICK key : key = <<turn, round>>
  OBVIOUS
<1>5. key \in Keys /\ Carries(f) /\ FrameKey(f) = key /\ f \in Frame
  BY <1>3, <1>4, KeysTyped DEF Frame
<1>6. \A p \in Places : key \notin Held[p]
  <2>1. ~Begun(key)
    <3>1. turn \in Nat /\ round \in Nat
      BY <1>3, ExchangeAssumption DEF RiskInv, CallInv, TypeOK, Turns
    <3>2. key[1] = turn /\ key[2] = round
      BY <1>4
    <3>3. QED
      BY <1>2, <3>1, <3>2 DEF Begun
  <2>2. QED
    BY <2>1 DEF RiskInv, HandInv, AllBegun
<1>7. Begun(key)'
  <2>1. key[1] = turn' /\ key[2] = round' /\ pc' = "wait" /\ key \in Keys
    BY <1>2, <1>4, <1>5
  <2>2. QED
    BY <2>1 DEF Begun
<1>8. key \notin UpKeys
  BY <1>6, HeldIs DEF Places
<1>9. UpDistinct' /\ UpKeys' \subseteq UpKeys \cup {key}
  BY <1>2, <1>3, <1>5, <1>8, FrameAppended, FrameKeysTyped DEF RiskInv, HandInv
<1>10. ServingKeys' = ServingKeys /\ ReportKeys' = {} /\ PausedKeys' = PausedKeys
  BY <1>2, Unmoved
<1>11. /\ Held'["up"] \subseteq Held["up"] \cup {key}
       /\ \A p \in Places \ {"up"} : Held'[p] \subseteq Held[p]
  BY <1>2, <1>9, <1>10, HeldIs, HeldWillBe DEF Places
<1>12. OnePlace' /\ AllBegun'
  <2>1. "up" \in Places
    BY DEF Places
  <2>2. QED
    BY <1>6, <1>7, <1>11, <2>1, FreshKey DEF RiskInv, HandInv
<1>13. SeqsDistinct' /\ PausedDistinct'
  BY <1>2 DEF RiskInv, HandInv, SeqsDistinct, PausedDistinct
<1>14. CallsOfTheirJob'
  BY <1>2 DEF RiskInv, HandInv, CallsOfTheirJob
<1>15. QED
  BY <1>9, <1>12, <1>13, <1>14 DEF HandInv

\* A worker's step that at most reads its mail and reports no call.
LEMMA LessMail ==
  ASSUME RiskInv, KeepsBegun,
         UNCHANGED <<up, jobs, serving, answers, paused, resuming, ran>>,
         mail' = mail \/ mail' = << >> \/ (mail # << >> /\ mail' = Tail(mail)),
         resume' = resume \/ resume' = << >>, ReportKeys' = {}
  PROVE  HandInv'
<1>1. mail \in Seq(Completion) /\ Distinct(mail)
  BY DEF RiskInv, CallInv, TypeOK, HandInv, SeqsDistinct
<1>2. KeysOf(mail') \subseteq KeysOf(mail) /\ Distinct(mail') /\ Elems(mail') \subseteq Elems(mail)
  <2>1. CASE mail' = mail \/ mail' = << >>
    BY <1>1, <2>1, EmptyKeys, EmptyElems
  <2>2. CASE mail # << >> /\ mail' = Tail(mail)
    BY <1>1, <2>2, TailKeys, TailElems
  <2>3. QED
    BY <2>1, <2>2
<1>3. \A p \in Places : Held'[p] \subseteq Held[p]
  <2>1. /\ UpKeys' = UpKeys /\ ServingKeys' = ServingKeys /\ PausedKeys' = PausedKeys
        /\ CallKeys(resume') \subseteq CallKeys(resume)
    BY Unmoved, NoCallKeys
  <2>2. QED
    BY <1>2, <2>1, HeldIs, HeldWillBe DEF Places
<1>4. OnePlace' /\ AllBegun'
  BY <1>3, DroppedKeys DEF RiskInv, HandInv
<1>5. SeqsDistinct' /\ UpDistinct' /\ PausedDistinct'
  BY <1>2 DEF RiskInv, HandInv, SeqsDistinct, UpDistinct, PausedDistinct
<1>6. CallsOfTheirJob'
  BY <1>2 DEF RiskInv, HandInv, CallsOfTheirJob
<1>7. QED
  BY <1>4, <1>5, <1>6 DEF HandInv

\* The worker's own words carry no key.
LEMMA WordsHaveNoKey ==
  ASSUME NEW kind \in {"text", "fail", "tired"}, NEW from, Reporting(kind, from)
  PROVE  ReportKeys' = {} /\ pc' = "report"
<1> DEFINE r == [turn |-> turn, kind |-> kind, from |-> from]
<1>1. report' = << r >> /\ pc' = "report" /\ r.kind # "ask"
  BY DEF Reporting
<1> HIDE DEF r
<1>2. Elems(report') = {r}
  <2>1. r \in {r}
    OBVIOUS
  <2>2. QED
    BY <1>1, <2>1, OneElem
<1>3. QED
  BY <1>1, <1>2 DEF ReportKeys

LEMMA WordsHand ==
  ASSUME RiskInv, KeepsBegun,
         ShortOnTime \/ GiveUp \/ ReadFailure \/ ReadText \/ ReadTooMany \/ ReadFree \/ Killed
  PROVE  HandInv'
<1>1. /\ UNCHANGED <<up, jobs, serving, answers, paused, resuming, ran>>
      /\ mail' = mail \/ mail' = << >> \/ (mail # << >> /\ mail' = Tail(mail))
      /\ resume' = resume \/ resume' = << >>
  BY DEF ShortOnTime, GiveUp, ReadFailure, ReadText, ReadTooMany, ReadFree, Killed, Read, Exit,
         hubVars, brokerVars, coreVars, auditVars
<1>2. ReportKeys' = {}
  <2>1. CASE ShortOnTime \/ ReadTooMany
    <3>1. Reporting("tired", 0)
      BY <2>1 DEF ShortOnTime, ReadTooMany
    <3>2. QED
      BY <3>1, WordsHaveNoKey
  <2>2. CASE GiveUp \/ ReadFailure
    <3>1. Reporting("fail", 0)
      BY <2>2 DEF GiveUp, ReadFailure
    <3>2. QED
      BY <3>1, WordsHaveNoKey
  <2>3. CASE ReadText
    <3>1. Reporting("text", Head(mail).turn)
      BY <2>3 DEF ReadText
    <3>2. QED
      BY <3>1, WordsHaveNoKey
  <2>4. CASE ReadFree \/ Killed
    <3>1. pc' \in {"ask", "gone"}
      BY <2>4 DEF ReadFree, Killed, Exit
    <3>2. QED
      BY <3>1, Unmoved
  <2>5. QED
    BY <2>1, <2>2, <2>3, <2>4
<1>3. QED
  BY <1>1, <1>2, LessMail

\* The call a worker reports is one of the completion it read.
LEMMA ReadRiskyHand ==
  ASSUME RiskInv, KeepsBegun, ReadRisky
  PROVE  HandInv'
<1> DEFINE calls == Head(mail).calls
<1>1. /\ UNCHANGED <<up, jobs, serving, answers, paused, resuming, resume, ran>>
      /\ mail # << >> /\ mail' = Tail(mail) /\ pc = "wait" /\ pc' = "report" /\ Read
  BY DEF ReadRisky, Read, brokerVars, coreVars, auditVars
<1>2. PICK r : report' = << r >> /\ \E i \in FirstRisky(calls) : r.call = calls[i]
  <2>1. PICK i \in FirstRisky(calls) : report' = <<
      [turn |-> turn, kind |-> "ask", from |-> Head(mail).turn, call |-> calls[i],
       convo |-> [asked    |-> convo.asked \o KeptCalls(calls, i),
                  answered |-> convo.answered \o SubSeq(calls, 1, i - 1)]]>>
    BY DEF ReadRisky
  <2>2. PICK c : c = [asked    |-> convo.asked \o KeptCalls(calls, i),
                      answered |-> convo.answered \o SubSeq(calls, 1, i - 1)]
    OBVIOUS
  <2>3. PICK r : r = [turn |-> turn, kind |-> "ask", from |-> Head(mail).turn, call |-> calls[i],
                      convo |-> c]
    OBVIOUS
  <2>4. report' = << r >> /\ r.call = calls[i]
    BY <2>1, <2>2, <2>3
  <2>5. QED
    BY <2>4
<1>3. mail \in Seq(Completion) /\ Distinct(mail)
  BY DEF RiskInv, CallInv, TypeOK, HandInv, SeqsDistinct
<1>4. PICK key : key = KeyOf(Head(mail))
  OBVIOUS
<1>5. /\ key \in KeysOf(mail) /\ key \notin KeysOf(mail') /\ KeysOf(mail') \subseteq KeysOf(mail)
      /\ Distinct(mail') /\ Elems(mail') \subseteq Elems(mail) /\ Head(mail) \in Elems(mail)
  BY <1>1, <1>3, <1>4, TailKeys, TailElems
<1>6. KeyOf(r.call) = key
  <2>1. calls \in Seq(Call)
    BY <1>1, ReadTyped DEF RiskInv
  <2>2. PICK i \in 1 .. Len(calls) : r.call = calls[i]
    BY <1>2, <2>1, LenProperties DEF FirstRisky, RiskyIn
  <2>3. OfTheirJob(Head(mail))
    BY <1>5 DEF RiskInv, HandInv, CallsOfTheirJob
  <2>4. KeyOf(calls[i]) = KeyOf(Head(mail))
    BY <2>2, <2>3 DEF OfTheirJob
  <2>5. QED
    BY <1>4, <2>2, <2>4
<1> HIDE DEF calls
<1>7. ReportKeys' \subseteq {key}
  <2>1. Elems(report') = {r}
    <3>1. r \in {r}
      OBVIOUS
    <3>2. QED
      BY <1>2, <3>1, OneElem
  <2>2. QED
    BY <1>6, <2>1 DEF ReportKeys
<1>8. UpKeys' = UpKeys /\ ServingKeys' = ServingKeys /\ PausedKeys' = PausedKeys
  BY <1>1, Unmoved
<1>9. /\ key \in Held["mail"] /\ key \notin Held'["mail"]
      /\ Held'["report"] \subseteq Held["report"] \cup {key}
      /\ \A p \in Places \ {"report"} : Held'[p] \subseteq Held[p]
  BY <1>1, <1>5, <1>7, <1>8, HeldIs, HeldWillBe DEF Places
<1>10. OnePlace' /\ AllBegun'
  <2>1. "mail" \in Places /\ "report" \in Places
    BY DEF Places
  <2>2. QED
    BY <1>9, <2>1, HandedKey DEF RiskInv, HandInv
<1>11. SeqsDistinct' /\ UpDistinct' /\ PausedDistinct'
  BY <1>1, <1>5 DEF RiskInv, HandInv, SeqsDistinct, UpDistinct, PausedDistinct
<1>12. CallsOfTheirJob'
  BY <1>1, <1>5 DEF RiskInv, HandInv, CallsOfTheirJob
<1>13. QED
  BY <1>10, <1>11, <1>12 DEF HandInv

LEMMA WriteResultHand ==
  ASSUME RiskInv, KeepsBegun, WriteResult
  PROVE  HandInv'
<1>1. PICK r : r = report[1]
  OBVIOUS
<1>2. /\ UNCHANGED <<jobs, serving, answers, paused, resuming, ran>>
      /\ mail' = << >> /\ resume' = << >>
      /\ pc = "report" /\ pc' = "gone" /\ SendsFrame(turn, r)
  BY <1>1 DEF WriteResult, Exit, brokerVars, coreVars, SendsFrame
<1>3. turn \in Turns /\ r \in Result /\ r \in Elems(report)
  <2>1. turn \in Turns /\ report \in Seq(Result) /\ Len(report) = 1
    BY <1>2 DEF RiskInv, CallInv, TypeOK, WorkerHasATurn, ReportReady
  <2>2. QED
    BY <1>1, <2>1, ElementOfSeq DEF Elems
<1>4. PICK key : key = FrameKey(r)
  OBVIOUS
<1>5. Carries(r) => key \in Keys /\ key \in ReportKeys
  <2>1. Carries(r) => r.kind = "ask" /\ r.call \in Call /\ key = KeyOf(r.call)
    BY <1>3, <1>4, KeysTyped
  <2>2. QED
    BY <1>2, <1>3, <2>1, KeysTyped DEF ReportKeys
<1>6. Carries(r) => key \notin UpKeys
  BY <1>5, HeldIs DEF RiskInv, HandInv, OnePlace, Places
<1>7. UpDistinct' /\ UpKeys' \subseteq UpKeys \cup {key} /\ (~Carries(r) => UpKeys' \subseteq UpKeys)
  <2>1. r \in Frame
    BY <1>3 DEF Frame
  <2>2. QED
    BY <1>2, <1>3, <1>4, <1>6, <2>1, FrameAppended, FrameKeysTyped DEF RiskInv, HandInv
<1>8. /\ ServingKeys' = ServingKeys /\ PausedKeys' = PausedKeys
      /\ CallKeys(resume') = {} /\ KeysOf(mail') = {} /\ ReportKeys' = {}
  BY <1>2, Unmoved, NoCallKeys, EmptyKeys
<1>9. OnePlace' /\ AllBegun'
  <2>1. CASE Carries(r)
    <3>1. /\ key \in Held["report"] /\ key \notin Held'["report"]
          /\ Held'["up"] \subseteq Held["up"] \cup {key}
          /\ \A p \in Places \ {"up"} : Held'[p] \subseteq Held[p]
      BY <1>2, <1>5, <1>7, <1>8, <2>1, HeldIs, HeldWillBe DEF Places
    <3>2. "report" \in Places /\ "up" \in Places
      BY DEF Places
    <3>3. QED
      BY <3>1, <3>2, HandedKey DEF RiskInv, HandInv
  <2>2. CASE ~Carries(r)
    <3>1. \A p \in Places : Held'[p] \subseteq Held[p]
      BY <1>2, <1>7, <1>8, <2>2, HeldIs, HeldWillBe DEF Places
    <3>2. QED
      BY <3>1, DroppedKeys DEF RiskInv, HandInv
  <2>3. QED
    BY <2>1, <2>2
<1>10. SeqsDistinct' /\ PausedDistinct' /\ CallsOfTheirJob'
  BY <1>2, EmptyKeys, EmptyElems DEF RiskInv, HandInv, SeqsDistinct, PausedDistinct, CallsOfTheirJob
<1>11. QED
  BY <1>7, <1>9, <1>10 DEF HandInv

\* A Result leaves the stream: a call core parks is the one it carries.
LEMMA RouteResultHand ==
  ASSUME RiskInv, KeepsBegun, NEW t \in Turns, RouteResult(t)
  PROVE  HandInv'
<1>1. PICK r : r = Head(up[t])
  OBVIOUS
<1>2. /\ UNCHANGED <<jobs, serving, answers, mail, report, pc, resume, resuming, ran>>
      /\ up[t] # << >> /\ r \in Result /\ TakesFrame(t)
      /\ (r.kind = "ask" /\ Parks(r)) \/ UNCHANGED paused
  BY <1>1 DEF RouteResult, workerVars, brokerVars, auditVars, TakesFrame
<1>3. PICK key : key = FrameKey(r)
  OBVIOUS
<1>4. /\ UpDistinct' /\ UpKeys' \subseteq UpKeys
      /\ Carries(r) /\ key \in Keys => key \in UpKeys /\ key \notin UpKeys'
  BY <1>1, <1>2, <1>3, FrameTaken DEF RiskInv, HandInv
<1>5. ServingKeys' = ServingKeys /\ ReportKeys' = ReportKeys
  BY <1>2, Unmoved
<1>6. CASE UNCHANGED paused
  <2>1. PausedKeys' = PausedKeys /\ PausedDistinct'
    BY <1>6, Unmoved DEF RiskInv, HandInv, PausedDistinct
  <2>2. \A p \in Places : Held'[p] \subseteq Held[p]
    BY <1>2, <1>4, <1>5, <2>1, HeldIs, HeldWillBe DEF Places
  <2>3. OnePlace' /\ AllBegun'
    BY <2>2, DroppedKeys DEF RiskInv, HandInv
  <2>4. SeqsDistinct' /\ CallsOfTheirJob'
    BY <1>2 DEF RiskInv, HandInv, SeqsDistinct, CallsOfTheirJob
  <2>5. QED
    BY <1>4, <2>1, <2>3, <2>4 DEF HandInv
<1>7. CASE /\ r.kind = "ask"
           /\ paused' = [u \in DOMAIN paused \cup {r.turn} |->
                           IF u = r.turn THEN [call |-> r.call, convo |-> r.convo] ELSE paused[u]]
  <2>1. Carries(r) /\ key = KeyOf(r.call) /\ key \in Keys
    BY <1>2, <1>3, <1>7, KeysTyped
  <2>2. key \notin PausedKeys
    BY <1>4, <2>1, HeldIs DEF RiskInv, HandInv, OnePlace, Places
  <2>3. /\ DOMAIN paused' = DOMAIN paused \cup {r.turn}
        /\ paused'[r.turn].call = r.call
        /\ \A u \in DOMAIN paused' \ {r.turn} : u \in DOMAIN paused /\ paused'[u] = paused[u]
    BY <1>7
  <2>4. PausedKeys' \subseteq PausedKeys \cup {key}
    BY <2>1, <2>3 DEF PausedKeys
  <2>5. PausedDistinct'
    <3>1. PausedDistinct /\ \A u \in DOMAIN paused : KeyOf(paused[u].call) # key
      BY <2>2 DEF RiskInv, HandInv, PausedKeys
    <3>2. QED
      BY <2>1, <2>3, <3>1 DEF PausedDistinct
  <2>6. /\ key \in Held["up"] /\ key \notin Held'["up"]
        /\ Held'["paused"] \subseteq Held["paused"] \cup {key}
        /\ \A p \in Places \ {"paused"} : Held'[p] \subseteq Held[p]
    BY <1>2, <1>4, <1>5, <2>1, <2>4, HeldIs, HeldWillBe DEF Places
  <2>7. OnePlace' /\ AllBegun'
    <3>1. "up" \in Places /\ "paused" \in Places
      BY DEF Places
    <3>2. QED
      BY <2>6, <3>1, HandedKey DEF RiskInv, HandInv
  <2>8. SeqsDistinct' /\ CallsOfTheirJob'
    BY <1>2 DEF RiskInv, HandInv, SeqsDistinct, CallsOfTheirJob
  <2>9. QED
    BY <1>4, <2>5, <2>7, <2>8 DEF HandInv
<1>8. QED
  BY <1>2, <1>6, <1>7 DEF Parks

LEMMA RouteJobHand ==
  ASSUME RiskInv, KeepsBegun, NEW t \in Turns, RouteJob(t)
  PROVE  HandInv'
<1>1. PICK j : j = Head(up[t])
  OBVIOUS
<1>2. /\ UNCHANGED <<serving, answers, mail, report, pc, resume, resuming, paused, ran>>
      /\ up[t] # << >> /\ j \in Job /\ TakesFrame(t)
      /\ jobs' = Append(jobs, j) \/ jobs' = jobs
  BY <1>1 DEF RouteJob, workerVars, coreVars, auditVars, TakesFrame
<1>3. PICK key : key = KeyOf(j)
  OBVIOUS
<1>4. Carries(j) /\ FrameKey(j) = key /\ key \in Keys
  BY <1>2, <1>3, KeysTyped
<1>5. UpDistinct' /\ UpKeys' \subseteq UpKeys /\ key \in UpKeys /\ key \notin UpKeys'
  BY <1>1, <1>2, <1>4, FrameTaken DEF RiskInv, HandInv
<1>6. ServingKeys' = ServingKeys /\ ReportKeys' = ReportKeys /\ PausedKeys' = PausedKeys
  BY <1>2, Unmoved
<1>7. key \notin KeysOf(jobs)
  BY <1>5, HeldIs DEF RiskInv, HandInv, OnePlace, Places
<1>8. Distinct(jobs') /\ KeysOf(jobs') \subseteq KeysOf(jobs) \cup {key}
  <2>1. jobs \in Seq(Job) /\ Distinct(jobs)
    BY DEF RiskInv, CallInv, TypeOK, HandInv, SeqsDistinct
  <2>2. CASE jobs' = jobs
    BY <2>1, <2>2
  <2>3. CASE jobs' = Append(jobs, j)
    <3>1. Distinct(Append(jobs, j)) /\ KeysOf(Append(jobs, j)) = KeysOf(jobs) \cup {key}
      BY <1>2, <1>3, <1>7, <2>1, AppendKeys
    <3>2. QED
      BY <2>3, <3>1
  <2>4. QED
    BY <1>2, <2>2, <2>3
<1>9. /\ key \in Held["up"] /\ key \notin Held'["up"]
      /\ Held'["jobs"] \subseteq Held["jobs"] \cup {key}
      /\ \A p \in Places \ {"jobs"} : Held'[p] \subseteq Held[p]
  BY <1>2, <1>5, <1>6, <1>8, HeldIs, HeldWillBe DEF Places
<1>10. OnePlace' /\ AllBegun'
  <2>1. "up" \in Places /\ "jobs" \in Places
    BY DEF Places
  <2>2. QED
    BY <1>9, <2>1, HandedKey DEF RiskInv, HandInv
<1>11. SeqsDistinct' /\ PausedDistinct' /\ CallsOfTheirJob'
  BY <1>2, <1>8 DEF RiskInv, HandInv, SeqsDistinct, PausedDistinct, CallsOfTheirJob
<1>12. QED
  BY <1>5, <1>10, <1>11 DEF HandInv

LEMMA RouteCompletionHand ==
  ASSUME RiskInv, KeepsBegun, RouteCompletion
  PROVE  HandInv'
<1>1. PICK a : a = Head(answers)
  OBVIOUS
<1>2. /\ UNCHANGED <<up, jobs, serving, report, pc, resume, resuming, paused, ran>>
      /\ answers # << >> /\ answers' = Tail(answers)
      /\ mail' = Append(mail, a) \/ mail' = mail
  BY <1>1 DEF RouteCompletion, workerVars, coreVars, auditVars
<1>3. PICK key : key = KeyOf(a)
  OBVIOUS
<1>4. /\ mail \in Seq(Completion) /\ Distinct(mail)
      /\ answers \in Seq(Completion) /\ Distinct(answers)
  BY DEF RiskInv, CallInv, TypeOK, HandInv, SeqsDistinct
<1>5. /\ key \in KeysOf(answers) /\ key \notin KeysOf(answers')
      /\ KeysOf(answers') \subseteq KeysOf(answers) /\ Distinct(answers')
      /\ a \in Completion /\ a \in Elems(answers) /\ Elems(answers') \subseteq Elems(answers)
  BY <1>1, <1>2, <1>3, <1>4, TailKeys, TailElems
<1>6. key \notin KeysOf(mail)
  BY <1>5, HeldIs DEF RiskInv, HandInv, OnePlace, Places
<1>7. /\ Distinct(mail') /\ KeysOf(mail') \subseteq KeysOf(mail) \cup {key}
      /\ Elems(mail') \subseteq Elems(mail) \cup {a}
  <2>1. CASE mail' = mail
    BY <1>4, <2>1
  <2>2. CASE mail' = Append(mail, a)
    <3>1. /\ Distinct(Append(mail, a)) /\ KeysOf(Append(mail, a)) = KeysOf(mail) \cup {key}
          /\ Elems(Append(mail, a)) = Elems(mail) \cup {a}
      BY <1>3, <1>4, <1>5, <1>6, AppendKeys, AppendElems
    <3>2. QED
      BY <2>2, <3>1
  <2>3. QED
    BY <1>2, <2>1, <2>2
<1>8. /\ UpKeys' = UpKeys /\ ServingKeys' = ServingKeys /\ ReportKeys' = ReportKeys
      /\ PausedKeys' = PausedKeys
  BY <1>2, Unmoved
<1>9. /\ key \in Held["answers"] /\ key \notin Held'["answers"]
      /\ Held'["mail"] \subseteq Held["mail"] \cup {key}
      /\ \A p \in Places \ {"mail"} : Held'[p] \subseteq Held[p]
  BY <1>2, <1>5, <1>7, <1>8, HeldIs, HeldWillBe DEF Places
<1>10. OnePlace' /\ AllBegun'
  <2>1. "answers" \in Places /\ "mail" \in Places
    BY DEF Places
  <2>2. QED
    BY <1>9, <2>1, HandedKey DEF RiskInv, HandInv
<1>11. SeqsDistinct' /\ UpDistinct' /\ PausedDistinct'
  BY <1>2, <1>5, <1>7 DEF RiskInv, HandInv, SeqsDistinct, UpDistinct, PausedDistinct
<1>12. CallsOfTheirJob'
  BY <1>2, <1>5, <1>7 DEF RiskInv, HandInv, CallsOfTheirJob
<1>13. QED
  BY <1>10, <1>11, <1>12 DEF HandInv

\* What the broker does changes none of these.
LEMMA BrokerKeeps ==
  ASSUME HandInv, UNCHANGED <<up, mail, report, pc, resume, resuming, paused, ran>>
  PROVE  /\ UpKeys' = UpKeys /\ ReportKeys' = ReportKeys
         /\ PausedKeys' = PausedKeys
         /\ UpDistinct' /\ PausedDistinct'
<1>1. /\ UpKeys' = UpKeys /\ ReportKeys' = ReportKeys
      /\ PausedKeys' = PausedKeys
  BY Unmoved
<1>2. UpDistinct' /\ PausedDistinct'
  BY DEF HandInv, UpDistinct, PausedDistinct
<1>3. QED
  BY <1>1, <1>2

LEMMA TakeJobHand ==
  ASSUME RiskInv, KeepsBegun, TakeJob
  PROVE  HandInv'
<1>1. PICK j, s : j = Head(jobs) /\ s = [job |-> j, provider |-> 1, attempt |-> 1]
  OBVIOUS
<1>2. /\ UNCHANGED <<up, mail, report, pc, resume, resuming, paused, ran, answers>>
      /\ jobs # << >> /\ jobs' = Tail(jobs) /\ serving' = << s >>
  BY <1>1 DEF TakeJob, workerVars, hubVars, coreVars, auditVars
<1>3. PICK key : key = KeyOf(j)
  OBVIOUS
<1>4. jobs \in Seq(Job) /\ Distinct(jobs)
  BY DEF RiskInv, CallInv, TypeOK, HandInv, SeqsDistinct
<1>5. /\ key \in KeysOf(jobs) /\ key \notin KeysOf(jobs')
      /\ KeysOf(jobs') \subseteq KeysOf(jobs) /\ Distinct(jobs')
  BY <1>1, <1>2, <1>3, <1>4, TailKeys
<1>6. ServingKeys' = {key}
  <2>1. Elems(serving') = {s}
    <3>1. s \in {s}
      OBVIOUS
    <3>2. QED
      BY <1>2, <3>1, OneElem
  <2>2. s.job = j
    BY <1>1
  <2>3. QED
    BY <1>3, <2>1, <2>2 DEF ServingKeys
<1>7. HandInv
  BY DEF RiskInv
<1>8. /\ key \in Held["jobs"] /\ key \notin Held'["jobs"]
      /\ Held'["serving"] \subseteq Held["serving"] \cup {key}
      /\ \A p \in Places \ {"serving"} : Held'[p] \subseteq Held[p]
  BY <1>2, <1>5, <1>6, <1>7, BrokerKeeps, HeldIs, HeldWillBe DEF Places
<1>9. OnePlace' /\ AllBegun'
  <2>1. "jobs" \in Places /\ "serving" \in Places
    BY DEF Places
  <2>2. QED
    BY <1>7, <1>8, <2>1, HandedKey DEF HandInv
<1>10. SeqsDistinct' /\ CallsOfTheirJob'
  BY <1>2, <1>5, <1>7 DEF HandInv, SeqsDistinct, CallsOfTheirJob
<1>11. QED
  BY <1>2, <1>7, <1>9, <1>10, BrokerKeeps DEF HandInv

\* The Job in hand is done with, and its completion, if one is written, carries its key.
LEMMA RepliedHand ==
  ASSUME RiskInv, KeepsBegun, serving # << >>, serving' = << >>,
         UNCHANGED <<up, mail, report, pc, resume, resuming, paused, ran, jobs>>,
         NEW ok, NEW calls \in Seq(Call), ok \in BOOLEAN, Reply(ok, calls),
         \A i \in 1 .. Len(calls) : KeyOf(calls[i]) = KeyOf(serving[1].job)
  PROVE  HandInv'
<1>1. PICK job : job = serving[1].job
  OBVIOUS
<1>2. PICK a : a = [turn |-> job.turn, round |-> job.round, ok |-> ok, calls |-> calls]
  OBVIOUS
<1>3. a \in Completion /\ KeyOf(a) = KeyOf(job) /\ OfTheirJob(a)
  <2>1. job.turn \in Turns /\ job.round \in Nat
    BY <1>1, ServingTyped DEF RiskInv, CallInv
  <2>2. a \in Completion
    BY <1>2, <2>1 DEF Completion
  <2>3. KeyOf(a) = KeyOf(job) /\ a.calls = calls
    BY <1>2 DEF KeyOf
  <2>4. QED
    BY <1>1, <2>2, <2>3 DEF OfTheirJob
<1>4. answers' = Append(answers, a) \/ answers' = answers
  BY <1>1, <1>2 DEF Reply
<1>5. PICK key : key = KeyOf(job)
  OBVIOUS
<1>6. key \in ServingKeys /\ ServingKeys' = {}
  <2>1. serving[1] \in Elems(serving)
    BY TailElems DEF RiskInv, CallInv, TypeOK
  <2>2. QED
    BY <1>1, <1>5, <2>1, EmptyElems DEF ServingKeys
<1>7. key \notin KeysOf(answers) /\ HandInv
  BY <1>6, HeldIs DEF RiskInv, HandInv, OnePlace, Places
<1>8. /\ Distinct(answers') /\ KeysOf(answers') \subseteq KeysOf(answers) \cup {key}
      /\ Elems(answers') \subseteq Elems(answers) \cup {a}
  <2>1. answers \in Seq(Completion) /\ Distinct(answers)
    BY DEF RiskInv, CallInv, TypeOK, HandInv, SeqsDistinct
  <2>2. CASE answers' = answers
    BY <2>1, <2>2
  <2>3. CASE answers' = Append(answers, a)
    <3>1. /\ Distinct(Append(answers, a))
          /\ KeysOf(Append(answers, a)) = KeysOf(answers) \cup {key}
          /\ Elems(Append(answers, a)) = Elems(answers) \cup {a}
      BY <1>3, <1>5, <1>7, <2>1, AppendKeys, AppendElems
    <3>2. QED
      BY <2>3, <3>1
  <2>4. QED
    BY <1>4, <2>2, <2>3
<1>9. /\ key \in Held["serving"] /\ key \notin Held'["serving"]
      /\ Held'["answers"] \subseteq Held["answers"] \cup {key}
      /\ \A p \in Places \ {"answers"} : Held'[p] \subseteq Held[p]
  BY <1>6, <1>7, <1>8, BrokerKeeps, HeldIs, HeldWillBe DEF Places
<1>10. OnePlace' /\ AllBegun'
  <2>1. "serving" \in Places /\ "answers" \in Places
    BY DEF Places
  <2>2. QED
    BY <1>7, <1>9, <2>1, HandedKey DEF HandInv
<1>11. SeqsDistinct'
  BY <1>7, <1>8 DEF HandInv, SeqsDistinct
<1>12. CallsOfTheirJob'
  BY <1>3, <1>7, <1>8 DEF HandInv, CallsOfTheirJob
<1>13. QED
  BY <1>7, <1>10, <1>11, <1>12, BrokerKeeps DEF HandInv

LEMMA ProviderAnswersHand ==
  ASSUME RiskInv, KeepsBegun, ProviderAnswers
  PROVE  HandInv'
<1>1. /\ UNCHANGED <<up, mail, report, pc, resume, resuming, paused, ran, jobs>>
      /\ serving # << >> /\ serving' = << >>
  BY DEF ProviderAnswers, JobIsDone, workerVars, hubVars, coreVars
<1>2. PICK tiers \in Replies :
        Reply(TRUE, [i \in DOMAIN tiers |->
          [turn |-> serving[1].job.turn, round |-> serving[1].job.round, pos |-> i,
           tier |-> tiers[i]]])
  BY DEF ProviderAnswers
<1>3. PICK calls : calls = [i \in DOMAIN tiers |->
          [turn |-> serving[1].job.turn, round |-> serving[1].job.round, pos |-> i,
           tier |-> tiers[i]]]
  OBVIOUS
<1>4. calls \in Seq(Call)
  BY <1>1, <1>3, CallsTyped DEF RiskInv, CallInv
<1>5. DOMAIN calls = 1 .. Len(calls)
  BY <1>4, LenProperties
<1>6. \A i \in 1 .. Len(calls) : KeyOf(calls[i]) = KeyOf(serving[1].job)
  BY <1>3, <1>5 DEF KeyOf
<1>7. Reply(TRUE, calls) /\ TRUE \in BOOLEAN
  BY <1>2, <1>3
<1>8. QED
  BY <1>1, <1>4, <1>6, <1>7, RepliedHand

\* The Job in hand stays in hand.
LEMMA GoesOnHand ==
  ASSUME RiskInv, KeepsBegun, serving # << >>, NEW s, serving' = << s >>, s.job = serving[1].job,
         UNCHANGED <<up, mail, report, pc, resume, resuming, paused, ran, jobs, answers>>
  PROVE  HandInv'
<1>1. ServingKeys' \subseteq ServingKeys
  <2>1. serving[1] \in Elems(serving)
    BY TailElems DEF RiskInv, CallInv, TypeOK
  <2>2. Elems(serving') = {s}
    <3>1. s \in {s}
      OBVIOUS
    <3>2. QED
      BY <3>1, OneElem
  <2>3. QED
    BY <2>1, <2>2 DEF ServingKeys
<1>2. HandInv
  BY DEF RiskInv
<1>3. \A p \in Places : Held'[p] \subseteq Held[p]
  BY <1>1, <1>2, BrokerKeeps, HeldIs, HeldWillBe DEF Places
<1>4. OnePlace' /\ AllBegun'
  BY <1>2, <1>3, DroppedKeys DEF HandInv
<1>5. SeqsDistinct' /\ CallsOfTheirJob'
  BY <1>2 DEF HandInv, SeqsDistinct, CallsOfTheirJob
<1>6. QED
  BY <1>2, <1>4, <1>5, BrokerKeeps DEF HandInv

LEMMA ProviderHiccupsHand ==
  ASSUME RiskInv, KeepsBegun, ProviderHiccups
  PROVE  HandInv'
<1>1. /\ UNCHANGED <<up, mail, report, pc, resume, resuming, paused, ran, jobs, answers>>
      /\ serving # << >> /\ serving' = << [serving[1] EXCEPT !.attempt = 2] >>
  BY DEF ProviderHiccups, workerVars, hubVars, coreVars
<1>2. PICK s : s = [serving[1] EXCEPT !.attempt = 2]
  OBVIOUS
<1>3. s.job = serving[1].job
  <2>1. serving[1] \in Serving
    BY <1>1, ServingTyped DEF RiskInv, CallInv
  <2>2. QED
    BY <1>2, <2>1 DEF Serving
<1>4. QED
  BY <1>1, <1>2, <1>3, GoesOnHand

LEMMA ProviderFailsHand ==
  ASSUME RiskInv, KeepsBegun, ProviderFails
  PROVE  HandInv'
<1>1. /\ UNCHANGED <<up, mail, report, pc, resume, resuming, paused, ran, jobs>>
      /\ serving # << >> /\ FallBack
  BY DEF ProviderFails, workerVars, hubVars, coreVars
<1>2. CASE serving[1].provider < Providers
  <2>1. PICK s : s = [serving[1] EXCEPT !.provider = @ + 1, !.attempt = 1]
    OBVIOUS
  <2>2. s.job = serving[1].job
    <3>1. serving[1] \in Serving
      BY <1>1, ServingTyped DEF RiskInv, CallInv
    <3>2. QED
      BY <2>1, <3>1 DEF Serving
  <2>3. serving' = << s >> /\ UNCHANGED answers
    BY <1>1, <1>2, <2>1 DEF FallBack
  <2>4. QED
    BY <1>1, <2>2, <2>3, GoesOnHand
<1>3. CASE ~(serving[1].provider < Providers)
  <2>1. serving' = << >> /\ Reply(FALSE, << >>)
    BY <1>1, <1>3 DEF FallBack, JobIsDone
  <2>2. << >> \in Seq(Call) /\ FALSE \in BOOLEAN
        /\ \A i \in 1 .. Len(<< >>) : KeyOf(<< >>[i]) = KeyOf(serving[1].job)
    BY EmptySeq
  <2>3. QED
    BY <1>1, <2>1, <2>2, RepliedHand
<1>4. QED
  BY <1>2, <1>3

LEMMA BrokerDropsHand ==
  ASSUME RiskInv, KeepsBegun, BrokerDrops \/ BrokerReconnects
  PROVE  HandInv'
<1>1. /\ UNCHANGED <<up, mail, report, pc, resume, resuming, paused, ran, serving>>
      /\ HandInv
  BY DEF RiskInv, BrokerDrops, BrokerReconnects, workerVars, hubVars, coreVars, auditVars
<1>2. ServingKeys' = ServingKeys
  BY <1>1, Unmoved
<1>3. /\ Elems(jobs') \subseteq Elems(jobs) /\ Distinct(jobs')
      /\ Elems(answers') \subseteq Elems(answers) /\ Distinct(answers')
  <2>1. Distinct(jobs) /\ Distinct(answers)
    BY <1>1 DEF HandInv, SeqsDistinct
  <2>2. CASE BrokerDrops
    <3>1. /\ Elems(jobs') \subseteq Elems(jobs) /\ \A i \in 1 .. Len(jobs') : jobs'[i] = jobs[i]
          /\ Len(jobs') \in Nat /\ Len(jobs) \in Nat /\ Len(jobs') <= Len(jobs)
          /\ Elems(answers') \subseteq Elems(answers)
          /\ \A i \in 1 .. Len(answers') : answers'[i] = answers[i]
          /\ Len(answers') \in Nat /\ Len(answers) \in Nat /\ Len(answers') <= Len(answers)
      BY <2>2, DropsPrefixes, LenProperties DEF RiskInv, CallInv, TypeOK
    <3>2. /\ \A i \in 1 .. Len(jobs') : i \in 1 .. Len(jobs)
          /\ \A i \in 1 .. Len(answers') : i \in 1 .. Len(answers)
      BY <3>1
    <3>3. QED
      BY <2>1, <3>1, <3>2 DEF Distinct
  <2>3. CASE BrokerReconnects
    BY <2>1, <2>3, EmptyElems, EmptyKeys DEF BrokerReconnects
  <2>4. QED
    BY <2>2, <2>3
<1>4. KeysOf(jobs') \subseteq KeysOf(jobs) /\ KeysOf(answers') \subseteq KeysOf(answers)
  BY <1>3 DEF KeysOf
<1>5. \A p \in Places : Held'[p] \subseteq Held[p]
  BY <1>1, <1>2, <1>4, BrokerKeeps, HeldIs, HeldWillBe DEF Places
<1>6. OnePlace' /\ AllBegun'
  BY <1>1, <1>5, DroppedKeys DEF HandInv
<1>7. SeqsDistinct' /\ CallsOfTheirJob'
  BY <1>1, <1>3 DEF HandInv, SeqsDistinct, CallsOfTheirJob
<1>8. QED
  BY <1>1, <1>6, <1>7, BrokerKeeps DEF HandInv

LEMMA RiskStep == RiskInv /\ [Next]_vars => RiskInv'
<1> SUFFICES ASSUME RiskInv, [Next]_vars PROVE RiskInv'
  OBVIOUS
<1>1. CallInv' /\ KeepsBegun
  BY CallInvStep, BegunKept DEF RiskInv
<1>2. CASE SpawnTurn \/ SpawnResume
  BY <1>1, <1>2, SpawnTurnHand, SpawnResumeHand DEF RiskInv
<1>3. CASE Worker \/ Killed
  BY <1>1, <1>3, ResolveHand, SendJobHand, WordsHand, ReadRiskyHand, WriteResultHand
     DEF RiskInv, Worker, ToolLoop
<1>4. ASSUME NEW t \in Turns, RouteResult(t) \/ RouteJob(t)
      PROVE  HandInv'
  BY <1>1, <1>4, RouteResultHand, RouteJobHand
<1>5. CASE RouteCompletion \/ TakeJob \/ Chain \/ BrokerDrops \/ BrokerReconnects
  BY <1>1, <1>5, RouteCompletionHand, TakeJobHand, ProviderAnswersHand, ProviderHiccupsHand,
     ProviderFailsHand, BrokerDropsHand DEF RiskInv, Chain
<1>6. ASSUME UNCHANGED vars \/ \E t \in Turns : Close(t)
      PROVE  HandInv'
  <2>1. UNCHANGED <<up, jobs, serving, answers, mail, report, pc, paused, resuming, resume, ran>>
    BY <1>6 DEF Close, vars, workerVars, hubVars, brokerVars, coreVars, auditVars
  <2>2. /\ Held' = Held /\ UpDistinct' /\ SeqsDistinct' /\ PausedDistinct' /\ CallsOfTheirJob'
    BY <2>1, SameKeys DEF RiskInv
  <2>3. OnePlace' /\ AllBegun'
    BY <1>1, <2>2, DroppedKeys DEF RiskInv, HandInv
  <2>4. QED
    BY <2>2, <2>3 DEF HandInv
<1>7. CASE Core
  BY <1>1, <1>7, TapHand, GivenUpHand DEF RiskInv, Core
<1>8. QED
  BY <1>1, <1>2, <1>3, <1>4, <1>5, <1>6, <1>7 DEF RiskInv, Next, Hub, Broker, Done

\* Whoever may run a call, or will, has the owner's yes to the question that named it.
RowsWereAsked == \A t \in DOMAIN paused : [turn |-> t, call |-> paused[t].call] \in asked
ResumingConsent == \A x \in Elems(resuming) : x.approved => Consented(x.call)
ResumeConsent == \A x \in Elems(resume) : x.approved => Consented(x.call)
RanConsent == \A c \in Elems(ran) : Consented(c)

ConsentInv == CallInv /\ RowsWereAsked /\ ResumingConsent /\ ResumeConsent /\ RanConsent

\* A question shown is not taken back, and neither is a yes.
LEMMA ConsentStays ==
  ASSUME asked \subseteq asked', approved \subseteq approved', NEW c, Consented(c)
  PROVE  Consented(c)'
  BY DEF Consented, AskedIn

LEMMA InitConsent == Init => ConsentInv
<1> SUFFICES ASSUME Init PROVE ConsentInv
  OBVIOUS
<1>1. RowsWereAsked
  BY InitPaused, OldRowTyped DEF RowsWereAsked
<1>2. ResumingConsent /\ ResumeConsent /\ RanConsent
  BY EmptyElems DEF Init, ResumingConsent, ResumeConsent, RanConsent
<1>3. QED
  BY <1>1, <1>2, InitCalls DEF ConsentInv

\* A step that moves no call on the way to its execution, but may give some up.
LEMMA SameConsent ==
  ASSUME ConsentInv, CallInv', asked \subseteq asked', approved \subseteq approved', ran' = ran,
         resume' = resume \/ resume' = << >>, resuming' = resuming \/ resuming' = << >>,
         DOMAIN paused' \subseteq DOMAIN paused, \A t \in DOMAIN paused' : paused'[t] = paused[t]
  PROVE  ConsentInv'
<1>1. \A c : Consented(c) => Consented(c)'
  BY ConsentStays
<1>2. RowsWereAsked'
  BY DEF ConsentInv, RowsWereAsked
<1>3. Elems(resume') \subseteq Elems(resume) /\ Elems(resuming') \subseteq Elems(resuming)
  BY EmptyElems
<1>4. ResumingConsent' /\ ResumeConsent' /\ RanConsent'
  BY <1>1, <1>3 DEF ConsentInv, ResumingConsent, ResumeConsent, RanConsent
<1>5. QED
  BY <1>2, <1>4 DEF ConsentInv

LEMMA SpawnResumeConsent ==
  ASSUME ConsentInv, CallInv', SpawnResume
  PROVE  ConsentInv'
<1>1. PICK x, r : x = resuming[1] /\ r = [call |-> x.call, approved |-> x.approved]
  OBVIOUS
<1>2. /\ UNCHANGED <<asked, approved, paused, ran>>
      /\ resuming # << >> /\ resuming' = << >> /\ resume' = << r >>
  BY <1>1 DEF SpawnResume, Connect, auditVars
<1>3. \A c : Consented(c) => Consented(c)'
  BY <1>2, ConsentStays
<1>4. ResumeConsent'
  <2>1. r \in {r}
    OBVIOUS
  <2>2. Elems(resume') = {r} /\ r.call = x.call /\ r.approved = x.approved
    BY <1>1, <1>2, <2>1, OneElem
  <2>3. x \in Elems(resuming)
    BY <1>1, <1>2, ResumingTyped DEF ConsentInv
  <2>4. QED
    BY <1>3, <2>2, <2>3 DEF ConsentInv, ResumingConsent, ResumeConsent
<1>5. RowsWereAsked' /\ ResumingConsent' /\ RanConsent'
  BY <1>2, <1>3, EmptyElems DEF ConsentInv, RowsWereAsked, ResumingConsent, RanConsent
<1>6. QED
  BY <1>4, <1>5 DEF ConsentInv

LEMMA ResolveConsent ==
  ASSUME ConsentInv, CallInv', Resolve
  PROVE  ConsentInv'
<1>1. PICK x : x = resume[1]
  OBVIOUS
<1>2. /\ UNCHANGED <<asked, approved, paused, resuming>> /\ resume' = << >>
      /\ ran' = IF x.approved THEN Append(ran, x.call) ELSE ran
  BY <1>1 DEF Resolve, coreVars
<1>3. x \in Elems(resume) /\ x.call \in Call /\ ran \in Seq(Call)
  BY <1>1, ResumeTyped DEF Resolve, ConsentInv, CallInv, TypeOK
<1>4. \A c : Consented(c) => Consented(c)'
  BY <1>2, ConsentStays
<1>5. RanConsent'
  <2>1. CASE x.approved
    <3>1. Elems(ran') = Elems(ran) \cup {x.call}
      BY <1>2, <1>3, <2>1, AppendElems
    <3>2. QED
      BY <1>3, <1>4, <2>1, <3>1 DEF ConsentInv, ResumeConsent, RanConsent
  <2>2. CASE ~x.approved
    BY <1>2, <1>4, <2>2 DEF ConsentInv, RanConsent
  <2>3. QED
    BY <2>1, <2>2
<1>6. RowsWereAsked' /\ ResumingConsent' /\ ResumeConsent'
  BY <1>2, <1>4, EmptyElems DEF ConsentInv, RowsWereAsked, ResumingConsent, ResumeConsent
<1>7. QED
  BY <1>5, <1>6 DEF ConsentInv

LEMMA ParksConsent ==
  ASSUME ConsentInv, CallInv', NEW t \in Turns, RouteResult(t)
  PROVE  ConsentInv'
<1>1. PICK r : r = Head(up[t])
  OBVIOUS
<1>2. /\ UNCHANGED <<approved, ran, resume, resuming>>
      /\ Parks(r) \/ UNCHANGED <<asked, paused>>
  BY <1>1 DEF RouteResult, workerVars, auditVars
<1>3. CASE UNCHANGED paused
  BY <1>2, <1>3, SameConsent DEF Parks
<1>4. CASE /\ asked' = asked \cup {[turn |-> r.turn, call |-> r.call]}
           /\ paused' = [u \in DOMAIN paused \cup {r.turn} |->
                           IF u = r.turn THEN [call |-> r.call, convo |-> r.convo] ELSE paused[u]]
  <2>1. /\ DOMAIN paused' = DOMAIN paused \cup {r.turn} /\ paused'[r.turn].call = r.call
        /\ \A u \in DOMAIN paused' \ {r.turn} : u \in DOMAIN paused /\ paused'[u] = paused[u]
    BY <1>4
  <2>2. RowsWereAsked'
    <3> SUFFICES ASSUME NEW u \in DOMAIN paused'
                 PROVE  [turn |-> u, call |-> paused'[u].call] \in asked'
      BY DEF RowsWereAsked
    <3>1. CASE u = r.turn
      BY <1>4, <2>1, <3>1
    <3>2. CASE u # r.turn
      BY <1>4, <2>1, <3>2 DEF ConsentInv, RowsWereAsked
    <3>3. QED
      BY <3>1, <3>2
  <2>3. \A c : Consented(c) => Consented(c)'
    BY <1>2, <1>4, ConsentStays
  <2>4. ResumingConsent' /\ ResumeConsent' /\ RanConsent'
    BY <1>2, <2>3 DEF ConsentInv, ResumingConsent, ResumeConsent, RanConsent
  <2>5. QED
    BY <2>2, <2>4 DEF ConsentInv
<1>5. QED
  BY <1>2, <1>3, <1>4 DEF Parks

\* The yes of a tap is a yes to the question under which the row was parked.
LEMMA TapConsent ==
  ASSUME ConsentInv, CallInv', NEW t \in 0 .. MaxTurns, Tap(t)
  PROVE  ConsentInv'
<1>1. PICK tap \in Taps :
        /\ resuming' = <<[call |-> paused[t].call, convo |-> paused[t].convo,
                          approved |-> tap = "yes"]>>
        /\ approved' = approved \cup (IF tap = "yes" THEN {t} ELSE {})
  BY DEF Tap
<1>2. PICK x : x = [call |-> paused[t].call, convo |-> paused[t].convo, approved |-> tap = "yes"]
  OBVIOUS
<1>3. /\ UNCHANGED <<asked, ran, resume>> /\ approved \subseteq approved'
      /\ t \in DOMAIN paused /\ DOMAIN paused' \subseteq DOMAIN paused
      /\ \A u \in DOMAIN paused' : paused'[u] = paused[u]
  BY <1>1 DEF Tap, TakeRow, workerVars, auditVars
<1>4. \A c : Consented(c) => Consented(c)'
  BY <1>3, ConsentStays
<1>5. x.approved => Consented(x.call)'
  <2> SUFFICES ASSUME x.approved PROVE Consented(x.call)'
    OBVIOUS
  <2>1. t \in approved' /\ x.call = paused[t].call
    BY <1>1, <1>2
  <2>2. [turn |-> t, call |-> x.call] \in asked'
    BY <1>3, <2>1 DEF ConsentInv, RowsWereAsked
  <2>3. x.call \in AskedIn(t)'
    BY <2>2 DEF AskedIn
  <2>4. QED
    BY <2>1, <2>3 DEF Consented
<1>6. ResumingConsent'
  <2>1. x \in {x} /\ resuming' = << x >>
    BY <1>1, <1>2
  <2>2. Elems(resuming') = {x}
    BY <2>1, OneElem
  <2>3. QED
    BY <1>5, <2>2 DEF ResumingConsent
<1>7. RowsWereAsked' /\ ResumeConsent' /\ RanConsent'
  BY <1>3, <1>4 DEF ConsentInv, RowsWereAsked, ResumeConsent, RanConsent
<1>8. QED
  BY <1>6, <1>7 DEF ConsentInv

LEMMA ConsentStep == ConsentInv /\ [Next]_vars => ConsentInv'
<1> SUFFICES ASSUME ConsentInv, [Next]_vars PROVE ConsentInv'
  OBVIOUS
<1>1. CallInv'
  BY CallInvStep DEF ConsentInv
<1>2. CASE SpawnResume
  BY <1>1, <1>2, SpawnResumeConsent
<1>3. CASE Resolve
  BY <1>1, <1>3, ResolveConsent
<1>4. ASSUME NEW t \in Turns, RouteResult(t)
      PROVE  ConsentInv'
  BY <1>1, <1>4, ParksConsent
<1>5. ASSUME NEW t \in 0 .. MaxTurns, Tap(t)
      PROVE  ConsentInv'
  BY <1>1, <1>5, TapConsent
<1>6. CASE ResumeFails \/ \E t \in 0 .. MaxTurns : RowExpires(t)
  <2>1. /\ UNCHANGED <<asked, approved, ran, resume>> /\ (resuming' = resuming \/ resuming' = << >>)
        /\ DOMAIN paused' \subseteq DOMAIN paused /\ \A t \in DOMAIN paused' : paused'[t] = paused[t]
    BY <1>6 DEF ResumeFails, RowExpires, workerVars, auditVars
  <2>2. QED
    BY <1>1, <2>1, SameConsent
<1>7. CASE SpawnTurn
  BY <1>1, <1>7, SameConsent DEF SpawnTurn, Connect, auditVars
<1>8. CASE SendJob \/ ShortOnTime \/ ToolLoop \/ GiveUp \/ WriteResult \/ Killed
  <2>1. UNCHANGED <<asked, approved, paused, resuming, ran>> /\ (resume' = resume \/ resume' = << >>)
    BY <1>8 DEF SendJob, ShortOnTime, ToolLoop, ReadFailure, ReadText, ReadTooMany, ReadFree,
                ReadRisky, Read, GiveUp, WriteResult, Killed, Exit, coreVars, auditVars
  <2>2. QED
    BY <1>1, <2>1, SameConsent
<1>9. ASSUME \/ RouteCompletion \/ Broker \/ BrokerDrops \/ UNCHANGED vars
             \/ \E t \in Turns : RouteJob(t) \/ Close(t)
      PROVE  ConsentInv'
  <2>1. UNCHANGED <<asked, approved, paused, resuming, resume, ran>>
    BY <1>9 DEF RouteCompletion, RouteJob, Close, Broker, TakeJob, Chain, ProviderAnswers,
                ProviderHiccups, ProviderFails, BrokerReconnects, BrokerDrops, vars, workerVars,
                coreVars, auditVars
  <2>2. QED
    BY <1>1, <2>1, SameConsent
<1>10. QED
  BY <1>2, <1>3, <1>4, <1>5, <1>6, <1>7, <1>8, <1>9 DEF Next, Core, Worker, Hub, Done

\* No RISKY call is executed twice, and none without the owner's yes to the very question
\* that named it, whichever taps, completions, rows and workers are late, lost or stale.
THEOREM RiskySafe == Spec => []RiskyRunsOnceApproved
<1>1. Init => RiskInv /\ ConsentInv
  BY InitCalls, InitHand, InitConsent DEF RiskInv
<1>2. RiskInv /\ ConsentInv => RiskyRunsOnceApproved
  <2> SUFFICES ASSUME RiskInv, ConsentInv PROVE RiskyRunsOnceApproved
    OBVIOUS
  <2>1. Distinct(ran) /\ RanConsent /\ DOMAIN ran = 1 .. Len(ran)
    BY LenProperties DEF RiskInv, ConsentInv, CallInv, TypeOK, HandInv, SeqsDistinct
  <2>2. QED
    BY <2>1 DEF Distinct, RanConsent, Elems, RiskyRunsOnceApproved
<1>3. QED
  BY <1>1, <1>2, RiskStep, ConsentStep, PTL DEF Spec

-------------------------------------------------------------------------------
(* The three timeouts around the exchange *)

\* What the resolved timeout is: a finite one of at least the floor, nan or inf.
LEMMA ResolvedTimeout ==
  ASSUME NEW knob \in Knobs
  PROVE  IF knob.kind \in {"nan", "inf"}
         THEN TurnTimeout(knob) = knob
         ELSE LET t == TurnTimeout(knob)
              IN  /\ t \in [kind : {"finite"}, num : Int, den : Nat \ {0}]
                  /\ t.num >= 15 * t.den
<1>1. CASE knob.kind \in {"unset", "invalid"}
  BY <1>1 DEF TurnTimeout, ResolveTurnTimeout, DefaultTurnTimeout, Seconds
<1>2. CASE knob.kind \in {"nan", "inf", "-inf"}
  BY <1>2 DEF TurnTimeout, ResolveTurnTimeout, MinTurnTimeout, Seconds, Below
<1>3. CASE knob \in Finite
  <2>1. /\ knob \in [kind : {"finite"}, num : Int, den : Nat \ {0}]
        /\ knob.num \in Int /\ knob.den \in Nat \ {0} /\ knob.kind = "finite"
    BY <1>3 DEF Finite
  <2>2. CASE knob.num < 15 * knob.den
    BY <2>1, <2>2 DEF TurnTimeout, ResolveTurnTimeout, MinTurnTimeout, Seconds, Below
  <2>3. CASE ~(knob.num < 15 * knob.den)
    BY <2>1, <2>3 DEF TurnTimeout, ResolveTurnTimeout, MinTurnTimeout, Seconds, Below
  <2>4. QED
    BY <2>2, <2>3
<1>4. QED
  BY <1>1, <1>2, <1>3 DEF Knobs, Floats

\* Multiplying by a denominator keeps an order.
LEMMA ScaledOrder ==
  ASSUME NEW a \in Int, NEW b \in Int, NEW d \in Nat \ {0}, a < b
  PROVE  a * d < b * d
<1>1. (b - a) * d > 0
  OBVIOUS
<1>2. QED
  BY <1>1

\* Whatever SHELLDON_TURN_TIMEOUT holds, fractions and nonsense included, a worker gives up
\* before it is killed, is killed before the core gives the turn up, and has less time to
\* write a Result than to wait for a completion; nan and inf are the only exceptions.
THEOREM ChainIsCoherent ==
  ASSUME NEW knob \in Knobs
  PROVE  Coherent(knob) <=> knob.kind \notin {"nan", "inf"}
<1>1. CASE knob.kind \in {"nan", "inf"}
  <2>1. TurnTimeout(knob) = knob
    BY <1>1, ResolvedTimeout
  <2>2. ReapTimeout(knob) = knob
    BY <1>1, <2>1 DEF ReapTimeout, Minus
  <2>3. ~Below(knob, knob)
    BY <1>1 DEF Below
  <2>4. QED
    BY <1>1, <2>1, <2>2, <2>3 DEF Coherent
<1>2. CASE knob.kind \notin {"nan", "inf"}
  <2> DEFINE t == TurnTimeout(knob)
             r == ReapTimeout(knob)
             w == CompletionTimeout(knob)
  <2>1. /\ t \in [kind : {"finite"}, num : Int, den : Nat \ {0}]
        /\ t.num >= 15 * t.den
    BY <1>2, ResolvedTimeout
  <2>2. /\ t.kind = "finite" /\ t.num \in Int /\ t.den \in Nat \ {0}
        /\ r = [t EXCEPT !.num = t.num - 2 * t.den]
        /\ w = [t EXCEPT !.num = t.num - 5 * t.den]
    BY <2>1 DEF ReapTimeout, CompletionTimeout, Minus, ReapMargin, CompletionMargin
  <2>3. /\ r.kind = "finite" /\ r.num = t.num - 2 * t.den /\ r.den = t.den
        /\ w.kind = "finite" /\ w.num = t.num - 5 * t.den /\ w.den = t.den
    BY <2>1, <2>2
  <2> HIDE DEF t, r, w
  <2>4. /\ r.num \in Int /\ w.num \in Int
        /\ 5 * t.den < w.num /\ w.num < r.num /\ r.num < t.num
    BY <2>1, <2>2, <2>3
  <2>5. w.num * t.den < r.num * t.den /\ r.num * t.den < t.num * t.den
    BY <2>2, <2>4, ScaledOrder
  <2>6. Below(ResultWriteTimeout, w) /\ Below(w, r) /\ Below(r, t)
    BY <2>2, <2>3, <2>4, <2>5 DEF Below, ResultWriteTimeout, Seconds
  <2>7. QED
    BY <1>2, <2>6 DEF Coherent, t, r, w
<1>3. QED
  BY <1>1, <1>2
===============================================================================
