------------------------------- MODULE Exchange -------------------------------
(***************************************************************************)
(* One worker after another asks the broker for completions through the    *)
(* hub of the core: worker/worker.py, broker/service.py, broker/broker.py  *)
(* and core/bus/server.py.  TurnLoop sees a worker as one step that writes *)
(* a Result; here is what happens inside it.  A worker lives for one turn; *)
(* the broker is one long-lived process that serves one Job at a time, and *)
(* goes on serving a Job whose worker is gone.  Connections are FIFO and   *)
(* independent of each other.  Durations are abstracted: a worker may run  *)
(* out of time at every wait, and may be killed at any moment.             *)
(***************************************************************************)
EXTENDS Naturals, Sequences, FiniteSets

CONSTANTS
  MaxTurns,   \* workers forked
  MaxTools,   \* _MAX_TOOL_EXECUTIONS
  Providers,  \* the length of the provider chain
  Replies,    \* the tool calls a completion may carry, by tier; <<>> is a text reply
  MaxDrops,   \* times the connection between hub and broker is lost
  Audited     \* the turns whose provider calls are counted; Turns to count them all

ASSUME ExchangeAssumption ==
  /\ MaxTurns \in Nat /\ MaxTools \in Nat /\ MaxDrops \in Nat
  /\ Providers \in Nat \ {0}
  /\ Replies \subseteq Seq({"free", "risky"})

VARIABLES
  turn,       \* turns are numbered 1, 2, ...; the last one a worker was forked for
  pc,         \* what the worker of turn is doing, "gone" once it has exited
  round,      \* the iteration of its tool loop
  convo,      \* the calls its conversation holds, and those it holds a result for
  report,     \* the Result it is about to write
  resume,     \* its ResumeState, <<>> for a fresh turn and once the call is resolved
  up,         \* per turn: frames its worker wrote, not yet read by the hub
  open,       \* turns whose connection still has its handler in the hub
  registered, \* the turn whose connection is the registry's WORKER, 0 for none
  mail,       \* completions written to the live worker, not yet read
  brokerUp,   \* the broker is in the registry
  jobs,       \* Jobs in the broker's connection
  serving,    \* <<the Job in hand_job_chain, with provider and attempt>>, or <<>>
  answers,    \* completions written by the broker, not yet read by the hub
  asked,      \* the calls put before the owner, with the turn of the buttons (history variable)
  paused,     \* RequestToolApproval ops core has parked, by turn
  resuming,   \* <<what _start_resume_turn took from a row>> until its fork, or <<>>
  approved,   \* turns whose question the owner answered with yes (history variable)
  ran,        \* RISKY calls executed, in order (history variable)
  spent,      \* provider calls made for each turn's Jobs (history variable)
  gaveUp,     \* turns whose worker left with a Job unanswered (history variable)
  drops       \* how much of MaxDrops is used

workerVars == <<turn, pc, round, convo, report, resume>>
hubVars    == <<up, open, registered, mail>>
brokerVars == <<brokerUp, jobs, serving, answers, drops>>
coreVars   == <<asked, paused, resuming, approved>>
auditVars  == <<ran, spent, gaveUp>>
vars == <<workerVars, hubVars, brokerVars, coreVars, auditVars>>

-------------------------------------------------------------------------------
(* Types *)

Turns == 1..MaxTurns
Tiers == {"free", "risky"}

\* Call ids are the provider's: here the Job that was answered, and a position.
Call  == [turn : 0..MaxTurns, round : Nat, pos : Nat, tier : Tiers]
Convo == [asked : Seq(Call), answered : Seq(Call)]
Job   == [turn : Turns, round : Nat, convo : Convo]
Completion == [turn : Turns, round : Nat, ok : BOOLEAN, calls : Seq(Call)]

\* "from" is the turn whose completion a text reply is made of, 0 for the worker's own words.
Result ==
  [turn : Turns, kind : {"text", "tired", "fail"}, from : 0..MaxTurns]
  \cup [turn : Turns, kind : {"ask"}, from : Turns, call : Call, convo : Convo]
Frame == Job \cup Result
ResumeState == [call : Call, approved : BOOLEAN]
Resumption  == [call : Call, convo : Convo, approved : BOOLEAN]
Serving == [job : Job, provider : 1..Providers, attempt : 1..2]

TypeOK ==
  /\ turn \in 0..MaxTurns
  /\ pc \in {"gone", "resolve", "ask", "wait", "report"}
  /\ round \in 0..MaxTools
  /\ convo \in Convo
  /\ report \in Seq(Result)
  /\ resume \in Seq(ResumeState)
  /\ up \in [Turns -> Seq(Frame)]
  /\ open \subseteq Turns /\ registered \in 0..MaxTurns
  /\ mail \in Seq(Completion)
  /\ brokerUp \in BOOLEAN /\ jobs \in Seq(Job)
  /\ serving \in Seq(Serving)
  /\ answers \in Seq(Completion)
  /\ asked \subseteq [turn : 0..MaxTurns, call : Call]
  /\ DOMAIN paused \subseteq 0..MaxTurns
  /\ \A t \in DOMAIN paused : paused[t] \in [call : Call, convo : Convo]
  /\ resuming \in Seq(Resumption)
  /\ approved \subseteq 0..MaxTurns /\ ran \in Seq(Call)
  /\ spent \in [Turns -> Nat]
  /\ gaveUp \subseteq Turns
  /\ drops \in 0..MaxDrops

-------------------------------------------------------------------------------
(* The worker *)

Fresh == [asked |-> <<>>, answered |-> <<>>]

\* Fork, connect and registration as one step: core forks the next worker only
\* after turns of the event loop in which the hub read this registration.
Connect ==
  /\ pc = "gone" /\ turn < MaxTurns
  /\ turn' = turn + 1
  /\ round' = 0
  /\ report' = <<>>
  /\ open' = open \cup {turn'}
  /\ registered' = turn'
  /\ mail' = <<>>
  /\ UNCHANGED <<up, brokerVars, asked, auditVars>>

\* spawn_turn: a new conversation.
SpawnTurn ==
  /\ resuming = <<>>
  /\ Connect
  /\ pc' = "ask"
  /\ convo' = Fresh /\ resume' = <<>>
  /\ UNCHANGED <<paused, resuming, approved>>

\* spawn_resume: another worker goes on where the paused one stopped.
SpawnResume ==
  /\ resuming # <<>>
  /\ Connect
  /\ pc' = "resolve"
  /\ convo' = resuming[1].convo
  /\ resume' = <<[call |-> resuming[1].call, approved |-> resuming[1].approved]>>
  /\ resuming' = <<>>
  /\ UNCHANGED <<paused, approved>>

\* The head of _resume_loop: run the call if approved; it gets a result either way.
Resolve ==
  /\ pc = "resolve"
  /\ ran' = IF resume[1].approved THEN Append(ran, resume[1].call) ELSE ran
  /\ convo' = [convo EXCEPT !.answered = Append(@, resume[1].call)]
  /\ resume' = <<>>
  /\ pc' = "ask"
  /\ UNCHANGED <<turn, round, report, hubVars, brokerVars, coreVars, spent, gaveUp>>

SendJob ==
  /\ pc = "ask"
  /\ up' = [up EXCEPT ![turn] = Append(@, [turn |-> turn, round |-> round, convo |-> convo])]
  /\ pc' = "wait"
  /\ UNCHANGED <<turn, round, convo, report, resume, open, registered, mail, brokerVars, coreVars,
                 auditVars>>

Reporting(kind, from) ==
  /\ report' = <<[turn |-> turn, kind |-> kind, from |-> from]>>
  /\ pc' = "report"

\* Less than two seconds left at the top of the loop.
ShortOnTime ==
  /\ pc = "ask"
  /\ Reporting("tired", 0)
  /\ UNCHANGED <<turn, round, convo, resume, hubVars, brokerVars, coreVars, auditVars>>

\* _read_completion hands over the next completion, whichever Job it answers.
Read ==
  /\ pc = "wait" /\ mail # <<>>
  /\ mail' = Tail(mail)
  /\ UNCHANGED <<turn, resume, up, open, registered, brokerVars, coreVars, auditVars>>

ReadFailure ==
  /\ Read
  /\ ~Head(mail).ok
  /\ Reporting("fail", 0)
  /\ UNCHANGED <<round, convo>>

ReadText ==
  /\ Read
  /\ Head(mail).ok /\ Head(mail).calls = <<>>
  /\ Reporting("text", Head(mail).turn)
  /\ UNCHANGED <<round, convo>>

TooManyToolsLate == Head(mail).calls # <<>> /\ round > MaxTools
TooManyTools == Head(mail).calls # <<>> /\ round >= MaxTools

ReadTooMany ==
  /\ Read
  /\ TooManyTools
  /\ Reporting("tired", 0)
  /\ UNCHANGED <<round, convo>>

RiskyIn(calls) == {i \in DOMAIN calls : calls[i].tier = "risky"}
FirstRisky(calls) == {i \in RiskyIn(calls) : \A j \in RiskyIn(calls) : i <= j}

\* Only FREE calls: each is executed and answered, and the loop goes on.
ReadFree ==
  /\ Read
  /\ LET calls == Head(mail).calls
     IN  /\ calls # <<>> /\ ~TooManyTools /\ RiskyIn(calls) = {}
         /\ convo' = [asked |-> convo.asked \o calls, answered |-> convo.answered \o calls]
  /\ round' = round + 1
  /\ pc' = "ask"
  /\ UNCHANGED report

KeepAllCalls(calls, i) == calls

\* The calls a paused conversation keeps: up to the risky one, later ones are dropped.
KeptCalls(calls, i) == SubSeq(calls, 1, i)

\* The first RISKY call ends the turn: the calls before it are executed, it and its
\* conversation go to core to wait for the owner.
ReadRisky ==
  /\ Read
  /\ ~TooManyTools
  /\ LET calls == Head(mail).calls
     IN  \E i \in FirstRisky(calls) :
           report' = <<[turn |-> turn, kind |-> "ask", from |-> Head(mail).turn,
             call |-> calls[i],
             convo |-> [asked    |-> convo.asked \o KeptCalls(calls, i),
                        answered |-> convo.answered \o SubSeq(calls, 1, i - 1)]]>>
  /\ pc' = "report"
  /\ UNCHANGED <<round, convo>>

\* _read_completion stops waiting: its share of the budget is over, the frame is bad, or
\* the hub is gone.
GiveUp ==
  /\ pc = "wait"
  /\ Reporting("fail", 0)
  /\ gaveUp' = gaveUp \cup {turn}
  /\ UNCHANGED <<turn, round, convo, resume, hubVars, brokerVars, coreVars, ran, spent>>

\* Its memory and whatever was in its socket go with it.
Exit ==
  /\ pc' = "gone" /\ round' = 0 /\ convo' = Fresh /\ report' = <<>> /\ resume' = <<>>
  /\ mail' = <<>>
  /\ UNCHANGED <<turn, open, registered, brokerVars, coreVars, ran, spent>>

WriteResult ==
  /\ pc = "report"
  /\ up' = [up EXCEPT ![turn] = Append(@, report[1])]
  /\ Exit
  /\ UNCHANGED gaveUp

\* Killed by the reaper, crashed, or unable to write its Result.
Killed ==
  /\ pc # "gone"
  /\ gaveUp' = IF pc = "wait" THEN gaveUp \cup {turn} ELSE gaveUp
  /\ Exit
  /\ UNCHANGED up

-------------------------------------------------------------------------------
(* The hub: one handler per connection *)

\* The fence lets a Result in: core shows the question with buttons and parks its row,
\* unless that fails.
Parks(r) ==
  /\ asked' = asked \cup {[turn |-> r.turn, call |-> r.call]}
  /\ \/ paused' = [u \in DOMAIN paused \cup {r.turn} |->
                    IF u = r.turn THEN [call |-> r.call, convo |-> r.convo] ELSE paused[u]]
     \/ UNCHANGED paused

\* A Result without a question, or one the fence rejects, changes nothing here.
RouteResult(t) ==
  /\ t \in open /\ up[t] # <<>> /\ Head(up[t]) \in Result
  /\ up' = [up EXCEPT ![t] = Tail(@)]
  /\ \/ Head(up[t]).kind = "ask" /\ Parks(Head(up[t]))
     \/ UNCHANGED <<asked, paused>>
  /\ UNCHANGED <<workerVars, open, registered, mail, brokerVars, resuming, approved, auditVars>>

\* A JOB for a broker that is not registered is dropped with a warning.
RouteJob(t) ==
  /\ t \in open /\ up[t] # <<>> /\ Head(up[t]) \in Job
  /\ up' = [up EXCEPT ![t] = Tail(@)]
  /\ jobs' = IF brokerUp THEN Append(jobs, Head(up[t])) ELSE jobs
  /\ UNCHANGED <<workerVars, open, registered, mail, brokerUp, serving, answers, drops, coreVars,
                 auditVars>>

DeregisterAny(t) == 0

\* The finally of _handle: only the connection that is registered is unregistered.
Deregister(t) == IF registered = t THEN 0 ELSE registered

\* A worker's connection is read to its end, then closed.
Close(t) ==
  /\ t \in open /\ up[t] = <<>> /\ ~(t = turn /\ pc # "gone")
  /\ open' = open \ {t}
  /\ registered' = Deregister(t)
  /\ UNCHANGED <<workerVars, up, mail, brokerVars, coreVars, auditVars>>

\* A COMPLETION goes to the connection registered as WORKER, whichever turn's that
\* is.  A write to one whose worker is gone vanishes or fails and unregisters it.
RouteCompletion ==
  /\ answers # <<>>
  /\ answers' = Tail(answers)
  /\ IF registered = turn /\ pc # "gone"
     THEN mail' = Append(mail, Head(answers)) /\ UNCHANGED registered
     ELSE registered' \in {registered, 0} /\ UNCHANGED mail
  /\ UNCHANGED <<workerVars, up, open, brokerUp, jobs, serving, drops, coreVars, auditVars>>

-------------------------------------------------------------------------------
(* The owner's tap on a question the core has parked *)

PeekRow(t) == UNCHANGED paused

\* take_approval reads the row and deletes it in one transaction.
TakeRow(t) == paused' = [u \in DOMAIN paused \ {t} |-> paused[u]]

\* "none" is a malformed decision frame, which counts as a denial.
Taps == {"yes", "no", "none"}

\* _handle_approval_decision with the slot free: the row is gone before the fork.  A tap
\* in the middle of a turn, or on a row that is gone, changes nothing.
Tap(t) ==
  /\ pc = "gone" /\ resuming = <<>>
  /\ t \in DOMAIN paused
  /\ \E tap \in Taps :
       /\ resuming' = <<[call |-> paused[t].call, convo |-> paused[t].convo,
                         approved |-> tap = "yes"]>>
       /\ approved' = approved \cup (IF tap = "yes" THEN {t} ELSE {})
  /\ TakeRow(t)
  /\ UNCHANGED <<workerVars, hubVars, brokerVars, asked, auditVars>>

\* The fork is refused, or the core dies before it: the call will never run.
ResumeFails ==
  /\ resuming # <<>> /\ resuming' = <<>>
  /\ UNCHANGED <<workerVars, hubVars, brokerVars, asked, paused, approved, auditVars>>

\* The row is pruned after its hour, or taken too late.
RowExpires(t) ==
  /\ t \in DOMAIN paused
  /\ paused' = [u \in DOMAIN paused \ {t} |-> paused[u]]
  /\ UNCHANGED <<workerVars, hubVars, brokerVars, asked, resuming, approved, auditVars>>

-------------------------------------------------------------------------------
(* The broker *)

\* The next frame in the broker's buffer, one read before the connection was lost too.
TakeJob ==
  /\ serving = <<>> /\ jobs # <<>>
  /\ serving' = <<[job |-> Head(jobs), provider |-> 1, attempt |-> 1]>>
  /\ jobs' = Tail(jobs)
  /\ UNCHANGED <<workerVars, hubVars, brokerUp, answers, drops, coreVars, auditVars>>

\* The write fails, quietly or not, when the hub has gone in the meantime.
Reply(ok, calls) ==
  LET job == serving[1].job
  IN  answers' = IF brokerUp
                 THEN Append(answers, [turn |-> job.turn, round |-> job.round, ok |-> ok,
                                       calls |-> calls])
                 ELSE answers

JobStaysInHand == UNCHANGED serving
JobIsDone == serving' = <<>>

\* Two attempts per provider and Job, one Job per iteration.
SpendBound == 2 * Providers * (MaxTools + 1)

\* The count stops one past the bound, to stay finite whatever the broker does.
Billed ==
  spent' = [spent EXCEPT ![serving[1].job.turn] =
              IF serving[1].job.turn \notin Audited \/ @ > SpendBound THEN @ ELSE @ + 1]

\* The first success of the chain is the completion.
ProviderAnswers ==
  /\ serving # <<>>
  /\ \E tiers \in Replies :
       Reply(TRUE, [i \in DOMAIN tiers |->
         [turn |-> serving[1].job.turn, round |-> serving[1].job.round, pos |-> i,
          tier |-> tiers[i]]])
  /\ JobIsDone
  /\ Billed
  /\ UNCHANGED <<workerVars, hubVars, brokerUp, jobs, drops, coreVars, ran, gaveUp>>

MayRetryAlways == TRUE
MayRetry == serving[1].attempt < 2

\* A transient error is retried once with the same provider.
ProviderHiccups ==
  /\ serving # <<>> /\ MayRetry
  /\ serving' = <<[serving[1] EXCEPT !.attempt = 2]>>
  /\ Billed
  /\ UNCHANGED <<workerVars, hubVars, brokerUp, jobs, answers, drops, coreVars, ran, gaveUp>>

\* handle_job_chain moves on to the next provider; the failure of the last is the answer.
FallBack ==
  IF serving[1].provider < Providers
  THEN serving' = <<[serving[1] EXCEPT !.provider = @ + 1, !.attempt = 1]>> /\ UNCHANGED answers
  ELSE JobIsDone /\ Reply(FALSE, <<>>)

\* A permanent error, or a transient one on the second attempt.
ProviderFails ==
  /\ serving # <<>>
  /\ FallBack
  /\ Billed
  /\ UNCHANGED <<workerVars, hubVars, brokerUp, jobs, drops, coreVars, ran, gaveUp>>

\* Of what was under way in the connection, each side may have buffered a prefix, which
\* it still reads; a Job in hand is not lost.
BrokerDrops ==
  /\ brokerUp /\ drops < MaxDrops
  /\ drops' = drops + 1
  /\ brokerUp' = FALSE
  /\ \E n \in 0 .. Len(jobs) : jobs' = SubSeq(jobs, 1, n)
  /\ \E n \in 0 .. Len(answers) : answers' = SubSeq(answers, 1, n)
  /\ UNCHANGED <<workerVars, hubVars, serving, coreVars, auditVars>>

\* After the buffered Jobs, or at a reply that cannot be written, the rest is forgotten.
BrokerReconnects ==
  /\ ~brokerUp /\ serving = <<>>
  /\ brokerUp' = TRUE
  /\ jobs' = <<>>
  /\ UNCHANGED <<workerVars, hubVars, serving, answers, drops, coreVars, auditVars>>

\* Every worker has come and gone, and nothing is left on the way.
Done ==
  /\ turn = MaxTurns /\ pc = "gone" /\ open = {} /\ resuming = <<>>
  /\ brokerUp /\ jobs = <<>> /\ serving = <<>> /\ answers = <<>>
  /\ UNCHANGED vars

-------------------------------------------------------------------------------

\* The database may hold a row from before the core was started.
OldCall == [turn |-> 0, round |-> 0, pos |-> 1, tier |-> "risky"]
OldRow  == [call |-> OldCall, convo |-> [asked |-> <<OldCall>>, answered |-> <<>>]]

Init ==
  /\ turn = 0 /\ pc = "gone" /\ round = 0 /\ convo = Fresh /\ report = <<>>
  /\ resume = <<>>
  /\ up = [t \in Turns |-> <<>>] /\ open = {} /\ registered = 0 /\ mail = <<>>
  /\ brokerUp \in BOOLEAN
  /\ jobs = <<>> /\ serving = <<>> /\ answers = <<>> /\ drops = 0
  /\ \/ paused = <<>> /\ asked = {}
     \/ paused = [t \in {0} |-> OldRow] /\ asked = {[turn |-> 0, call |-> OldCall]}
  /\ resuming = <<>> /\ approved = {}
  /\ ran = <<>> /\ spent = [t \in Turns |-> 0] /\ gaveUp = {}

ToolLoop == ReadFailure \/ ReadText \/ ReadTooMany \/ ReadFree \/ ReadRisky
Worker   == Resolve \/ SendJob \/ ShortOnTime \/ ToolLoop \/ GiveUp \/ WriteResult
Hub      == RouteCompletion \/ \E t \in Turns : RouteResult(t) \/ RouteJob(t) \/ Close(t)
Chain    == ProviderAnswers \/ ProviderHiccups \/ ProviderFails
Broker   == TakeJob \/ Chain \/ BrokerReconnects

Core     == ResumeFails \/ \E t \in 0..MaxTurns : Tap(t) \/ RowExpires(t)

Next ==
  \/ SpawnTurn \/ SpawnResume
  \/ Core
  \/ Worker \/ Killed
  \/ Hub
  \/ Broker \/ BrokerDrops
  \/ Done

Spec == Init /\ [][Next]_vars

-------------------------------------------------------------------------------
(* Properties *)

\* A worker waiting for the broker is the one completions are routed to: the late
\* end of its predecessor's connection does not unregister it (bus/server.py).
ReachableWhileWaiting == pc = "wait" => registered = turn

\* Every conversation sent to a provider holds one result per tool call, in order,
\* across pauses and resumes too ("the protocol's tool_use / tool_result pairing").
CallsArePaired ==
  \A t \in Turns : \A i \in DOMAIN up[t] :
    up[t][i] \in Job => up[t][i].convo.asked = up[t][i].convo.answered

\* The calls the owner was asked about under the buttons of turn t.
AskedIn(t) == {a.call : a \in {b \in asked : b.turn = t}}

Consented(call) == \E t \in approved : call \in AskedIn(t)

\* A RISKY call is executed at most once over any number of workers, taps and retries,
\* and only when the owner said yes under the very question that named it.
RiskyRunsOnceApproved ==
  /\ \A i \in DOMAIN ran : Consented(ran[i])
  /\ \A i, j \in DOMAIN ran : ran[i] = ran[j] => i = j

\* One turn costs at most this many provider calls, retries and fallbacks included.
SpendIsBounded == \A t \in Turns : spent[t] <= SpendBound

\* As long as no worker has left with a Job unanswered, a completion reaches only
\* the worker that asked for it, in the iteration that asked.
AnswersMatchUntilAGiveUp ==
  gaveUp = {} => \A i \in DOMAIN mail : mail[i].turn = turn /\ mail[i].round = round

\* "turn_id is echoed so the worker/core fence can correlate" (broker/service.py):
\* the words of a Result are the answer to a Job of that turn.
AnswersAreCorrelated == pc = "report" => report[1].from \in {0, turn}
=============================================================================
