------------------------------- MODULE Telegram -------------------------------
(***************************************************************************)
(* The chat surface: the Telegram adapter (transport/telegram.py) in its   *)
(* own process, the generic bus loops it runs in (transport/runner.py),    *)
(* Telegram's server behind it and the core in front of it.                *)
(*                                                                         *)
(* An update is acknowledged to the server only by the offset of the NEXT  *)
(* poll, the offset lives in the adapter's RAM, and the core may die with  *)
(* messages in its inbox: what is confirmed, what has reached the core and *)
(* what is shown to the owner move in different processes.                 *)
(*                                                                         *)
(* The core is abstract here: it takes messages in order, answers some of  *)
(* those it has taken, or drops them (a failed fork).  TurnLoop is the     *)
(* detailed core.  The service manager starts the whole service again only *)
(* when the core has gone; nothing restarts an adapter that dies alone.    *)
(***************************************************************************)
EXTENDS Naturals, Sequences

CONSTANTS
  MaxUpdates,  \* updates the server ever has for the bot
  MaxFaults,   \* failed polls and failed writes of the chat file
  MaxDeaths,   \* deaths of the core or of the adapter
  MaxMusings,  \* replies the core sends with no message to answer
  Chats,       \* chat ids
  NoChat       \* chat_id None

ASSUME TelegramAssumption ==
  /\ MaxUpdates \in Nat /\ MaxFaults \in Nat /\ MaxDeaths \in Nat /\ MaxMusings \in Nat
  /\ NoChat \notin Chats

VARIABLES
  sent,       \* the server's updates, in update_id order
  confirmed,  \* the server forgets updates up to this one
  link,       \* the adapter: "down", "asked" (getUpdates out), "idle" (handling or between)
  offset,     \* inbound's offset, 0 until an update is handled
  next, top,  \* the updates in hand: next .. top
  chat,       \* _chat_id
  chatFile,   \* the file at _chat_id_path, NoChat when missing, blank or corrupt
  typing,     \* _typing_task is running
  coreUp,     \* the core process, and the hub in it, runs
  inbox,      \* update ids on their way to the core: socket and core_inbox
  owes,       \* ids the core took and has not answered
  down,       \* OUTBOUND_MSG frames on their way to the adapter
  last,       \* the last id the core took in this life (history variable)
  taken,      \* ids some core took (history variable)
  vanished,   \* ids a dead core or a dead hub took down (history variable)
  silent,     \* the core dropped an ask without a word in this life (history variable)
  spoke,      \* the chat of the last permitted update handled (history variable)
  alone,      \* the adapter died while the core lives on (history variable)
  unsaved,    \* the last write of the chat file failed (history variable)
  faults, deaths, musings   \* how much of the bounds is used

serverVars == <<sent, confirmed>>
pollVars   == <<link, offset, next, top>>
chatVars   == <<chat, chatFile, spoke, unsaved>>
coreVars   == <<coreUp, owes, last, taken, silent, alone>>
boundVars  == <<faults, deaths, musings>>
vars == <<serverVars, pollVars, chatVars, typing, coreVars, inbox, down, vanished, boundVars>>

-------------------------------------------------------------------------------
(* Types *)

Updates == [kind : {"text", "tap"}, chat : Chats \cup {NoChat}]
             \cup [kind : {"ignored"}, chat : {NoChat}]
Frames  == {"reply", "approval"}

\* _permitted and the shape checks of inbound and _handle_callback: an "ignored"
\* update is an unauthorised sender, no text, or malformed callback data.  A text
\* always comes from a chat; a tap on a message too old to be quoted has none.
Wanted(u) == sent[u].kind # "ignored"

\* getUpdates with this offset returns what comes after what is confirmed, or
\* what starts at the offset.
Frontier == IF offset = 0 THEN confirmed + 1 ELSE offset

Elems(q) == {q[i] : i \in 1 .. Len(q)}

-------------------------------------------------------------------------------
(* The server *)

Arrives ==
  /\ Len(sent) < MaxUpdates
  /\ \E u \in Updates : /\ u.kind = "text" => u.chat # NoChat
                        /\ sent' = Append(sent, u)
  /\ UNCHANGED <<confirmed, pollVars, chatVars, typing, coreVars, inbox, down, vanished, boundVars>>

\* The request reaches the server: updates below its offset are forgotten.
Ask ==
  /\ link = "idle" /\ next > top
  /\ link' = "asked"
  /\ confirmed' = IF offset > confirmed + 1 THEN offset - 1 ELSE confirmed
  /\ UNCHANGED <<sent, offset, next, top, chatVars, typing, coreVars, inbox, down, vanished,
                 boundVars>>

\* The answer brings some of what the server has from the frontier on, in order.
\* An empty answer (the long poll's timeout) only repeats the request.
PollAnswers ==
  /\ link = "asked" /\ Frontier <= Len(sent)
  /\ link' = "idle" /\ next' = Frontier
  /\ top' \in Frontier .. Len(sent)
  /\ UNCHANGED <<serverVars, offset, chatVars, typing, coreVars, inbox, down, vanished, boundVars>>

\* Mutant: one bad poll ends inbound, and with it the adapter.
PollFailsForGood ==
  /\ link = "asked" /\ faults < MaxFaults
  /\ link' = "down" /\ typing' = FALSE /\ down' = << >> /\ faults' = faults + 1
  /\ UNCHANGED <<serverVars, offset, next, top, chatVars, coreVars, inbox, vanished, deaths, musings>>

\* A failed poll backs off and retries.
PollFails ==
  /\ link = "asked" /\ faults < MaxFaults
  /\ link' = "idle" /\ faults' = faults + 1
  /\ UNCHANGED <<serverVars, offset, next, top, chatVars, typing, coreVars, inbox, down, vanished,
                 deaths, musings>>

-------------------------------------------------------------------------------
(* One update of the batch: inbound's loop body up to its yield *)

\* Mutant: offset = update_id.
TakeUpdateAgain ==
  /\ link = "idle" /\ next <= top
  /\ offset' = next /\ next' = next + 1

TakeUpdate ==
  /\ link = "idle" /\ next <= top
  /\ offset' = next + 1 /\ next' = next + 1

\* Mutant: the file keeps the first chat.
RememberFirst(c) ==
  /\ spoke' = IF c = NoChat THEN spoke ELSE c
  /\ chat' = IF c = NoChat THEN chat ELSE c
  /\ chatFile' = IF chatFile = NoChat THEN chat' ELSE chatFile
  /\ UNCHANGED <<unsaved, faults>>

\* An unchanged chat is not written again.  A write that fails has perhaps
\* already truncated the file.
Remember(c) ==
  /\ spoke' = IF c = NoChat THEN spoke ELSE c
  /\ \/ /\ c \in {NoChat, chat}
        /\ UNCHANGED <<chat, chatFile, unsaved, faults>>
     \/ /\ c \notin {NoChat, chat}
        /\ chat' = c /\ chatFile' = c /\ unsaved' = FALSE
        /\ UNCHANGED faults
     \/ /\ c \notin {NoChat, chat} /\ faults < MaxFaults
        /\ chat' = c /\ chatFile' \in {chatFile, NoChat} /\ unsaved' = TRUE
        /\ faults' = faults + 1

\* _start_typing, after the chat has been remembered
StartTyping == typing' = (chat' # NoChat)

\* Mutant: an update with no chat to reply to is not forwarded.
ForwardFromAChat(u) ==
  IF sent[u].chat = NoChat
  THEN UNCHANGED <<link, typing, inbox, down, vanished>>
  ELSE /\ coreUp /\ inbox' = Append(inbox, u)
       /\ StartTyping
       /\ UNCHANGED <<link, down, vanished>>

\* The frame reaches the hub's socket.  When the hub is dead it vanishes there,
\* or the write fails and _inbound_loop, and with it the adapter, ends.
Forward(u) ==
  \/ /\ coreUp /\ inbox' = Append(inbox, u)
     /\ StartTyping
     /\ UNCHANGED <<link, down, vanished>>
  \/ /\ ~coreUp /\ vanished' = vanished \cup {u}
     /\ StartTyping
     /\ UNCHANGED <<link, down, inbox>>
  \/ /\ ~coreUp /\ link' = "down"
     /\ typing' = FALSE /\ down' = << >>
     /\ UNCHANGED <<inbox, vanished>>

HandleWanted ==
  /\ TakeUpdate /\ Wanted(next)
  /\ Remember(sent[next].chat)
  /\ Forward(next)
  /\ UNCHANGED <<serverVars, top, coreVars, deaths, musings>>

HandleIgnored ==
  /\ TakeUpdate /\ ~Wanted(next)
  /\ UNCHANGED <<serverVars, link, top, chatVars, typing, coreVars, inbox, down, vanished,
                 boundVars>>

-------------------------------------------------------------------------------
(* The way back: _outbound_loop.  A send that fails, and one with no chat to go *)
(* to, is dropped; the typing indicator has been stopped by then.               *)

StopTyping == typing' = FALSE

Rendered(f) ==
  /\ link # "down" /\ down # << >> /\ Head(down) = f
  /\ down' = Tail(down)
  /\ UNCHANGED <<serverVars, pollVars, chatVars, coreVars, inbox, vanished, boundVars>>

Outbound == Rendered("reply") /\ StopTyping

\* Mutant: the approval surface leaves the indicator running.
SendApprovalTyping == Rendered("approval") /\ UNCHANGED typing

SendApproval == Rendered("approval") /\ StopTyping

-------------------------------------------------------------------------------
(* The core *)

\* bus.deliver: dropped when no adapter is registered
Deliver(f) == down' = IF link = "down" THEN down ELSE Append(down, f)

CoreTakes ==
  /\ coreUp /\ inbox # << >>
  /\ inbox' = Tail(inbox)
  /\ last' = Head(inbox) /\ taken' = taken \cup {Head(inbox)}
  /\ owes' = owes \cup {Head(inbox)}
  /\ UNCHANGED <<serverVars, pollVars, chatVars, typing, coreUp, silent, alone, down, vanished, boundVars>>

\* One reply may answer several messages that were folded into one turn.
CoreAnswers ==
  /\ coreUp
  /\ \E s \in SUBSET owes, f \in Frames : s # {} /\ owes' = owes \ s /\ Deliver(f)
  /\ UNCHANGED <<serverVars, pollVars, chatVars, typing, coreUp, last, taken, silent, alone,
                 inbox, vanished, boundVars>>

\* The fork fails: the turn, and what was waiting for it, is dropped unanswered.
CoreDropsStart ==
  /\ coreUp /\ faults < MaxFaults
  /\ \E s \in SUBSET owes : s # {} /\ owes' = owes \ s
  /\ silent' = TRUE /\ faults' = faults + 1
  /\ UNCHANGED <<serverVars, pollVars, chatVars, typing, coreUp, last, taken, alone, inbox, down,
                 vanished, deaths, musings>>

\* A proactive turn speaks up.
CoreMuses ==
  /\ coreUp /\ musings < MaxMusings
  /\ musings' = musings + 1 /\ Deliver("reply")
  /\ UNCHANGED <<serverVars, pollVars, chatVars, typing, coreVars, inbox, vanished, faults, deaths>>

-------------------------------------------------------------------------------
(* Deaths and the service manager *)

CoreDies ==
  /\ coreUp /\ deaths < MaxDeaths
  /\ coreUp' = FALSE /\ deaths' = deaths + 1
  /\ vanished' = vanished \cup Elems(inbox)
  /\ inbox' = << >> /\ owes' = {}
  /\ UNCHANGED <<serverVars, pollVars, chatVars, typing, last, taken, silent, alone, down,
                 faults, musings>>

\* Mutant: the typing loop outlives the loops of run_transport.
AdapterGoesTyping == link' = "down" /\ down' = << >> /\ UNCHANGED typing

AdapterGoes == link' = "down" /\ typing' = FALSE /\ down' = << >>

\* EOF from the hub ends _outbound_loop; run_transport cancels the other loop.
TransportStops ==
  /\ link # "down" /\ ~coreUp /\ down = << >>
  /\ AdapterGoes
  /\ UNCHANGED <<serverVars, offset, next, top, chatVars, coreVars, inbox, vanished, boundVars>>

TransportDies ==
  /\ link # "down" /\ deaths < MaxDeaths
  /\ AdapterGoes /\ deaths' = deaths + 1
  /\ alone' = coreUp
  /\ UNCHANGED <<serverVars, offset, next, top, chatVars, coreUp, owes, last, taken, silent, inbox,
                 vanished, faults, musings>>

\* A new core, and a new adapter that reads its chat from the file.
Restart ==
  /\ ~coreUp /\ link = "down"
  /\ coreUp' = TRUE /\ link' = "idle"
  /\ offset' = 0 /\ next' = 1 /\ top' = 0
  /\ chat' = chatFile
  /\ last' = 0 /\ silent' = FALSE /\ alone' = FALSE
  /\ UNCHANGED <<serverVars, chatFile, spoke, unsaved, typing, owes, taken, inbox, down, vanished,
                 boundVars>>

-------------------------------------------------------------------------------

Init ==
  /\ sent = << >> /\ confirmed = 0
  /\ link = "idle" /\ offset = 0 /\ next = 1 /\ top = 0
  /\ chat = NoChat /\ chatFile = NoChat /\ spoke = NoChat /\ unsaved = FALSE
  /\ typing = FALSE
  /\ coreUp = TRUE /\ owes = {} /\ last = 0 /\ taken = {} /\ silent = FALSE
  /\ alone = FALSE
  /\ inbox = << >> /\ down = << >> /\ vanished = {}
  /\ faults = 0 /\ deaths = 0 /\ musings = 0

Adapter == Ask \/ PollAnswers \/ PollFails \/ HandleWanted \/ HandleIgnored
             \/ Outbound \/ SendApproval \/ TransportStops \/ TransportDies
CoreSide == CoreTakes \/ CoreAnswers \/ CoreDropsStart \/ CoreMuses \/ CoreDies

Next == Arrives \/ Adapter \/ CoreSide \/ Restart

Spec == Init /\ [][Next]_vars

\* The adapter's two loops and the core's consumer run, the server answers a
\* poll it has something for, and the service manager restarts the service.
Fairness ==
  /\ WF_vars(Ask) /\ WF_vars(PollAnswers) /\ WF_vars(HandleWanted) /\ WF_vars(HandleIgnored)
  /\ WF_vars(Outbound) /\ WF_vars(SendApproval) /\ WF_vars(CoreTakes)
  /\ WF_vars(TransportStops) /\ WF_vars(Restart)

FairSpec == Spec /\ Fairness

-------------------------------------------------------------------------------
(* Properties *)

\* The types of every variable: an update is in hand only while the adapter is
\* connected, and frames wait only for a connected adapter.
TypeOK ==
  /\ sent \in Seq(Updates) /\ confirmed \in 0 .. Len(sent)
  /\ link \in {"down", "idle", "asked"}
  /\ offset \in 0 .. Len(sent) + 1 /\ next \in 1 .. Len(sent) + 1 /\ top \in 0 .. Len(sent)
  /\ chat \in Chats \cup {NoChat} /\ chatFile \in Chats \cup {NoChat}
  /\ spoke \in Chats \cup {NoChat} /\ unsaved \in BOOLEAN
  /\ typing \in BOOLEAN /\ coreUp \in BOOLEAN /\ silent \in BOOLEAN /\ alone \in BOOLEAN
  /\ inbox \in Seq(1 .. Len(sent)) /\ down \in Seq(Frames)
  /\ owes \subseteq taken /\ taken \subseteq 1 .. Len(sent) /\ vanished \subseteq 1 .. Len(sent)
  /\ last \in 0 .. Len(sent)
  /\ faults \in 0 .. MaxFaults /\ deaths \in 0 .. MaxDeaths /\ musings \in 0 .. MaxMusings
  /\ link = "down" => down = << >> /\ ~typing

\* An update the server will never hand out again (confirmed by a later poll) has
\* reached a core, is on its way to one, or went down with a core or its socket:
\* across polls that fail, messages that are ignored and restarts, no permitted
\* message or tap is acknowledged away (inbound's offset).
Seen(u) == u \in taken \cup vanished \cup Elems(inbox)
NothingIsSkipped == \A u \in 1 .. confirmed : Wanted(u) => Seen(u)

\* In one life of the service the core gets each update at most once and in the
\* order the owner sent them, although every poll may be asked again.
OnceAndInOrder ==
  /\ \A i \in 1 .. Len(inbox) : last < inbox[i]
  /\ \A i, j \in 1 .. Len(inbox) : i < j => inbox[i] < inbox[j]

\* "typing..." is shown only while something of the owner's is on its way, being
\* worked on, or answered by a frame the adapter has yet to render; the exception
\* is a core that dropped an ask without a word, when the fork fails.
TypingMeansWorking ==
  typing /\ coreUp /\ ~silent => inbox # << >> \/ owes # {} \/ down # << >>

\* A connected adapter speaks to the chat the owner last wrote or tapped from,
\* through any number of restarts, unless the write of the chat file failed.
TargetSurvives == link # "down" /\ ~unsaved => chat = spoke

\* Every permitted message and tap reaches a core or vanishes with one, whatever
\* polls fail and whenever the service restarts, unless the adapter was killed
\* while the core lives on (nothing starts it again then).
EveryMessageArrives ==
  \A u \in 1 .. MaxUpdates :
    (u <= Len(sent) /\ Wanted(u)) ~> (u \in taken \cup vanished \/ alone)

=============================================================================
