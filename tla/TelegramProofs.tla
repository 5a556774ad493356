---------------------------- MODULE TelegramProofs ----------------------------
(***************************************************************************)
(* What holds of the chat surface for every number of updates, failures,   *)
(* deaths and chats: types, no permitted update is acknowledged away, and  *)
(* a core meets each update once, in order.                                *)
(*                                                                         *)
(* The argument: everything below the frontier of a connected adapter has  *)
(* been seen, and nothing from the frontier on has been met in this life.  *)
(* The frontier moves by one update at a time, and only the offset, never  *)
(* beyond the frontier, confirms.                                          *)
(***************************************************************************)
EXTENDS Telegram, SequenceTheorems, TLAPS

-------------------------------------------------------------------------------
(* The inductive invariant *)

\* The rest of the batch in hand begins at the frontier.
BatchAtFrontier == link # "down" /\ next <= top => next = Frontier /\ link = "idle"

\* Whatever the next poll will confirm has been seen.
OffsetIsSeen ==
  link # "down" /\ offset # 0 =>
    confirmed < offset /\ \A u \in 1 .. offset - 1 : Wanted(u) => Seen(u)

\* The core has met nothing from the frontier on.
FrontierIsNew ==
  link # "down" => last < Frontier /\ \A i \in 1 .. Len(inbox) : inbox[i] < Frontier

DeadCoreIsEmpty == ~coreUp => inbox = << >>

IInv ==
  /\ TypeOK
  /\ NothingIsSkipped /\ OnceAndInOrder
  /\ BatchAtFrontier /\ OffsetIsSeen /\ FrontierIsNew /\ DeadCoreIsEmpty

-------------------------------------------------------------------------------
(* Queues *)

\* What is on its way, when one more is sent.
LEMMA AppendElems ==
  ASSUME NEW S, NEW q \in Seq(S), NEW e \in S
  PROVE  /\ Append(q, e) \in Seq(S)
         /\ Elems(Append(q, e)) = Elems(q) \cup {e}
         /\ Len(Append(q, e)) = Len(q) + 1
         /\ \A i \in 1 .. Len(q) : Append(q, e)[i] = q[i]
         /\ Append(q, e)[Len(q) + 1] = e
<1>1. Len(q) \in Nat
  BY LenProperties
<1>2. /\ Append(q, e) \in Seq(S) /\ Len(Append(q, e)) = Len(q) + 1
      /\ \A i \in 1 .. Len(q) : Append(q, e)[i] = q[i]
      /\ Append(q, e)[Len(q) + 1] = e
  BY AppendProperties
<1>3. QED
  BY <1>1, <1>2 DEF Elems

\* And when the first of it arrives.
LEMMA TailElems ==
  ASSUME NEW S, NEW q \in Seq(S), q # << >>
  PROVE  /\ Head(q) \in S /\ Head(q) = q[1] /\ Tail(q) \in Seq(S)
         /\ Elems(q) = Elems(Tail(q)) \cup {Head(q)}
         /\ Len(q) \in Nat \ {0} /\ Len(Tail(q)) = Len(q) - 1
         /\ \A i \in 1 .. Len(q) - 1 : Tail(q)[i] = q[i + 1]
<1>1. /\ Head(q) \in S /\ Head(q) = q[1] /\ Tail(q) \in Seq(S)
      /\ Len(q) \in Nat \ {0} /\ Len(Tail(q)) = Len(q) - 1
      /\ \A i \in 1 .. Len(q) - 1 : Tail(q)[i] = q[i + 1]
  BY HeadTailProperties, EmptySeq, LenProperties
<1>2. ASSUME NEW i \in 2 .. Len(q) PROVE q[i] \in Elems(Tail(q))
  <2>1. i - 1 \in 1 .. Len(q) - 1 /\ q[i] = Tail(q)[i - 1]
    BY <1>1
  <2>2. QED
    BY <1>1, <2>1 DEF Elems
<1>3. Elems(q) \subseteq Elems(Tail(q)) \cup {Head(q)}
  BY <1>1, <1>2 DEF Elems
<1>4. Elems(Tail(q)) \cup {Head(q)} \subseteq Elems(q)
  BY <1>1 DEF Elems
<1>5. QED
  BY <1>1, <1>3, <1>4

-------------------------------------------------------------------------------
(* Types *)

LEMMA InitTypeOK == Init => TypeOK
<1> SUFFICES ASSUME Init PROVE TypeOK
  OBVIOUS
<1>1. sent \in Seq(Updates) /\ inbox \in Seq(1 .. Len(sent)) /\ down \in Seq(Frames) /\ Len(sent) = 0
  BY EmptySeq DEF Init
<1>2. QED
  <2>1. typing \in BOOLEAN /\ coreUp \in BOOLEAN /\ silent \in BOOLEAN /\ alone \in BOOLEAN
        /\ unsaved \in BOOLEAN
    BY DEF Init
  <2>2. QED
    BY <1>1, <2>1, TelegramAssumption DEF Init, TypeOK

\* The types of what concerns updates survive an arrival.
LEMMA ArrivesTyped ==
  ASSUME TypeOK, Arrives
  PROVE  /\ TypeOK' /\ Len(sent') = Len(sent) + 1
         /\ \A u \in 1 .. Len(sent) : sent'[u] = sent[u]
<1>1. PICK u \in Updates : sent' = Append(sent, u)
  BY DEF Arrives
<1>2. /\ sent' \in Seq(Updates) /\ Len(sent') = Len(sent) + 1 /\ Len(sent) \in Nat
      /\ \A w \in 1 .. Len(sent) : sent'[w] = sent[w]
  BY <1>1, AppendProperties, LenProperties DEF TypeOK
<1>3. inbox \in Seq(1 .. Len(sent'))
  BY <1>2 DEF TypeOK
<1>4. QED
  BY <1>2, <1>3 DEF TypeOK, Arrives, pollVars, chatVars, coreVars, boundVars

LEMMA RememberTyped ==
  ASSUME TypeOK, NEW c \in Chats \cup {NoChat}, Remember(c)
  PROVE  /\ chat' \in Chats \cup {NoChat} /\ chatFile' \in Chats \cup {NoChat} /\ spoke' \in Chats \cup {NoChat}
         /\ unsaved' \in BOOLEAN /\ faults' \in 0 .. MaxFaults
<1>1. chat' \in Chats \cup {NoChat} /\ chatFile' \in Chats \cup {NoChat}
  BY DEF TypeOK, Remember
<1>2. unsaved' \in BOOLEAN
  BY DEF TypeOK, Remember
<1>3. spoke' \in Chats \cup {NoChat} /\ faults' \in 0 .. MaxFaults
  BY TelegramAssumption DEF TypeOK, Remember
<1>4. QED
  BY <1>1, <1>2, <1>3

LEMMA ForwardTyped ==
  ASSUME TypeOK, NEW u \in 1 .. Len(sent), link = "idle", Forward(u)
  PROVE  /\ link' \in {"idle", "down"} /\ typing' \in BOOLEAN
         /\ inbox' \in Seq(1 .. Len(sent)) /\ down' \in Seq(Frames)
         /\ vanished' \subseteq 1 .. Len(sent)
         /\ link' = "down" => down' = << >> /\ ~typing'
<1>1. inbox \in Seq(1 .. Len(sent)) /\ Append(inbox, u) \in Seq(1 .. Len(sent))
  BY AppendProperties DEF TypeOK
<1>2. << >> \in Seq(Frames)
  BY EmptySeq
<1>3. QED
  BY <1>1, <1>2 DEF TypeOK, Forward, StartTyping

LEMMA DeliverTyped ==
  ASSUME TypeOK, NEW f \in Frames, Deliver(f)
  PROVE  down' \in Seq(Frames) /\ (link = "down" => down' = << >>)
  BY AppendProperties DEF TypeOK, Deliver

LEMMA NextTypeOK == TypeOK /\ [Next]_vars => TypeOK'
<1> SUFFICES ASSUME TypeOK, [Next]_vars PROVE TypeOK'
  OBVIOUS
<1>0. Len(sent) \in Nat /\ << >> \in Seq(Frames) /\ << >> \in Seq(1 .. Len(sent))
  BY LenProperties, EmptySeq DEF TypeOK
<1>1. CASE Arrives
  BY <1>1, ArrivesTyped
<1>2. CASE Ask
  BY <1>0, <1>2 DEF TypeOK, Ask, chatVars, coreVars, boundVars
<1>3. CASE PollAnswers
  BY <1>0, <1>3 DEF TypeOK, PollAnswers, Frontier, serverVars, chatVars, coreVars, boundVars
<1>4. CASE PollFails
  BY <1>0, <1>4, TelegramAssumption DEF TypeOK, PollFails, serverVars, chatVars, coreVars
<1>5. CASE HandleWanted
  <2>1. next \in 1 .. Len(sent) /\ link = "idle" /\ offset' = next + 1 /\ next' = next + 1
    BY <1>0, <1>5 DEF HandleWanted, TakeUpdate, TypeOK
  <2>2. sent[next].chat \in Chats \cup {NoChat}
    <3>1. sent[next] \in Updates
      BY <2>1 DEF TypeOK
    <3>2. QED
      BY <3>1 DEF Updates
  <2>3. /\ chat' \in Chats \cup {NoChat} /\ chatFile' \in Chats \cup {NoChat} /\ spoke' \in Chats \cup {NoChat}
        /\ unsaved' \in BOOLEAN /\ faults' \in 0 .. MaxFaults
    BY <1>5, <2>2, RememberTyped DEF HandleWanted
  <2>4. /\ link' \in {"idle", "down"} /\ typing' \in BOOLEAN
        /\ inbox' \in Seq(1 .. Len(sent)) /\ down' \in Seq(Frames)
        /\ vanished' \subseteq 1 .. Len(sent)
        /\ link' = "down" => down' = << >> /\ ~typing'
    BY <1>5, <2>1, ForwardTyped DEF HandleWanted
  <2>5. UNCHANGED <<sent, confirmed, top, coreUp, owes, last, taken, silent, alone, deaths, musings>>
    BY <1>5 DEF HandleWanted, serverVars, coreVars
  <2>6. QED
    BY <1>0, <2>1, <2>3, <2>4, <2>5 DEF TypeOK
<1>6. CASE HandleIgnored
  BY <1>0, <1>6 DEF TypeOK, HandleIgnored, TakeUpdate, serverVars, chatVars, coreVars, boundVars
<1>7. CASE Outbound \/ SendApproval
  <2>1. /\ link # "down" /\ down # << >> /\ down' = Tail(down) /\ typing' = FALSE
        /\ UNCHANGED <<serverVars, pollVars, chatVars, coreVars, inbox, vanished, boundVars>>
    BY <1>7 DEF Outbound, SendApproval, Rendered, StopTyping
  <2>2. down' \in Seq(Frames)
    BY <2>1, TailElems DEF TypeOK
  <2>3. QED
    BY <1>0, <2>1, <2>2 DEF TypeOK, serverVars, pollVars, chatVars, coreVars, boundVars
<1>8. CASE TransportStops \/ TransportDies
  <2>1. link' = "down" /\ ~typing' /\ down' = << >> /\ deaths' \in 0 .. MaxDeaths
    BY <1>8, TelegramAssumption
    DEF TypeOK, TransportStops, TransportDies, AdapterGoes, boundVars
  <2>2. typing' \in BOOLEAN /\ coreUp' \in BOOLEAN /\ silent' \in BOOLEAN /\ alone' \in BOOLEAN
        /\ unsaved' \in BOOLEAN
    BY <1>8
    DEF TypeOK, TransportStops, TransportDies, AdapterGoes, chatVars, coreVars
  <2>3. QED
    BY <1>0, <1>8, <2>1, <2>2
    DEF TypeOK, TransportStops, TransportDies, serverVars, chatVars, coreVars, boundVars
<1>9. CASE CoreTakes
  <2>1. Head(inbox) \in 1 .. Len(sent) /\ Tail(inbox) \in Seq(1 .. Len(sent))
    BY <1>9, TailElems DEF TypeOK, CoreTakes
  <2>2. last' \in 0 .. Len(sent) /\ owes' \subseteq taken' /\ taken' \subseteq 1 .. Len(sent)
    <3>1. last' = Head(inbox) /\ owes' = owes \cup {Head(inbox)} /\ taken' = taken \cup {Head(inbox)}
      BY <1>9 DEF CoreTakes
    <3>2. owes \subseteq taken /\ taken \subseteq 1 .. Len(sent)
      BY DEF TypeOK
    <3>3. owes' \subseteq taken' /\ taken' \subseteq 1 .. Len(sent)
      BY <2>1, <3>1, <3>2, Zenon
    <3>4. last' \in 0 .. Len(sent)
      BY <1>0, <2>1, <3>1
    <3>5. QED
      BY <3>3, <3>4
  <2>3. UNCHANGED <<sent, confirmed, pollVars, chatVars, typing, coreUp, silent, alone, down,
                    vanished, boundVars>>
    BY <1>9 DEF CoreTakes, serverVars
  <2>4. inbox' = Tail(inbox)
    BY <1>9 DEF CoreTakes
  <2>5. QED
    BY <1>0, <2>1, <2>2, <2>3, <2>4 DEF TypeOK, pollVars, chatVars, boundVars
<1>10. CASE CoreAnswers
  <2>1. down' \in Seq(Frames) /\ (link = "down" => down' = << >>)
    BY <1>10, DeliverTyped DEF CoreAnswers
  <2>2. QED
    BY <1>0, <1>10, <2>1 DEF TypeOK, CoreAnswers, serverVars, pollVars, chatVars, boundVars
<1>11. CASE CoreDropsStart
  BY <1>0, <1>11, TelegramAssumption DEF TypeOK, CoreDropsStart, serverVars, pollVars, chatVars
<1>12. CASE CoreMuses
  <2>1. down' \in Seq(Frames) /\ (link = "down" => down' = << >>)
    BY <1>12, DeliverTyped DEF CoreMuses, Frames
  <2>2. QED
    BY <1>0, <1>12, <2>1, TelegramAssumption
    DEF TypeOK, CoreMuses, serverVars, pollVars, chatVars, coreVars
<1>13. CASE CoreDies
  <2>1. Elems(inbox) \subseteq 1 .. Len(sent)
    BY DEF TypeOK, Elems
  <2>2. vanished' \subseteq 1 .. Len(sent) /\ deaths' \in 0 .. MaxDeaths /\ owes' \subseteq taken'
    <3>1. vanished' \subseteq 1 .. Len(sent)
      BY <1>13, <2>1 DEF TypeOK, CoreDies
    <3>2. deaths' \in 0 .. MaxDeaths
      BY <1>13, TelegramAssumption DEF TypeOK, CoreDies
    <3>3. owes' \subseteq taken'
      BY <1>13 DEF CoreDies
    <3>4. QED
      BY <3>1, <3>2, <3>3
  <2>3. coreUp' \in BOOLEAN /\ inbox' = << >>
    BY <1>13 DEF CoreDies
  <2>4. UNCHANGED <<sent, confirmed, pollVars, chatVars, typing, last, taken, silent, alone, down,
                    faults, musings>>
    BY <1>13 DEF CoreDies, serverVars
  <2>5. QED
    BY <1>0, <2>2, <2>3, <2>4 DEF TypeOK, pollVars, chatVars
<1>14. CASE Restart
  <2>1. coreUp' \in BOOLEAN /\ silent' \in BOOLEAN /\ alone' \in BOOLEAN
    BY <1>14 DEF Restart
  <2>2. QED
    BY <1>0, <1>14, <2>1 DEF TypeOK, Restart, serverVars, boundVars
<1>15. CASE UNCHANGED vars
  BY <1>15 DEF TypeOK, vars, serverVars, pollVars, chatVars, coreVars, boundVars
<1>16. QED
  BY <1>1, <1>2, <1>3, <1>4, <1>5, <1>6, <1>7, <1>8, <1>9, <1>10, <1>11, <1>12, <1>13, <1>14, <1>15
  DEF Next, Adapter, CoreSide

\* Every variable keeps its type, and frames wait only for a connected adapter.
THEOREM TypeCorrect == Spec => []TypeOK
<1>1. QED
  BY InitTypeOK, NextTypeOK, PTL DEF Spec

-------------------------------------------------------------------------------
(* Safety *)

LEMMA InitIInv == Init => IInv
<1> SUFFICES ASSUME Init PROVE IInv
  OBVIOUS
<1>1. Len(inbox) = 0
  BY EmptySeq DEF Init
<1>2. QED
  BY <1>1, InitTypeOK
  DEF Init, IInv, NothingIsSkipped, OnceAndInOrder, BatchAtFrontier, OffsetIsSeen, FrontierIsNew,
      DeadCoreIsEmpty, Frontier

\* A step that changes nothing the invariant speaks of, but for what it speaks of
\* in a connected adapter only.
LEMMA QuietStep ==
  ASSUME IInv, TypeOK',
         UNCHANGED <<sent, confirmed, offset, next, top, last, taken, vanished, inbox, coreUp>>,
         link' \in {link, "down"} \/ (link' = "idle" /\ next > top /\ link # "down")
  PROVE  IInv'
<1>1. \A u : Seen(u)' <=> Seen(u)
  BY DEF Seen, Elems
<1>2. \A u : Wanted(u)' <=> Wanted(u)
  BY DEF Wanted
<1>3. NothingIsSkipped' /\ OnceAndInOrder'
  BY <1>1, <1>2 DEF IInv, NothingIsSkipped, OnceAndInOrder
<1>4. BatchAtFrontier' /\ FrontierIsNew' /\ DeadCoreIsEmpty'
  BY DEF IInv, TypeOK, BatchAtFrontier, FrontierIsNew, DeadCoreIsEmpty, Frontier
<1>5. OffsetIsSeen'
  BY <1>1, <1>2 DEF IInv, OffsetIsSeen
<1>6. QED
  BY <1>3, <1>4, <1>5 DEF IInv

\* The update at the frontier is handled: it was not wanted, or it has been seen now, in
\* the core's queue, in a dead socket, or in an adapter that goes with it unforwarded.
LEMMA TakeStep ==
  ASSUME IInv, TypeOK', TakeUpdate,
         UNCHANGED <<sent, confirmed, top, last, taken, coreUp>>,
         \/ link' = "down" /\ UNCHANGED <<inbox, vanished>>
         \/ /\ link' = link
            /\ \/ ~Wanted(next) /\ UNCHANGED <<inbox, vanished>>
               \/ coreUp /\ inbox' = Append(inbox, next) /\ UNCHANGED vanished
               \/ UNCHANGED inbox /\ vanished' = vanished \cup {next}
  PROVE  IInv'
<1>0. /\ Len(sent) \in Nat /\ Len(inbox) \in Nat /\ link = "idle" /\ next <= top
      /\ offset' = next + 1 /\ next' = next + 1 /\ next \in 1 .. Len(sent)
      /\ confirmed \in Nat /\ offset \in Nat /\ last \in Nat /\ top \in Nat
      /\ inbox \in Seq(1 .. Len(sent))
  <2>1. sent \in Seq(Updates) /\ inbox \in Seq(1 .. Len(sent))
    BY DEF IInv, TypeOK
  <2>2. Len(sent) \in Nat /\ Len(inbox) \in Nat
    BY <2>1, LenProperties
  <2>3. QED
    BY <2>1, <2>2 DEF IInv, TypeOK, TakeUpdate
<1>1. next = Frontier
  BY <1>0 DEF IInv, BatchAtFrontier
<1>2. Frontier' = next + 1 /\ offset' # 0 /\ confirmed < offset'
  BY <1>0, <1>1 DEF IInv, OffsetIsSeen, Frontier
<1>3. /\ Elems(Append(inbox, next)) = Elems(inbox) \cup {next}
      /\ Len(Append(inbox, next)) = Len(inbox) + 1
      /\ \A i \in 1 .. Len(inbox) : Append(inbox, next)[i] = inbox[i]
      /\ Append(inbox, next)[Len(inbox) + 1] = next
  BY <1>0, AppendElems
<1>4. \A u : Wanted(u)' <=> Wanted(u)
  BY DEF Wanted
<1>5. \A u : Seen(u) => Seen(u)'
  BY <1>3 DEF Seen, Elems
<1>6. NothingIsSkipped'
  BY <1>4, <1>5 DEF IInv, NothingIsSkipped
<1>7. ASSUME link' # "down", NEW u, u = next, Wanted(u) PROVE Seen(u)'
  BY <1>3, <1>7 DEF Seen, Elems
<1>8. \A u \in 1 .. next - 1 : Wanted(u) => Seen(u)
  BY <1>0, <1>1 DEF IInv, OffsetIsSeen, NothingIsSkipped, Frontier
<1>9. OffsetIsSeen'
  <2> SUFFICES ASSUME link' # "down", NEW u \in 1 .. next, Wanted(u) PROVE Seen(u)'
    BY <1>0, <1>2, <1>4 DEF OffsetIsSeen
  <2>1. CASE u = next
    BY <1>7, <2>1
  <2>2. CASE u # next
    BY <1>0, <1>5, <1>8, <2>2
  <2>3. QED
    BY <2>1, <2>2
<1>10. OnceAndInOrder' /\ FrontierIsNew'
  <2>1. CASE inbox' = inbox
    BY <1>0, <1>1, <1>2, <2>1 DEF IInv, OnceAndInOrder, FrontierIsNew
  <2>2. CASE inbox' = Append(inbox, next)
    BY <1>0, <1>1, <1>2, <1>3, <2>2 DEF IInv, OnceAndInOrder, FrontierIsNew
  <2>3. QED
    BY <2>1, <2>2
<1>11. BatchAtFrontier'
  BY <1>0, <1>2 DEF BatchAtFrontier
<1>12. DeadCoreIsEmpty'
  BY DEF IInv, DeadCoreIsEmpty
<1>13. QED
  BY <1>6, <1>9, <1>10, <1>11, <1>12 DEF IInv

LEMMA NextIInv == IInv /\ [Next]_vars => IInv'
<1> SUFFICES ASSUME IInv, [Next]_vars PROVE IInv'
  OBVIOUS
<1>0. TypeOK' /\ Len(sent) \in Nat
  BY NextTypeOK, LenProperties DEF IInv, TypeOK
<1>1. CASE Arrives
  <2>1. /\ UNCHANGED <<confirmed, link, offset, next, top, last, taken, vanished, inbox, coreUp>>
        /\ \A u \in 1 .. Len(sent) : sent'[u] = sent[u]
    BY <1>1, ArrivesTyped DEF IInv, Arrives, pollVars, coreVars
  <2>2. \A u \in 1 .. Len(sent) : Wanted(u)' <=> Wanted(u)
    BY <2>1 DEF Wanted
  <2>3. \A u : Seen(u)' <=> Seen(u)
    BY <2>1 DEF Seen, Elems
  <2>4. NothingIsSkipped' /\ OffsetIsSeen'
    <3>1. confirmed \in 0 .. Len(sent) /\ offset \in 0 .. Len(sent) + 1
      BY DEF IInv, TypeOK
    <3>2. NothingIsSkipped'
      BY <1>0, <2>1, <2>2, <2>3, <3>1 DEF IInv, NothingIsSkipped
    <3>3. OffsetIsSeen'
      <4> SUFFICES ASSUME link # "down", offset # 0
                   PROVE  confirmed < offset /\ \A u \in 1 .. offset - 1 : Wanted(u)' => Seen(u)'
        BY <2>1 DEF OffsetIsSeen
      <4>1. confirmed < offset /\ \A u \in 1 .. offset - 1 : Wanted(u) => Seen(u)
        BY DEF IInv, OffsetIsSeen
      <4>2. \A u \in 1 .. offset - 1 : u \in 1 .. Len(sent)
        BY <1>0, <3>1
      <4>3. QED
        BY <2>2, <2>3, <4>1, <4>2
    <3>4. QED
      BY <3>2, <3>3
  <2>5. QED
    BY <1>0, <2>1, <2>4
    DEF IInv, OnceAndInOrder, BatchAtFrontier, FrontierIsNew, DeadCoreIsEmpty, Frontier
<1>2. CASE Ask
  <2>1. /\ link = "idle" /\ link' = "asked" /\ next > top
        /\ confirmed' = IF offset > confirmed + 1 THEN offset - 1 ELSE confirmed
        /\ UNCHANGED <<sent, offset, next, top, last, taken, vanished, inbox, coreUp>>
    BY <1>2 DEF Ask, coreVars
  <2>2. /\ \A u : Seen(u)' <=> Seen(u)
        /\ \A u : Wanted(u)' <=> Wanted(u)
    BY <2>1 DEF Seen, Elems, Wanted
  <2>3. confirmed \in Nat /\ offset \in Nat /\ next \in Nat /\ top \in Nat
    BY <1>0 DEF IInv, TypeOK
  <2>4. NothingIsSkipped' /\ OffsetIsSeen'
    BY <2>1, <2>2, <2>3 DEF IInv, NothingIsSkipped, OffsetIsSeen
  <2>5. BatchAtFrontier' /\ OnceAndInOrder' /\ DeadCoreIsEmpty'
    BY <2>1, <2>3 DEF IInv, OnceAndInOrder, BatchAtFrontier, DeadCoreIsEmpty
  <2>6. FrontierIsNew'
    BY <2>1, <2>3 DEF IInv, FrontierIsNew, Frontier
  <2>7. QED
    BY <1>0, <2>4, <2>5, <2>6 DEF IInv
<1>3. CASE PollAnswers
  <2>1. /\ link = "asked" /\ link' = "idle" /\ next' = Frontier
        /\ UNCHANGED <<sent, confirmed, offset, last, taken, vanished, inbox, coreUp>>
    BY <1>3 DEF PollAnswers, serverVars, coreVars
  <2>2. /\ \A u : Seen(u)' <=> Seen(u)
        /\ \A u : Wanted(u)' <=> Wanted(u)
    BY <2>1 DEF Seen, Elems, Wanted
  <2>3. QED
    BY <1>0, <2>1, <2>2
    DEF IInv, NothingIsSkipped, OffsetIsSeen, OnceAndInOrder, BatchAtFrontier, FrontierIsNew,
        DeadCoreIsEmpty, Frontier
<1>4. CASE PollFails
  <2>1. next > top
    BY <1>4 DEF IInv, TypeOK, BatchAtFrontier, PollFails
  <2>2. QED
    BY <1>0, <1>4, <2>1, QuietStep DEF PollFails, serverVars, coreVars
<1>5. CASE HandleWanted
  BY <1>0, <1>5, TakeStep DEF HandleWanted, Forward, serverVars, coreVars
<1>6. CASE HandleIgnored
  BY <1>0, <1>6, TakeStep DEF HandleIgnored, serverVars, coreVars
<1>7. CASE Outbound \/ SendApproval
  BY <1>0, <1>7, QuietStep DEF Outbound, SendApproval, Rendered, serverVars, pollVars, coreVars
<1>8. CASE TransportStops \/ TransportDies
  BY <1>0, <1>8, QuietStep DEF TransportStops, TransportDies, AdapterGoes, serverVars, coreVars
<1>9. CASE CoreTakes
  <2>1. /\ inbox # << >> /\ inbox' = Tail(inbox) /\ last' = Head(inbox)
        /\ taken' = taken \cup {Head(inbox)}
        /\ UNCHANGED <<sent, confirmed, link, offset, next, top, vanished, coreUp>>
    BY <1>9 DEF CoreTakes, serverVars, pollVars
  <2>2. /\ Head(inbox) = inbox[1] /\ Elems(inbox) = Elems(Tail(inbox)) \cup {Head(inbox)}
        /\ Len(inbox) \in Nat \ {0} /\ Len(inbox') = Len(inbox) - 1
        /\ \A i \in 1 .. Len(inbox) - 1 : inbox'[i] = inbox[i + 1]
    BY <2>1, TailElems DEF IInv, TypeOK
  <2>3. \A u : Seen(u)' <=> Seen(u)
    BY <2>1, <2>2 DEF Seen
  <2>4. \A u : Wanted(u)' <=> Wanted(u)
    BY <2>1 DEF Wanted
  <2>5. NothingIsSkipped' /\ OffsetIsSeen'
    BY <2>1, <2>3, <2>4 DEF IInv, NothingIsSkipped, OffsetIsSeen
  <2>6. OnceAndInOrder'
    BY <2>1, <2>2 DEF IInv, OnceAndInOrder
  <2>7. FrontierIsNew'
    BY <2>1, <2>2 DEF IInv, FrontierIsNew, Frontier
  <2>8. QED
    BY <1>0, <2>1, <2>5, <2>6, <2>7 DEF IInv, BatchAtFrontier, DeadCoreIsEmpty, Frontier
<1>10. CASE CoreAnswers
  BY <1>0, <1>10, QuietStep DEF CoreAnswers, serverVars, pollVars
<1>11. CASE CoreDropsStart
  BY <1>0, <1>11, QuietStep DEF CoreDropsStart, serverVars, pollVars
<1>12. CASE CoreMuses
  BY <1>0, <1>12, QuietStep DEF CoreMuses, serverVars, pollVars, coreVars
<1>13. CASE CoreDies
  <2>1. /\ inbox' = << >> /\ vanished' = vanished \cup Elems(inbox)
        /\ UNCHANGED <<sent, confirmed, link, offset, next, top, last, taken>>
    BY <1>13 DEF CoreDies, serverVars, pollVars
  <2>2. Len(inbox') = 0 /\ Elems(inbox') = {}
    BY <2>1, EmptySeq DEF Elems
  <2>3. \A u : Seen(u)' <=> Seen(u)
    BY <2>1, <2>2 DEF Seen
  <2>4. \A u : Wanted(u)' <=> Wanted(u)
    BY <2>1 DEF Wanted
  <2>5. NothingIsSkipped' /\ OffsetIsSeen'
    BY <2>1, <2>3, <2>4 DEF IInv, NothingIsSkipped, OffsetIsSeen
  <2>6. QED
    BY <1>0, <2>1, <2>2, <2>5
    DEF IInv, OnceAndInOrder, FrontierIsNew, BatchAtFrontier, DeadCoreIsEmpty, Frontier
<1>14. CASE Restart
  <2>1. /\ inbox = << >> /\ offset' = 0 /\ next' = 1 /\ top' = 0 /\ last' = 0 /\ coreUp'
        /\ UNCHANGED <<sent, confirmed, taken, vanished, inbox>>
    BY <1>14 DEF IInv, DeadCoreIsEmpty, Restart, serverVars
  <2>2. /\ \A u : Seen(u)' <=> Seen(u)
        /\ \A u : Wanted(u)' <=> Wanted(u)
    BY <2>1 DEF Seen, Elems, Wanted
  <2>3. Len(inbox') = 0
    BY <2>1, EmptySeq
  <2>4. NothingIsSkipped'
    BY <2>1, <2>2 DEF IInv, NothingIsSkipped
  <2>5. confirmed \in Nat
    BY <1>0 DEF IInv, TypeOK
  <2>6. QED
    BY <1>0, <2>1, <2>3, <2>4, <2>5
    DEF IInv, OnceAndInOrder, OffsetIsSeen, FrontierIsNew, BatchAtFrontier, DeadCoreIsEmpty, Frontier
<1>15. CASE UNCHANGED vars
  BY <1>0, <1>15, QuietStep DEF vars, serverVars, pollVars, coreVars
<1>16. QED
  BY <1>1, <1>2, <1>3, <1>4, <1>5, <1>6, <1>7, <1>8, <1>9, <1>10, <1>11, <1>12, <1>13, <1>14, <1>15
  DEF Next, Adapter, CoreSide

LEMMA IInvCorrect == Spec => []IInv
  BY InitIInv, NextIInv, PTL DEF Spec

\* No message or tap of the owner's is acknowledged to Telegram before a core has it, it
\* waits for one, or has gone down with one: through failed polls, ignored updates,
\* deaths and restarts, for any number of them.
THEOREM NoneSkipped == Spec => []NothingIsSkipped
<1>1. IInv => NothingIsSkipped
  BY DEF IInv
<1>2. QED
  BY <1>1, IInvCorrect, PTL

\* One life of the service meets each update at most once, in the owner's order.
THEOREM MetInOrder == Spec => []OnceAndInOrder
<1>1. IInv => OnceAndInOrder
  BY DEF IInv
<1>2. QED
  BY <1>1, IInvCorrect, PTL

-------------------------------------------------------------------------------
(* The way back *)

\* The file names the chat the owner last spoke from, and so does a connected adapter.
FileIsCurrent == ~unsaved => chatFile = spoke /\ (link # "down" => chat = spoke)

LEMMA NextFileIsCurrent == FileIsCurrent /\ [Next]_vars => FileIsCurrent'
<1> SUFFICES ASSUME FileIsCurrent, [Next]_vars PROVE FileIsCurrent'
  OBVIOUS
<1>1. CASE HandleWanted
  <2>1. link = "idle"
    BY <1>1 DEF HandleWanted, TakeUpdate
  <2>2. QED
    BY <1>1, <2>1 DEF HandleWanted, Remember, FileIsCurrent
<1>2. CASE Restart
  BY <1>2 DEF Restart, FileIsCurrent
<1>3. ASSUME UNCHANGED chatVars, link' # "down" => link # "down" PROVE FileIsCurrent'
  BY <1>3 DEF chatVars, FileIsCurrent
<1>4. CASE Arrives \/ Ask \/ PollAnswers \/ PollFails \/ HandleIgnored
  BY <1>3, <1>4 DEF Arrives, Ask, PollAnswers, PollFails, HandleIgnored, pollVars
<1>5. CASE Outbound \/ SendApproval \/ TransportStops \/ TransportDies
  BY <1>3, <1>5
  DEF Outbound, SendApproval, Rendered, TransportStops, TransportDies, AdapterGoes, pollVars
<1>6. CASE CoreSide
  BY <1>3, <1>6
  DEF CoreSide, CoreTakes, CoreAnswers, CoreDropsStart, CoreMuses, CoreDies, pollVars
<1>7. CASE UNCHANGED vars
  BY <1>3, <1>7 DEF vars, pollVars
<1>8. QED
  BY <1>1, <1>2, <1>4, <1>5, <1>6, <1>7 DEF Next, Adapter

\* What the pet says goes to the chat the owner last used, after any number of restarts,
\* unless the chat file could not be written.
THEOREM TargetKept == Spec => []TargetSurvives
<1>1. Init => FileIsCurrent
  BY DEF Init, FileIsCurrent
<1>2. FileIsCurrent => TargetSurvives
  BY DEF FileIsCurrent, TargetSurvives
<1>3. QED
  BY <1>1, <1>2, NextFileIsCurrent, PTL DEF Spec

LEMMA NextTyping == TypeOK /\ TypingMeansWorking /\ [Next]_vars => TypingMeansWorking'
<1> SUFFICES ASSUME TypeOK, TypingMeansWorking, [Next]_vars, typing', coreUp', ~silent'
             PROVE  inbox' # << >> \/ owes' # {} \/ down' # << >>
  BY DEF TypingMeansWorking
<1>1. ASSUME UNCHANGED <<typing, coreUp, silent, inbox, owes, down>>
      PROVE  inbox' # << >> \/ owes' # {} \/ down' # << >>
  BY <1>1 DEF TypingMeansWorking
<1>2. CASE Arrives \/ Ask \/ PollAnswers \/ PollFails \/ HandleIgnored
  BY <1>1, <1>2 DEF Arrives, Ask, PollAnswers, PollFails, HandleIgnored, coreVars
<1>3. CASE HandleWanted
  <2>1. inbox' = Append(inbox, next) /\ inbox \in Seq(1 .. Len(sent)) /\ next \in 1 .. Len(sent)
    BY <1>3, LenProperties DEF HandleWanted, Forward, TakeUpdate, TypeOK, coreVars
  <2>2. QED
    BY <2>1, AppendProperties
<1>4. CASE Outbound \/ SendApproval \/ TransportStops \/ TransportDies
  BY <1>4 DEF Outbound, SendApproval, StopTyping, TransportStops, TransportDies, AdapterGoes
<1>5. CASE CoreTakes
  BY <1>5 DEF CoreTakes
<1>6. CASE CoreAnswers \/ CoreMuses
  <2>1. UNCHANGED typing /\ \E f \in Frames : Deliver(f)
    BY <1>6 DEF CoreAnswers, CoreMuses, Frames
  <2>2. link # "down" /\ down \in Seq(Frames)
    BY <2>1 DEF TypeOK
  <2>3. PICK f \in Frames : down' = Append(down, f)
    BY <2>1, <2>2 DEF Deliver
  <2>4. QED
    BY <2>2, <2>3, AppendProperties
<1>7. CASE CoreDropsStart \/ CoreDies
  BY <1>7 DEF CoreDropsStart, CoreDies
<1>8. CASE Restart
  BY <1>8 DEF Restart, TypeOK
<1>9. CASE UNCHANGED vars
  BY <1>1, <1>9 DEF vars, coreVars
<1>10. QED
  BY <1>2, <1>3, <1>4, <1>5, <1>6, <1>7, <1>8, <1>9 DEF Next, Adapter, CoreSide

\* The owner sees "typing..." only while something of theirs is on its way or being worked
\* on, or a core has dropped it without a word.
THEOREM TypingHonest == Spec => []TypingMeansWorking
<1>1. Init => TypingMeansWorking
  BY DEF Init, TypingMeansWorking
<1>2. QED
  BY <1>1, NextTyping, TypeCorrect, PTL DEF Spec

===============================================================================
