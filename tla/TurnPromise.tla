----------------------------- MODULE TurnPromise -----------------------------
(***************************************************************************)
(* What the core promises its owner about turns, with no tasks, queues or  *)
(* workers in sight: the pet thinks about one batch of messages at a time, *)
(* batches follow the order the messages were sent in, a message is dealt  *)
(* with once, and a turn that cannot start takes down the messages that    *)
(* had already been folded behind it, no others.  A death of the core      *)
(* takes down every message it had not dealt with.                         *)
(***************************************************************************)
EXTENDS Naturals

CONSTANTS
  MaxAsks,    \* how many messages the owner sends
  MaxDeaths   \* how often the core may die

VARIABLES
  asked,      \* messages are numbered in the order the owner sends them
  waiting,    \* sent, not yet part of a turn
  thinking,   \* <<batch>> while a turn is open, <<>> while the pet is at rest
  settled,    \* their turn ended with a reply or a "can't think right now"
  lost,       \* dropped because a turn could not start, or with the core
  died        \* deaths of the core so far

promiseVars == <<asked, waiting, thinking, settled, lost, died>>

PromiseTypeOK ==
  /\ asked \in 0..MaxAsks
  /\ waiting \subseteq 1..asked
  /\ thinking \in {<<>>} \cup {<<b>> : b \in SUBSET (1..asked)}
  /\ settled \subseteq 1..asked
  /\ lost \subseteq 1..asked
  /\ died \in 0..MaxDeaths

\* The messages of S were all sent before the other waiting ones.
Oldest(S) == S \subseteq waiting /\ \A x \in S, y \in waiting \ S : x < y

Init ==
  /\ asked = 0
  /\ waiting = {}
  /\ thinking = <<>>
  /\ settled = {}
  /\ lost = {}
  /\ died = 0

Ask ==
  /\ asked < MaxAsks
  /\ asked' = asked + 1
  /\ waiting' = waiting \cup {asked + 1}
  /\ UNCHANGED <<thinking, settled, lost, died>>

\* An empty batch is a turn of the pet's own: a musing, a dream, a resumed call.
Begin ==
  /\ thinking = <<>>
  /\ \E batch \in SUBSET waiting :
       /\ Oldest(batch)
       /\ thinking' = <<batch>>
       /\ waiting' = waiting \ batch
  /\ UNCHANGED <<asked, settled, lost, died>>

Settle ==
  /\ thinking # <<>>
  /\ settled' = settled \cup thinking[1]
  /\ thinking' = <<>>
  /\ UNCHANGED <<asked, waiting, lost, died>>

Abandon ==
  /\ thinking # <<>>
  /\ \E batch \in SUBSET waiting :
       /\ Oldest(batch)
       /\ lost' = lost \cup thinking[1] \cup batch
       /\ waiting' = waiting \ batch
  /\ thinking' = <<>>
  /\ UNCHANGED <<asked, settled, died>>

Die ==
  /\ died < MaxDeaths /\ died' = died + 1
  /\ lost' = lost \cup waiting \cup (IF thinking = <<>> THEN {} ELSE thinking[1])
  /\ waiting' = {}
  /\ thinking' = <<>>
  /\ UNCHANGED <<asked, settled>>

Next == Ask \/ Begin \/ Settle \/ Abandon \/ Die

Spec == Init /\ [][Next]_promiseVars

\* No message waits for ever: each one is settled or lost.
EveryAskEnds == \A m \in 1..MaxAsks : (asked >= m) ~> (m \in settled \cup lost)
=============================================================================
