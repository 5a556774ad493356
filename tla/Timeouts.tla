------------------------------- MODULE Timeouts -------------------------------
(***************************************************************************)
(* The three timeouts of a turn, all from the one knob                     *)
(* SHELLDON_TURN_TIMEOUT (timeouts.py): the worker gives up at W, the      *)
(* fork-server kills it at R, the core degrades the turn at T.             *)
(*                                                                         *)
(* The knob goes through float(), so it may be a fraction, an infinity or  *)
(* nan.  A finite float is num/den here, of a magnitude below 2^53: there  *)
(* the differences T-2 and T-5 are exact (beyond it they round, and R may  *)
(* come out as T; that is 285 million years).                              *)
(***************************************************************************)
EXTENDS Integers

Finite ==
  {t \in [kind : {"finite"}, num : Int, den : Nat \ {0}] :
     -(2^53) * t.den < t.num /\ t.num < 2^53 * t.den}

Floats == Finite \cup [kind : {"nan", "inf", "-inf"}]

\* What the environment may hold: no such variable, a text float() refuses, a float.
Knobs == Floats \cup [kind : {"unset", "invalid"}]

Seconds(n) == [kind |-> "finite", num |-> n, den |-> 1]

\* The < of floats: nan is neither below nor above anything.
Below(a, b) ==
  \/ a.kind = "-inf" /\ b.kind \in {"finite", "inf"}
  \/ a.kind = "finite" /\ b.kind = "inf"
  \/ a.kind = "finite" /\ b.kind = "finite" /\ a.num * b.den < b.num * a.den

\* a - n: nan and the infinities stay what they are.
Minus(a, n) == IF a.kind = "finite" THEN [a EXCEPT !.num = @ - n * a.den] ELSE a

DefaultTurnTimeout == Seconds(30)
MinTurnTimeout     == Seconds(15)
ReapMargin         == 2
CompletionMargin   == 5

\* _RESULT_WRITE_TIMEOUT_S of the worker
ResultWriteTimeout == Seconds(5)

\* _resolve_turn_timeout: the default for want of a number, the floor for a small one.
ResolveTurnTimeout(knob) ==
  IF knob.kind \in {"unset", "invalid"} THEN DefaultTurnTimeout
  ELSE IF Below(knob, MinTurnTimeout) THEN MinTurnTimeout
  ELSE knob

TurnTimeout(knob)       == ResolveTurnTimeout(knob)
ReapTimeout(knob)       == Minus(TurnTimeout(knob), ReapMargin)
CompletionTimeout(knob) == Minus(TurnTimeout(knob), CompletionMargin)

\* "W < R < T AND write < W": a worker gives up before it is killed, is killed before
\* the core gives the turn up, and has less time to write a Result than to wait for it.
Coherent(knob) ==
  /\ Below(ResultWriteTimeout, CompletionTimeout(knob))
  /\ Below(CompletionTimeout(knob), ReapTimeout(knob))
  /\ Below(ReapTimeout(knob), TurnTimeout(knob))
===============================================================================
