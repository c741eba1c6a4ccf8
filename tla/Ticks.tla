------------------------------- MODULE Ticks -------------------------------
(***************************************************************************)
(* Logical ticks: unsigned machine integers compared by the sign of their  *)
(* modular difference, so that a counter may wrap without reordering       *)
(* evidence.  The program's modulus is 2^64; TickModulus is a parameter so *)
(* that the model checker can visit every pair of ticks of a small one.    *)
(***************************************************************************)
EXTENDS Integers

CONSTANT TickModulus

ASSUME TickModulusAssumption ==
    TickModulus \in Nat /\ TickModulus > 1 /\ TickModulus % 2 = 0

Tick == 0 .. TickModulus - 1

(* The last representable tick, ~uint64{0}. *)
LastTick == TickModulus - 1

(* The two's complement reading of the unsigned difference.                *)
TickDelta(from, to) ==
    LET d == (to - from) % TickModulus
    IN  IF d < TickModulus \div 2 THEN d ELSE d - TickModulus

(* `to' is strictly after `from'.                                          *)
TickAfter(from, to) == TickDelta(from, to) > 0

(* Distance forward, zero when the second tick is not after the first.     *)
ForwardGap(from, to) == IF TickAfter(from, to) THEN TickDelta(from, to) ELSE 0

(* Addition that saturates at the last tick instead of wrapping.           *)
AddTicksSaturating(base, span) ==
    IF base + span > LastTick THEN LastTick ELSE base + span

-----------------------------------------------------------------------------
(* Steps back, as TickSource sees them.                                    *)

(* How far `tick' lies behind `last'; only asked when it does.             *)
Backwards(last, tick) == -TickDelta(last, tick)

(* Distance from `last' to the wrap, in the unsigned arithmetic that makes *)
(* it zero for last = 0.                                                   *)
DistanceToWrap(last) == (TickModulus - last) % TickModulus

(* A step back that exceeds the distance to the wrap, by no more than the  *)
(* tolerance, is taken for a rollover of the counter, and accepted.        *)
TakenForRollover(last, tick, tolerance) ==
    LET back == Backwards(last, tick)
        wrap == DistanceToWrap(last)
    IN  back > 0 /\ back > wrap /\ back - wrap <= tolerance
=============================================================================
