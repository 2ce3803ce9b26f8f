------------------------------- MODULE Int128 -------------------------------
(***************************************************************************)
(* i128 arithmetic as a release build of the contracts does it: the        *)
(* workspace's release profile sets no overflow checks, so a sum or a      *)
(* product wraps.  Division truncates.                                     *)
(***************************************************************************)
EXTENDS Integers

CONSTANT I128Max   \* the largest i128; the smallest is -I128Max - 1

ASSUME I128Assumption == I128Max \in Nat \ {0}

Wrap(x) == ((x + I128Max + 1) % (2 * (I128Max + 1))) - (I128Max + 1)

Abs(x) == IF x < 0 THEN -x ELSE x

DivI128(a, b) ==
  IF a < 0 <=> b < 0 THEN Abs(a) \div Abs(b) ELSE -(Abs(a) \div Abs(b))
=============================================================================
