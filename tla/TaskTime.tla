------------------------------ MODULE TaskTime ------------------------------
(***************************************************************************)
(* Timestamps as the task store keeps them.  Every time column holds the  *)
(* text of time.RFC3339Nano in UTC, and the claim query compares the      *)
(* columns as TEXT.  The layout drops trailing zeros of the fraction (and *)
(* the whole fraction when it is zero) before the final "Z", so texts of  *)
(* one second have different lengths, and "Z" sorts after every digit.    *)
(*                                                                         *)
(* A time is a number of ticks.  A second has Base^2 ticks: the nine      *)
(* decimal digits of the fraction are modelled by two digits in base Base.*)
(* Base = 1 leaves whole seconds only.                                     *)
(***************************************************************************)
EXTENDS Integers, Sequences

CONSTANT Base

ASSUME BaseAssumption == Base \in Nat \ {0}

TicksPerSecond == Base * Base

Second(t) == t \div TicksPerSecond

(* The digits of the fraction, without the trailing zeros.                *)
Fraction(t) ==
  LET f  == t % TicksPerSecond
      d1 == f \div Base
      d2 == f % Base
  IN  IF d2 # 0 THEN <<d1, d2>> ELSE IF d1 # 0 THEN <<d1>> ELSE <<>>

(* The text as a sequence of comparable symbols: the date and time up to  *)
(* the second has a fixed width and sorts like a number, digits sort like *)
(* numbers, and Base stands for "Z", which sorts after all of them.  The  *)
(* "." before a fraction sorts below "Z" as the digit after it does.      *)
Format(t) == <<Second(t)>> \o Fraction(t) \o <<Base>>

(* SQLite's comparison of two TEXT values.                                *)
TextLess(a, b) ==
  \E i \in 1..Len(a) :
     /\ i <= Len(b)
     /\ a[i] < b[i]
     /\ \A j \in 1..(i - 1) : a[j] = b[j]

TextLeq(a, b) == a = b \/ TextLess(a, b)
=============================================================================
