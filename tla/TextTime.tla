------------------------------ MODULE TextTime ------------------------------
(***************************************************************************)
(* The store writes updated_at as text in the layout time.RFC3339Nano and  *)
(* orders rows by that text.  The layout drops the trailing zeros of the   *)
(* fraction, and its point when nothing is left, so that the order of the  *)
(* texts is not the order of the times.                                    *)
(*                                                                         *)
(* A time t is a number of ticks, of which Ticks, Base to the Width, make  *)
(* a second; the program has Base = 10 and Width = 9.                      *)
(***************************************************************************)
EXTENDS Naturals, Sequences, FiniteSetsExt

CONSTANTS Base, Width

ASSUME TimeAssumption == Base \in Nat \ {0, 1} /\ Width \in Nat

\* Powers[<<b, k>>] is b^k, as a function that the provers can unfold.
OneLess(q) == <<q[1], q[2] - 1>>
Powers[q \in Nat \X Nat] == IF q[2] = 0 THEN 1 ELSE q[1] * Powers[OneLess(q)]

Power(k) == Powers[<<Base, k>>]

Ticks == Power(Width)

\* How many digits at the end of t's fraction are zeros, and dropped.
Dropped(t) == Max({k \in 0..Width : t % Power(k) = 0})

\* Characters are numbered in the order of their codes: the point, the digits, the
\* letter Z. The fields before the fraction have a fixed width, so that they
\* compare like one number.
Point    == 0
Digit(d) == d + 1
Zulu     == Base + 1

Fraction(t) ==
  [i \in 1..(Width - Dropped(t)) |-> Digit((t \div Power(Width - i)) % Base)]

Text(t) ==
  <<t \div Ticks>>
    \o (IF Dropped(t) = Width THEN <<>> ELSE <<Point>> \o Fraction(t))
    \o <<Zulu>>

\* The order of texts character by character.
Precedes(s, r) ==
  \E i \in 1..Len(s) :
    /\ i <= Len(r)
    /\ \A k \in 1..(i - 1) : s[k] = r[k]
    /\ s[i] < r[i]

\* ORDER BY updated_at ASC puts a before b.
TextBefore(a, b) == Precedes(Text(a), Text(b))
=============================================================================
