---------------------------- MODULE Collections ----------------------------
(***************************************************************************)
(* Sums and selections, in a form that can be reasoned about.              *)
(***************************************************************************)
EXTENDS Naturals, Sequences, FiniteSets

\* The sum of a function from a finite set to the natural numbers, as the
\* number of the units it counts: f[x] units of each x.
UnitsOf(f) == UNION {{x} \X (1 .. f[x]) : x \in DOMAIN f}
SumOf(f) == Cardinality(UnitsOf(f))

\* The elements of s at the indices K, in their order.
Kept(s, K) ==
  LET kept[i \in Nat] ==
        IF i = 0 THEN <<>>
        ELSE IF i \in K THEN Append(kept[i - 1], s[i]) ELSE kept[i - 1]
  IN  kept[Len(s)]
=============================================================================
