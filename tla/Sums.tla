-------------------------------- MODULE Sums --------------------------------
(***************************************************************************)
(* Sums over finite tables, written so that they can be reasoned about     *)
(* without induction: a sum is the number of units it stands for.          *)
(***************************************************************************)
EXTENDS Naturals, FiniteSets

\* The units of the values that f has on S.
Units(f, S) == UNION {{x} \X (1 .. f[x]) : x \in S}

\* The sum of the values of f.
Total(f) == Cardinality(Units(f, DOMAIN f))
=============================================================================
