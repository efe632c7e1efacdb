------------------------------- MODULE Prefix -------------------------------
(* Loops of the contracts as recursion over the prefixes of what they  *)
(* walk.  SumFunction and SelectSeq compute the same values; these are the *)
(* forms that facts can be proved about (ArithmeticProofs).                *)
EXTENDS Integers, Sequences

(* The sum of f[1], ..., f[n].                                             *)
Total(f, n) ==
  LET upTo[k \in 0 .. n] == IF k = 0 THEN 0 ELSE upTo[k - 1] + f[k]
  IN  upTo[n]

(* The list rebuilt from s by pushing every element but x.                 *)
Without(s, x) ==
  LET upTo[k \in 0 .. Len(s)] ==
        IF k = 0 THEN <<>>
        ELSE IF s[k] = x THEN upTo[k - 1] ELSE Append(upTo[k - 1], s[k])
  IN  upTo[Len(s)]
=============================================================================
