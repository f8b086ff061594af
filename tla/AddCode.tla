-------------------------------- MODULE AddCode --------------------------------
(***************************************************************************)
(* getPlayerAddCode (SignUpViewController.swift): the first four digits of *)
(* a shuffle of ten are reduced to a number, written out, and filled up    *)
(* with one zero.  A text is the sequence of its digits.                   *)
(***************************************************************************)
EXTENDS Integers, Sequences

Digits == 0 .. 9

(* The first four of ten shuffled digits: all different. *)
Draws == {s \in [1 .. 4 -> Digits] : \A i, j \in 1 .. 4 : i # j => s[i] # s[j]}

(* reduce(0) { $0*10 + $1 } *)
Reduced(s) == (((0 * 10 + s[1]) * 10 + s[2]) * 10 + s[3]) * 10 + s[4]

(* String(n), for n below ten thousand: no zeros in front. *)
Text(n) ==
  IF n >= 1000 THEN <<n \div 1000, (n \div 100) % 10, (n \div 10) % 10, n % 10>>
  ELSE IF n >= 100 THEN <<n \div 100, (n \div 10) % 10, n % 10>>
  ELSE IF n >= 10 THEN <<n \div 10, n % 10>>
  ELSE <<n>>

PlayerAddCode(s) ==
  LET text == Text(Reduced(s))
  IN  IF Len(text) <= 3 THEN <<0>> \o text ELSE text
=============================================================================
