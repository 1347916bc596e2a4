------------------------------ MODULE MCArith ------------------------------
(* Words of six bits, pairs of twelve: every pair of operands, every pair   *)
(* of words by small, large and extreme divisors, every root, every         *)
(* spelling, and one spelling after another.  Minus 2048 fills the buffer   *)
(* as minus 2 to the 35th fills the real one.                               *)
EXTENDS Arith

MCWord     == 0 .. 63
MCDivisors == {0, 1, 2, 3, 10, 30, 31, 32, 33, 61, 63}
MCDEC      == [op : {"DEC"}, a : MCWord]
MCPrograms ==
  [1 .. 1 -> [op : {"MUL", "MULS36", "DIV"}, a : MCWord, b : MCWord]
               \cup [op : {"DIVS36"}, h : MCWord, l : MCWord, b : MCDivisors]
               \cup [op : {"ISQRT"}, a : 0 .. 31]]
    \cup {<<d, e>> : d \in [op : {"DEC36"}, h : MCWord, l : MCWord] \cup MCDEC, e \in [op : {"DEC"}, a : {1, 32}]}
=============================================================================
