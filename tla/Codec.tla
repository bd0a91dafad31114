------------------------------- MODULE Codec --------------------------------
(***************************************************************************)
(* How a message travels (protomsgutil.swift): its bytes as a string of    *)
(* two hexadecimal digits each.  A character is the digit it stands for.   *)
(***************************************************************************)
EXTENDS Integers, Sequences

Byte == 0..255
Digit == 0..15

\* "%02x" of every byte: always two digits, the higher first.
hexStringFromData(data) ==
  [k \in 1..(2 * Len(data)) |->
     IF k % 2 = 1 THEN data[(k + 1) \div 2] \div 16 ELSE data[k \div 2] % 16]

\* Every two characters are scanned together; a single one at the end is left.
hexStringToData(string) ==
  [k \in 1..(Len(string) \div 2) |-> 16 * string[2 * k - 1] + string[2 * k]]
=============================================================================
