---------------------------- MODULE ChunkNumbers ---------------------------
(***************************************************************************)
(* The numbers that chunker.py computes with: min, max and division that   *)
(* rounds up, of two numbers each.                                         *)
(***************************************************************************)
EXTENDS Integers

Least(a, b) == IF a < b THEN a ELSE b
Greatest(a, b) == IF a < b THEN b ELSE a
CeilDiv(a, b) == (a + b - 1) \div b
===========================================================================
