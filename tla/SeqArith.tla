------------------------------ MODULE SeqArith ------------------------------
(***************************************************************************)
(* Sequence-number arithmetic of the L2TPv3 control channel                *)
(* (messages.py: seq_delta, seq_advance).                                  *)
(*                                                                         *)
(* The code works on 16-bit numbers; the width is the parameter Modulus    *)
(* (65536 in the code), so that TLC can let the numbers wrap after a few   *)
(* messages and TLAPS can prove the facts below for every even modulus.    *)
(***************************************************************************)
EXTENDS Integers

CONSTANT Modulus

ASSUME ModulusAssumption == Modulus \in Nat /\ Modulus > 1 /\ Modulus % 2 = 0

\* Half of the number space: the sign bit 0x8000.
Half == Modulus \div 2

\* The numbers a header field Ns or Nr can hold.
SeqNum == 0 .. Modulus - 1

\* Mutant: the mask is forgotten.
seq_advance_unmasked(seq, by) == seq + by

\* (seq + by) & 0xFFFF
seq_advance(seq, by) == (seq + by) % Modulus

\* Signed distance from b to a: the difference modulo the width, read as a
\* two's-complement number.
seq_delta(a, b) ==
    LET diff == (a - b) % Modulus
    IN  IF diff >= Half THEN diff - Modulus ELSE diff
=============================================================================
