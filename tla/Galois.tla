------------------------------- MODULE Galois -------------------------------
(***************************************************************************)
(* The tables of the field with 2^Bits elements (rs/galois.rs), which has  *)
(* 256 in the code: the powers of 2, their logarithms and all products.    *)
(***************************************************************************)
EXTENDS Integers, Bitwise

CONSTANTS Bits, GENERATING_POLYNOMIAL     \* 8 and 29 in the code

FIELD_SIZE == 2 ^ Bits
Order == FIELD_SIZE - 1

(* gen_exp_log() *)
EXP_TABLE ==
    LET exp[i \in 0..Order] ==
            IF i = 0 THEN 1
            ELSE LET x == 2 * exp[i - 1]
                 IN IF x < FIELD_SIZE THEN x ELSE (x - FIELD_SIZE) ^^ GENERATING_POLYNOMIAL
    IN [i \in 0..Order |-> exp[i]]

LOG_TABLE ==
    [x \in 0..Order |-> IF x = 0 THEN 0 ELSE CHOOSE i \in 0..Order - 1 : EXP_TABLE[i] = x]

(* mul_log_exp() *)
MUL_TABLE ==
    [a, b \in 0..Order |->
        IF a = 0 \/ b = 0 THEN 0 ELSE EXP_TABLE[(LOG_TABLE[a] + LOG_TABLE[b]) % Order]]
=============================================================================
