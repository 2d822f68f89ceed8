------------------------------- MODULE KcpSeq -------------------------------
(***************************************************************************)
(* The 32-bit sequence arithmetic of crates/kcp/src/kcp.rs.                *)
(*                                                                         *)
(* Sequence numbers (sn, una, snd_nxt, rcv_nxt, ...) are u32 values that   *)
(* wrap; the code compares them with _itimediff, the wrapping difference   *)
(* read as an i32.  Half stands for 2^31.  The operators are written       *)
(* without the modulus operator, which keeps every proof obligation about  *)
(* them linear.                                                            *)
(***************************************************************************)
EXTENDS Integers

CONSTANT Half

ASSUME HalfAssumption == Half \in Nat /\ Half > 1

M == 2 * Half

(* The values of a u32. *)
Seq32 == 0..(M - 1)

(* a.wrapping_add(n) for a u32 a and n < 2^32. *)
WrappingAdd(a, n) == IF a + n < M THEN a + n ELSE a + n - M

(* a.wrapping_sub(b) for two u32 values. *)
WrappingSub(a, b) == IF a >= b THEN a - b ELSE a - b + M

(* _itimediff(later, earlier): the wrapping difference as an i32. *)
itimediff(later, earlier) ==
    LET d == WrappingSub(later, earlier)
    IN  IF d < Half THEN d ELSE d - M
=============================================================================
