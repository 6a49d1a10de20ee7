-------------------------- MODULE SerialArithmetic --------------------------
(***************************************************************************)
(* SOA serials are uint32 in the code.  Half stands for 2^31 and the       *)
(* modulus 2 * Half for 2^32, so every comparison below wraps where the    *)
(* code's does.  The repository compares serials in three places with      *)
(* three different expressions; all three are kept as they are written.    *)
(***************************************************************************)
EXTENDS Integers

CONSTANT Half          \* 2^31 in the code

ASSUME HalfAssumption == Half \in Nat /\ Half > 1

Serials == 0 .. (2 * Half - 1)

(* A slip: a serial that does not wrap.                                    *)
NextSerialUnbounded(s) == s + 1

(* uint32 soa.Serial++ (bumpSerial): wraps to 0 after the largest serial.  *)
NextSerial(s) == IF s = 2 * Half - 1 THEN 0 ELSE s + 1

(* dns-update-persistent: may an added SOA replace the current one?        *)
serialGreater(a, b) ==
    /\ a # b
    /\ \/ a < b /\ b - a > Half
       \/ a > b /\ a - b < Half

(* ixfr: int32(a - b) > 0, the uint32 difference read as a signed number.  *)
serialNewer(a, b) ==
    /\ a # b
    /\ LET d == IF a >= b THEN a - b ELSE a - b + 2 * Half
       IN  d < Half

(* A slip: serials compared as plain numbers.                              *)
lessPlain(a, b) == a < b

(* secondary-persistent: MaxSerialIncrement is 2^31 - 1.                   *)
less(a, b) ==
    IF a < b THEN b - a <= Half - 1
             ELSE a - b > Half - 1

=============================================================================
