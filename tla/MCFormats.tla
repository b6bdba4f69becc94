----------------------------- MODULE MCFormats -----------------------------
(* Bounds of the sweep: packets up to the largest a 1420-byte WireGuard MTU  *)
(* gives, days up to 2106 (past the common year 2100), and the padding bytes *)
(* at which one of the masks and limits of PadLen changes.                   *)
EXTENDS Formats

MCKeys == {"k1", "k2"}
MCDraws == {0, 13, 14, 15, 16, 31, 32, 63, 64, 255}
=============================================================================
