------------------------------ MODULE WsFrame ------------------------------
(* The frame headers of internal/wsx/wsx.go: what WriteText and writeControl  *)
(* put in front of a payload, and what readFrame makes of it, as sequences of *)
(* bytes.  The mask that follows the header is random and is undone by the    *)
(* same exclusive or that applied it, so it is left out.                      *)
EXTENDS Integers, Sequences

MaxInt == 2147483648 * 4294967296 - 1  \* the largest int, 2^63 - 1
Fin    == 128                           \* also the mask bit of the second byte

Byte(n, unit) == (n \div unit) % 256    \* byte(n >> k), with unit = 2^k

(* WriteText: one of three forms, by length. *)
textHeader(n) ==
    CASE n < 126 -> <<Fin + 1, Fin + n>>
      [] n >= 126 /\ n < 65536 -> <<Fin + 1, Fin + 126, Byte(n, 256), Byte(n, 1)>>
      [] n >= 65536 ->
           <<Fin + 1, Fin + 127,
             Byte(n, 72057594037927936), Byte(n, 281474976710656),
             Byte(n, 1099511627776), Byte(n, 4294967296), Byte(n, 16777216),
             Byte(n, 65536), Byte(n, 256), Byte(n, 1)>>

(* writeControl: the payload is cut off at 125 bytes. *)
controlLen(n) == IF n > 125 THEN 125 ELSE n
controlHeader(op, n) == <<Fin + op, Fin + controlLen(n)>>

(* readFrame: the opcode; whether a mask follows; the length. *)
opcode(h) == h[1] % 16
masked(h) == h[2] >= 128

Uint16(h) == 256 * h[3] + h[4]
Uint64(h) == 256 * (256 * (256 * (256 * (256 * (256 * (256 * h[3] + h[4]) + h[5])
                 + h[6]) + h[7]) + h[8]) + h[9]) + h[10]
signed(u) == IF u > MaxInt THEN u - 2 * (MaxInt + 1) ELSE u     \* int(uint64)

length(h) ==
    LET n == h[2] % 128
    IN CASE n = 126 -> Uint16(h)
         [] n = 127 -> signed(Uint64(h))
         [] n \notin {126, 127} -> n
=============================================================================
