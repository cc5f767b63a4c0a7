----------------------------- MODULE EepromSpec -----------------------------
(***************************************************************************)
(* What an SMBus EEPROM of 256 bytes promises: byte writes and block       *)
(* writes from a command (address) byte, wrapping at the end of the array; *)
(* a current address that a one-byte write sets and that each read       *)
(* advances, modulo 256; reads that return the byte at that address.       *)
(***************************************************************************)
EXTENDS Naturals, Sequences

CONSTANTS
    Contents,  \* the array's initial bytes: [0 .. 255 -> Vals]
    Vals, Cmds, Bufs

Addr == 0 .. 255

VARIABLES mem, ptr, out

vars == <<mem, ptr, out>>

Init ==
    /\ mem = Contents
    /\ ptr = 0
    /\ out = 0

\* Quick command: no effect on the array.
Quick == UNCHANGED vars

\* Send byte: the current address.
SetAddress(a) == ptr' = a /\ UNCHANGED <<mem, out>>

\* Receive byte, and the later bytes of a block read: the byte at the
\* current address, which then advances.
ReadNext == out' = mem[ptr] /\ ptr' = (ptr + 1) % 256 /\ UNCHANGED mem

\* The first byte of a read from a command byte.
ReadFrom(a) == out' = mem[a] /\ ptr' = (a + 1) % 256 /\ UNCHANGED mem

\* A write of the bytes of b from address a on, wrapping to address 0.
Write(a, b) ==
    /\ mem' = [x \in Addr |-> IF \E i \in 1 .. Len(b) : (a + i - 1) % 256 = x
                              THEN b[CHOOSE i \in 1 .. Len(b) : (a + i - 1) % 256 = x]
                              ELSE mem[x]]
    /\ UNCHANGED <<ptr, out>>

Next ==
    \/ Quick
    \/ \E a \in Cmds : SetAddress(a) \/ ReadFrom(a)
    \/ ReadNext
    \/ \E a \in Cmds, b \in Bufs : Write(a, b)

Spec == Init /\ [][Next]_vars

=============================================================================
