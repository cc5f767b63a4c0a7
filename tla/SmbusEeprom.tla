----------------------------- MODULE SmbusEeprom -----------------------------
(***************************************************************************)
(* The SMBus EEPROM device of src/hw/smbus_eeprom.c: the five callbacks    *)
(* the SMBus layer calls (quick_cmd, send_byte, receive_byte, write_data,  *)
(* read_data) over the board's 256-byte buffer and the uint8_t offset.     *)
(* The SMBus host transaction code is outside the repository: the         *)
(* callbacks are called in any order, with a command byte from Cmds and   *)
(* block buffers from Bufs.                                                *)
(***************************************************************************)
EXTENDS Naturals, Sequences

CONSTANTS Contents, Vals, Cmds, Bufs

ASSUME \A b \in Bufs : 0 < Len(b) /\ Len(b) <= 32   \* SMBus block size

VARIABLES
    data,    \* eeprom->data[0 .. 255]
    offset,  \* eeprom->offset (uint8_t)
    out      \* the byte the last read callback returned

vars == <<data, offset, out>>

\* smbus_eeprom_device_init: the board's buffer, offset 0.
Init ==
    /\ data = Contents
    /\ offset = 0
    /\ out = 0

\* eeprom_quick_cmd: a debug print only.
QuickCmd(read) == UNCHANGED vars

\* eeprom_send_byte
SendByte(val) == offset' = val /\ UNCHANGED <<data, out>>

\* Mutant: offset held in a wider integer, so ++ does not wrap.
ReceiveByteNoWrap(o) == [val |-> data[o], offset |-> o + 1]
\* data[offset++] with offset a uint8_t.
ReceiveByteAt(o) == [val |-> data[o], offset |-> (o + 1) % 256]

\* eeprom_receive_byte
ReceiveByte ==
    /\ out' = ReceiveByteAt(offset).val
    /\ offset' = ReceiveByteAt(offset).offset
    /\ UNCHANGED data

\* Mutant: the bytes past the end of the array are dropped, not wrapped.
WriteDataNoWrap(d, cmd, buf) ==
    LET len == Len(buf)
        n == IF cmd + len > 256 THEN 256 - cmd ELSE len
    IN [a \in DOMAIN d |-> IF cmd <= a /\ a < cmd + n THEN buf[a - cmd + 1] ELSE d[a]]
\* The array after eeprom_write_data: memcpy of the first n bytes to cmd,
\* then of the remaining len - n to address 0.
WriteDataBytes(d, cmd, buf) ==
    LET len == Len(buf)
        n == IF cmd + len > 256 THEN 256 - cmd ELSE len
        d1 == [a \in DOMAIN d |-> IF cmd <= a /\ a < cmd + n THEN buf[a - cmd + 1] ELSE d[a]]
    IN IF len - n # 0
       THEN [a \in DOMAIN d |-> IF a < len - n THEN buf[n + a + 1] ELSE d1[a]]
       ELSE d1

\* eeprom_write_data: the offset is left where it was.
WriteData(cmd, buf) ==
    /\ data' = WriteDataBytes(data, cmd, buf)
    /\ UNCHANGED <<offset, out>>

\* eeprom_read_data: byte n of a read from cmd; the first sets the offset.
ReadData(cmd, n) ==
    LET o == IF n = 0 THEN cmd ELSE offset
    IN /\ out' = ReceiveByteAt(o).val
       /\ offset' = ReceiveByteAt(o).offset
       /\ UNCHANGED data

Next ==
    \/ \E r \in {0, 1} : QuickCmd(r)
    \/ \E v \in Cmds : SendByte(v)
    \/ ReceiveByte
    \/ \E c \in Cmds, b \in Bufs : WriteData(c, b)
    \/ \E c \in Cmds, n \in {0, 1} : ReadData(c, n)

Spec == Init /\ [][Next]_vars

-----------------------------------------------------------------------------
TypeOK ==
    /\ data \in [0 .. 255 -> Vals]
    /\ offset \in 0 .. 255
    /\ out \in Vals \cup {0}

Eeprom == INSTANCE EepromSpec WITH mem <- data, ptr <- offset

\* The device behaves as a 256-byte EEPROM: block writes that run past the
\* last byte continue at address 0 (the two memcpy calls of
\* eeprom_write_data), reads return the byte at the current address and
\* advance it modulo 256 (the uint8_t offset of eeprom_receive_byte), and
\* a read from a command byte starts there (eeprom_read_data).
EepromRefinement == Eeprom!Spec

=============================================================================
