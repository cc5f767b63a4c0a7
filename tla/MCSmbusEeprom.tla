---------------------------- MODULE MCSmbusEeprom ----------------------------
(***************************************************************************)
(* SMBus EEPROM instance: an erased array, writes at the first and the     *)
(* second-to-last byte, so that a three-byte block wraps to address 0.    *)
(***************************************************************************)
EXTENDS SmbusEeprom

MCContents == [a \in 0 .. 255 |-> 0]
MCBufs == {<<1>>, <<1, 1, 1>>, <<0, 1>>}

=============================================================================
