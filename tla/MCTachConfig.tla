---------------------------- MODULE MCTachConfig ----------------------------
(***************************************************************************)
(* A small board for TachConfig: bytes of two bits, an eight-byte EEPROM   *)
(* with the settings at addresses 1 to 6, limits in the same proportions   *)
(* to an erased byte as in the source.                                     *)
(***************************************************************************)
EXTENDS TachConfig

Frame(k, n, a, l, h) == [kind |-> k, len |-> n, addr |-> a, lo |-> l, hi |-> h]

\* Good and bad values for every setting, a frame that is too short, a word that
\* starts in the last byte of the device, an address past its end that wraps to the
\* magic byte, and reads of a setting and of a word.
MCFrames ==
  {Frame("SET_BYTE", 3, Base + 1, 2, 0), Frame("SET_BYTE", 2, Base + 1, 0, 0),
   Frame("SET_BYTE", 3, Base + EepromSize, 3, 0),
   Frame("SET_WORD", 4, Base + 4, 2, 1), Frame("SET_WORD", 4, Base + 4, 0, 0),
   Frame("SET_WORD", 3, Base + 2, 1, 1), Frame("SET_WORD", 4, Base + 2, 1, 3),
   Frame("SET_WORD", 4, EepromSize - 1, 2, 2),
   Frame("GET_BYTE", 2, Base, 0, 0), Frame("GET_WORD", 2, Base + 4, 0, 0),
   Frame("GET_WORD", 1, Base + 2, 0, 0)}

\* An erased device, one full of zeros, and one left behind by other firmware.
MCImages ==
  {[c \in Cells |-> Erased], [c \in Cells |-> 0],
   [c \in Cells |-> IF c = Base THEN Magic ELSE (c + 1) % ByteMod]}
=============================================================================
