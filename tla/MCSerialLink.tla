---------------------------- MODULE MCSerialLink ----------------------------
(***************************************************************************)
(* Bytes of sixteen values, with the reserved words and the displacements  *)
(* laid out as in serialport.h: a zero low byte and a small high byte for  *)
(* the signals, (0,0), (1,0) or (15,15) for displacements of 0, 1 and -1.  *)
(* Three messages give up to twelve bytes in every state of delivery.      *)
(***************************************************************************)
EXTENDS SerialLink

MCMessages == {<<16>>, <<32, 241>>, <<1, 255>>, <<0, 1>>}
=============================================================================
