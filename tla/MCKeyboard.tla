----------------------------- MODULE MCKeyboard -----------------------------
(***************************************************************************)
(* Keyboard with two keys, whose scancodes 0x1C and 0x05 differ in the bit *)
(* that turns the port off, and a screen of two rows and two columns.      *)
(***************************************************************************)
EXTENDS Keyboard

MCKeys == {{2, 3, 4}, {0, 2}}
MCText == <<"x", "x", "x", "\n">>

=============================================================================
