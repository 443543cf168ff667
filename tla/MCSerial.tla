------------------------------ MODULE MCSerial ------------------------------
(***************************************************************************)
(* Serial with queues of four, an interrupt at two, and a text of a        *)
(* newline.                                                                *)
(***************************************************************************)
EXTENDS Serial

MCText  == <<"\n">>
MCInput == <<"\n", "x", "x">>

=============================================================================
