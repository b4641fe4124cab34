----------------------------- MODULE MCKeyboard -----------------------------
(* Keyboard with a buffer of a few bytes. *)
EXTENDS Keyboard
=============================================================================
