----------------------------- MODULE MCKeyboard -----------------------------
(* Two lines, the second of them empty, and the start of a third. *)
EXTENDS Keyboard

TwoLines == <<"a", "b", "c", "enter", "enter", "d", "e">>
=============================================================================
