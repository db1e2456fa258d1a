----------------------------- MODULE MCTerminal -----------------------------
(* A character of three bytes and an arrow key; a proper size, a larger one  *)
(* with a zero in its low byte, and one with no rows.                        *)
EXTENDS Terminal
MCKeys == {<<226, 130, 172>>, <<27, 79, 65>>}
MCSizes == {<<24, 80>>, <<256, 80>>, <<0, 80>>}
=============================================================================
