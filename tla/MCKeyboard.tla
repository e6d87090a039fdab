---------------------------- MODULE MCKeyboard ----------------------------
(* The instance of module Keyboard that TLC checks.                        *)
EXTENDS Keyboard

(* A key pressed, the same released, two more released of which one has    *)
(* no character.                                                           *)
MCScancodes == {16, 144, 145, 128}
MCchar_map == [k \in {0, 16, 17} |-> k]
=============================================================================
