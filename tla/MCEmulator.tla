----------------------------- MODULE MCEmulator ----------------------------
(* Small instances of Emulator for TLC. *)
EXTENDS Emulator

CONSTANTS a, b

None == {}
AwayB == {<<Away, b>>}
=============================================================================
