------------------------------ MODULE MCPi1581 ------------------------------
(* A small instance of Pi1581 for TLC: two disks of two tracks with two sectors *)
(* of two bytes on a side, the second disk read-only.  A program gives two      *)
(* commands, or uses the 8520 with bytes of one bit and serial bytes of two.    *)
EXTENDS Pi1581

Data2(i, t, side, s) == [k \in 1 .. SectorLength |-> 10 + 2 * (8 * i + 4 * t + 2 * side + s) + k]
Command0(n) == [number |-> n, deleted |-> FALSE, spin |-> FALSE]
AllCommands == {Command0(n) : n \in {RESTORE + 1, STEP + 1, READ_SECTOR, WRITE_SECTOR,
                  READ_ADDRESS, FORCE_INTERRUPT, READ_TRACK, WRITE_TRACK}}

Control(modes) == [start : BOOLEAN, oneShot : BOOLEAN, load : BOOLEAN, mode : modes]
WithSerial(w, output) == [start |-> w.start, oneShot |-> w.oneShot, load |-> w.load,
                          mode |-> w.mode, output |-> output]
MCControlA == {WithSerial(w, o) : w \in {c \in Control({"PHI2"}) : c.load => c.start}, o \in BOOLEAN}
MCControlB == {w \in Control({"PHI2", "TA_UNDERFLOW"}) : w.load => w.start}
MCTimerWrites == {<<"TALO", 0>>, <<"TAHI", 0>>, <<"TBLO", 1>>, <<"TBHI", 0>>}
MCMasks == {{"SET", "TA", "TB", "SDR", "FLG"}, {"TA", "TB", "SDR"}}
=============================================================================
