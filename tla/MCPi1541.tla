------------------------------ MODULE MCPi1541 ------------------------------
(* Small instances of Pi1541 for TLC.  A byte is 0 .. 2, so that 1 and 2 stand *)
(* for 0xfe and 0xff. *)
EXTENDS Pi1541

Mode(freeRun, countPB6, shift) ==
  [freeRun |-> freeRun, countPB6 |-> countPB6, shift |-> shift]

MCTimerWrites == ({"T1LL", "T2LL"} \X {0, 1}) \union ({"T1CH", "T1LH", "T2CH"} \X {0})
MCModeWrites  == {Mode(FALSE, FALSE, 0), Mode(TRUE, FALSE, 0),
                  Mode(FALSE, TRUE, 0), Mode(FALSE, FALSE, 1)}
MCEdges       == {TRUE}
MCEnables     == {Flags \union {Bit7}, {"T1"}}
MCFlagWrites  == {{"T1", "T2"}}
MCReads       == {"ORA", "T1CL", "T2CL", "SR"}
MCPortWrites  == {<<"ORB", pins>> : pins \in SUBSET OutPins}
                   \union {<<"DDRB", pins>> : pins \in {{}, OutPins, {"DATAOUT", "CLOCKOUT"},
                                                        {"CLOCKOUT", "ATNAOUT"}}}
MCMoves       == {{}, {"ATN"}, {"DATA"}, {"CLOCK"}, {"ATN", "DATA"}}
Chips         == {"timer 1", "timer 2", "port"}
Mechanics     == {"drive"}
Still         == {{}}
Both          == BOOLEAN
None          == {}

MCImages == {"a", "b"}

\* Two disks of three half tracks; a byte has four bits, a SYNC is five ones, UE7
\* counts two.  The middle track has a lower density and a weak end.
Plain   == <<1,1,1,1, 1,1,0,1, 0,1,0,1, 1,0,0,1, 0,0,0,1, 0,1,1,0>>
Shifted2  == <<0,1,0,0, 1,0,1,1, 1,1,1,1, 0,1,1,0, 1,1,0,1, 1,0,0,1>>
Weak    == <<1,1,1,1, 1,1,0,0, 0,0,0,0>>
ThreeTracks(s) == [t \in 0 .. 2 |-> IF t = 1 THEN Weak ELSE s]
MCContent  == [i \in MCImages |-> ThreeTracks(IF i = "a" THEN Plain ELSE Shifted2)]
MCDriveWrites == {<<0, TRUE, 1>>, <<3, TRUE, 1>>, <<3, TRUE, 0>>, <<0, FALSE, 1>>}
MCDriveModes  == {<<FALSE, TRUE>>, <<TRUE, TRUE>>}
MCDataWrites  == {<<0,1,1,0>>}
MCReadOnly == {"b"}

=============================================================================
