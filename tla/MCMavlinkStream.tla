--------------------------- MODULE MCMavlinkStream ---------------------------
(* Instances of MavlinkStream for TLC.                                     *)
EXTENDS MavlinkStream

NoTarget == [x |-> 0, y |-> 0]
Msg(id, cmd, nan, target) == [msgid |-> id, command |-> cmd, nan |-> nan, target |-> target]

\* drone_mission.cpp:213 and 218, as floats and in 10^-7 degrees.
Inside    == [x |-> 12597343, y |-> 12218194]
Outside   == [x |-> 12597731, y |-> 12218424]
OutsideE7 == [x |-> 480565291, y |-> 116523967]

\* Permitted and dropped messages, with a target and without.
MCMessages ==
    {Msg("HEARTBEAT", 0, FALSE, NoTarget),
     Msg("COMMAND_LONG", 22, FALSE, Inside),
     Msg("COMMAND_LONG", 22, FALSE, Outside),
     Msg("COMMAND_INT", 192, FALSE, OutsideE7)}

MCLength  == [m \in MCMessages |-> IF m.msgid = "COMMAND_LONG" THEN 4 ELSE 3]
=============================================================================
