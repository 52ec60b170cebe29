--------------------------- MODULE MCSerialFilter ---------------------------
(* Instances of SerialFilter for TLC.                                      *)
EXTENDS SerialFilter

\* A takeoff at the first waypoint of the mission and a flight to the one
\* outside the fence (drone_mission.cpp:213 and 218).
Takeoff == [msgid |-> "COMMAND_LONG", command |-> 22, nan |-> FALSE,
            target |-> [x |-> 12597343, y |-> 12218194]]
FlyAway == [msgid |-> "COMMAND_INT", command |-> 192, nan |-> FALSE,
            target |-> [x |-> 480565291, y |-> 116523967]]

Heartbeat == [msgid |-> "HEARTBEAT", command |-> 0, nan |-> FALSE,
              target |-> [x |-> 0, y |-> 0]]

MCFrames == [VM |-> {Takeoff, FlyAway}, PX4 |-> {Heartbeat}]

TwoAndOne == [VM |-> 2, PX4 |-> 1]
OneEach   == [VM |-> 1, PX4 |-> 1]
NoSends   == [VM |-> 0, PX4 |-> 0]

AllFaults == {"stack", "create", "reg", "bind", "listen", "connect", "close", "events",
              "lock", "unlock", "accept", "read", "write", "short"}
NoFaults  == {}
=============================================================================
