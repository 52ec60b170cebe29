---------------------------- MODULE MCSimCoupler ----------------------------
(* Instances of SimCoupler for TLC.                                        *)
EXTENDS SimCoupler

\* Two positions from the simulator; what a VM might send is not looked at.
MCFrames == [VM |-> {"hello"}, PX4 |-> {"gps1", "gps2"}]
MCSends  == [VM |-> 0, PX4 |-> 2]

\* The failures after which a callback goes on and registers itself again.
Survivable == {"stack", "create", "bind", "listen", "close", "accept", "read", "write", "short"}
=============================================================================
