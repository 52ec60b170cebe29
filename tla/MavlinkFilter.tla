---------------------------- MODULE MavlinkFilter ----------------------------
(***************************************************************************)
(* The rules of components/SerialFilter/mavlink_filter/mavlink_filter.c:   *)
(* which decoded MAVLink messages are copied to the outgoing buffer.       *)
(*                                                                         *)
(* A message is a record: msgid, command (of a COMMAND_LONG), target (the  *)
(* position it carries, x latitude and y longitude) and nan (one of the    *)
(* two is not a number).  A COMMAND_LONG carries floats, in the steps of   *)
(* module Geofence; a COMMAND_INT carries units of 10^-7 degrees.          *)
(***************************************************************************)
EXTENDS Geofence

\* The filter's answer on a position: TRUE is "drop the packet".  HOME_POSITION
\* is copied over the caller's local coordinate, which nothing reads again.
check_coordinates(nan, cord) == ~nan /\ ~inside_geofence(cord)

\* 21 NAV_LAND, 22 NAV_TAKEOFF, 176 DO_SET_MODE, 400 COMPONENT_ARM_DISARM,
\* 511 SET_MESSAGE_INTERVAL, 512 REQUEST_MESSAGE.
handle_mavlink_command_long(m) ==
    CASE m.command \in {21, 22}             -> check_coordinates(m.nan, m.target)
      [] m.command \in {176, 400, 511, 512} -> FALSE
      [] OTHER                              -> TRUE

\* n * 10^-7 degrees as the nearest float step, steps = 2^18 or 2^20 per degree
\* divided by 2^7; 10^7 = 78125 * 2^7.  No tie exists: 78125 is odd.  Far from
\* the fence floats are coarser than these steps, and as far outside.
ToSteps(n, steps) ==
    (n \div 78125) * steps + RoundedSum(0, (n % 78125) * steps, 78125)

Degrees(e7) == [x |-> ToSteps(e7.x, 2048), y |-> ToSteps(e7.y, 8192)]

\* Variant of handle_mavlink_command_int that checks one command and lets others pass.
OnlyWaypointsAreChecked(m) ==
    m.command = 16 /\ check_coordinates(FALSE, Degrees(m.target))

\* A COMMAND_INT is checked whatever its command is; it is never NaN.
handle_mavlink_command_int(m) == check_coordinates(FALSE, Degrees(m.target))

\* The packet is appended to ret_buf, unmodified.
handle_mavlink_package(m) ==
    CASE m.msgid \in {"HEARTBEAT", "PING", "PARAM_REQUEST_READ"} -> TRUE
      [] m.msgid = "COMMAND_LONG" -> ~handle_mavlink_command_long(m)
      [] m.msgid = "COMMAND_INT"  -> ~handle_mavlink_command_int(m)
      [] OTHER                    -> FALSE

-----------------------------------------------------------------------------
\* The messages the filter set and the geofence allow (README.md:16).
CarriesTarget(m) ==
    m.msgid = "COMMAND_INT" \/ (m.msgid = "COMMAND_LONG" /\ m.command \in {21, 22})
TargetOf(m) == IF m.msgid = "COMMAND_INT" THEN Degrees(m.target) ELSE m.target

Permitted(m) ==
    /\ m.msgid \in {"HEARTBEAT", "PING", "PARAM_REQUEST_READ", "COMMAND_LONG", "COMMAND_INT"}
    /\ m.msgid = "COMMAND_LONG" => m.command \in {21, 22, 176, 400, 511, 512}
    /\ CarriesTarget(m) /\ inside_geofence(TargetOf(m)) = FALSE
          => m.nan /\ m.msgid = "COMMAND_LONG"
=============================================================================
