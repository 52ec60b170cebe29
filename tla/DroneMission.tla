---------------------------- MODULE DroneMission ----------------------------
(***************************************************************************)
(* Tools/drone_mission: flies the demo mission through MAVSDK and, between *)
(* its steps, prints one GPS position from the stream that SimCoupler      *)
(* forwards.  On the stream each position is a JSON object followed by     *)
(* '\x07'; reads cut the stream anywhere.                                  *)
(*                                                                         *)
(* Character k of message i is the pair <<i, k>>, its end mark <<i, 0>>;   *)
(* message 0 stands for what lies behind the receive buffer on the stack.  *)
(* No message is empty.                                                    *)
(***************************************************************************)
EXTENDS Integers, Sequences, SequencesExt

CONSTANTS
    Mark,       \* the position in the stream of the end mark of each message
    BUF         \* the size of the receive buffer

ASSUME MissionAssumption ==
    /\ Mark \in Seq(Nat)
    /\ \A i \in DOMAIN Mark : 1 < Mark[i]
    /\ \A i, j \in DOMAIN Mark : i < j => Mark[i] + 1 < Mark[j]
    /\ BUF \in Nat \ {0}

VARIABLES
    step,       \* the position in Plan
    arrived,    \* how many characters of the stream have arrived
    taken,      \* how many of them the mission has received
    cut,        \* how many of them its first receive took, to throw away
    closed,     \* SimCoupler has closed the connection
    raw,        \* raw_json_buf
    overrun,    \* a receive has filled the buffer, which has no end then
    printed,    \* the messages whose position was printed, in order
    airborne,   \* the drone is in the air
    tookOff     \* the takeoff was reported a success

streamVars  == <<arrived, closed>>
vehicleVars == <<airborne, tookOff>>
vars == <<step, streamVars, taken, cut, raw, overrun, printed, vehicleVars>>

Messages == DOMAIN Mark
IsMark(c) == c[2] = 0

\* Where the first end mark of a text is; 0 if it has none.
eof_pos(input) == SelectInSeq(input, IsMark)

\* Message i is the stream from Begin(i) to Mark[i].
Begin(i)     == IF i = 1 THEN 1 ELSE Mark[i - 1] + 1
MessageAt(p) == CHOOSE i \in Messages : p \in Begin(i)..Mark[i]
Size == IF Mark = <<>> THEN 0 ELSE Mark[Len(Mark)]
Stream == [p \in 1..Size |-> LET i == MessageAt(p)
                             IN  <<i, IF p = Mark[i] THEN 0 ELSE p - Begin(i) + 1>>]
Text(i) == SubSeq(Stream, Begin(i), Mark[i])

\* main, one step per call that can wait, fail or be noticed outside.
Plan == << "connect", "first_read",
           "print", "add_any_connection", "first_autopilot",
           "print", "set_rate_position",
           "print",
           "print", "health",
           "print", "arm",
           "print", "takeoff",
           "print", "goto_valid",
           "print", "goto_invalid",
           "print", "return_to_launch", "in_air", "print_landing",
           "print", "finished" >>

Failed  == 0    \* main has returned 1
Aborted == -1   \* an exception has left main

Doing(s) == step \in DOMAIN Plan /\ Plan[step] = s
Ended    == step \in {Failed, Aborted} \/ Doing("finished")

Init ==
    /\ step = 1
    /\ arrived = 0 /\ taken = 0 /\ cut = 0 /\ closed = FALSE
    /\ raw = <<>> /\ overrun = FALSE
    /\ printed = <<>>
    /\ airborne = FALSE /\ tookOff = FALSE

-----------------------------------------------------------------------------
(* The stream                                                              *)

\* connect is tried again every second until SimCoupler accepts.
get_socket ==
    /\ Doing("connect")
    /\ step' = step + 1
    /\ UNCHANGED <<streamVars, taken, cut, raw, overrun, printed, vehicleVars>>

\* recv returns once there is data or the connection has ended.
Readable == arrived > taken \/ closed
Received == SubSeq(Stream, taken + 1, IF arrived - taken > BUF THEN taken + BUF ELSE arrived)

\* What += appends: all up to the first zero byte.  A buffer that was filled
\* has none, and whatever the stack holds behind it follows.
Behind   == {<<>>, << <<0, 1>> >>, << <<0, 0>> >>}
Appended == IF Len(Received) = BUF THEN {Received \o junk : junk \in Behind} ELSE {Received}

\* Variant of recv that takes the size of the buffer for the length received.
recv_counts_buffer(text) ==
    /\ Readable
    /\ text \in Appended
    /\ taken' = IF Received = <<>> THEN taken ELSE taken + BUF
    /\ overrun' = (overrun \/ Len(Received) = BUF)

recv(text) ==
    /\ Readable
    /\ text \in Appended
    /\ taken' = taken + Len(Received)
    /\ overrun' = (overrun \/ Len(Received) = BUF)

\* Variant of clean_input that erases from the end mark on.
clean_input_KeepsFront(input) ==
    IF \E k \in DOMAIN input : IsMark(input[k])
    THEN SubSeq(input, 1, eof_pos(input) - 1)
    ELSE <<>>

\* With and without an end mark in it, all of the input is erased.
clean_input(input) == <<>>

first_read ==
    /\ Doing("first_read")
    /\ \E text \in Appended : recv(text) /\ raw' = clean_input(raw \o text)
    /\ cut' = taken'
    /\ step' = step + 1
    /\ UNCHANGED <<streamVars, printed, vehicleVars>>

check_if_json(input) == \E k \in DOMAIN input : IsMark(input[k])

\* What json::parse makes of a text: the message itself; an error, which is
\* caught; or a value that is not an object, so that data["latitudeDeg"]
\* throws, which is not.  A piece of one object is never JSON by itself; a
\* text with characters from elsewhere may be anything.
Whole(text)  == {i \in Messages : Append(text, <<i, 0>>) = Text(i)}
Parsed(text) ==
    IF Whole(text) # {} THEN [kind : {"object"}, msg : Whole(text)]
    ELSE IF \A j, k \in DOMAIN text : text[j][1] = text[k][1] /\ text[j][1] # 0
    THEN {[kind |-> "error", msg |-> 0]}
    ELSE [kind : {"object", "error", "other"}, msg : {0}]

\* One message, if there is one, is cut off the front of the input and
\* printed; then the mission goes on with step next.
SliceAndPrint(input, next) ==
    IF ~check_if_json(input)
    THEN raw' = input /\ step' = next /\ UNCHANGED printed
    ELSE LET mark == eof_pos(input)
         IN  /\ raw' = SubSeq(input, mark + 1, Len(input))
             /\ \E value \in Parsed(SubSeq(input, 1, mark - 1)) :
                   /\ step' = IF value.kind = "other" THEN Aborted ELSE next
                   /\ printed' = IF value.kind = "object" THEN Append(printed, value.msg)
                                                          ELSE printed

\* Variant of print_current_output that does not return without a message.
print_until_message(next) ==
    IF check_if_json(raw)
    THEN SliceAndPrint(raw, next) /\ UNCHANGED <<taken, overrun>>
    ELSE \E text \in Appended :
            recv(text) /\ SliceAndPrint(raw \o text, IF check_if_json(raw \o text) THEN next ELSE step)

\* Variant of print_current_output that receives whether or not there is a
\* message in hand.
print_after_recv(next) ==
    \E text \in Appended : recv(text) /\ SliceAndPrint(raw \o text, next)

\* Variant of print_current_output with = in the place of +=.
print_without_rest(next) ==
    IF check_if_json(raw)
    THEN SliceAndPrint(raw, next) /\ UNCHANGED <<taken, overrun>>
    ELSE \E text \in Appended : recv(text) /\ SliceAndPrint(text, next)

\* Data is received only if no message is in hand.
print_current_output(next) ==
    IF check_if_json(raw)
    THEN SliceAndPrint(raw, next) /\ UNCHANGED <<taken, overrun>>
    ELSE \E text \in Appended : recv(text) /\ SliceAndPrint(raw \o text, next)

PrintPosition ==
    /\ Doing("print")
    /\ print_current_output(step + 1)
    /\ UNCHANGED <<streamVars, cut, vehicleVars>>

-----------------------------------------------------------------------------
(* The mission                                                             *)

\* The calls whose failure ends the program.
MustSucceed == {"add_any_connection", "first_autopilot", "set_rate_position", "arm"}

Call ==
    /\ \E s \in MustSucceed : Doing(s)
    /\ step' \in {step + 1, Failed}
    /\ UNCHANGED <<streamVars, taken, cut, raw, overrun, printed, vehicleVars>>

\* A takeoff that is reported to have failed may have happened, when it is
\* the answer that was lost.
Takeoff ==
    /\ Doing("takeoff")
    /\ \/ step' = step + 1 /\ airborne' = TRUE /\ tookOff' = TRUE
       \/ step' = Failed /\ airborne' \in BOOLEAN /\ UNCHANGED tookOff
    /\ UNCHANGED <<streamVars, taken, cut, raw, overrun, printed>>

\* The health check is repeated until it is good; the results of the others
\* are not looked at.
GoOn ==
    /\ \E s \in {"health", "goto_valid", "goto_invalid", "return_to_launch"} : Doing(s)
    /\ step' = step + 1
    /\ UNCHANGED <<streamVars, taken, cut, raw, overrun, printed, vehicleVars>>

\* The loop is left when the drone is not found in the air, be it that the
\* telemetry which says so has not arrived.
InAir ==
    /\ Doing("in_air")
    /\ \/ airborne /\ step' = step + 1
       \/ step' = step + 2
    /\ UNCHANGED <<streamVars, taken, cut, raw, overrun, printed, vehicleVars>>

PrintLanding ==
    /\ Doing("print_landing")
    /\ print_current_output(step - 1)
    /\ UNCHANGED <<streamVars, cut, vehicleVars>>

-----------------------------------------------------------------------------
(* Outside: SimCoupler's stream, and the drone's return.                   *)

Arrive ==
    /\ ~closed
    /\ \E n \in 1..(Len(Stream) - arrived) : arrived' = arrived + n
    /\ UNCHANGED <<step, taken, cut, closed, raw, overrun, printed, vehicleVars>>

Close ==
    /\ ~closed
    /\ closed' = TRUE
    /\ UNCHANGED <<step, arrived, taken, cut, raw, overrun, printed, vehicleVars>>

Land ==
    /\ Doing("in_air") \/ Doing("print_landing")
    /\ airborne
    /\ airborne' = FALSE
    /\ UNCHANGED <<step, streamVars, taken, cut, raw, overrun, printed, tookOff>>

Mission == get_socket \/ first_read \/ PrintPosition \/ Call \/ Takeoff \/ GoOn
           \/ InAir \/ PrintLanding
Next == Mission \/ Arrive \/ Close \/ Land

Spec == Init /\ [][Next]_vars

\* The program runs on; the vehicle becomes ready and comes back.  Nothing is
\* asked of the stream: it may fall silent and stay open, as it does when the
\* proxy ends, for SimCoupler closes no connection to the VM by itself.
Fairness ==
    /\ WF_vars(Mission)
    /\ WF_vars(Land)

FairSpec == Spec /\ Fairness

-----------------------------------------------------------------------------
(* Properties                                                              *)

Cells == {<<i, k>> : i \in Messages \cup {0}, k \in 0..1} \cup {Stream[p] : p \in DOMAIN Stream}

TypeOK ==
    /\ step \in DOMAIN Plan \cup {Failed, Aborted}
    /\ arrived \in 0..Len(Stream) /\ taken \in 0..arrived /\ cut \in 0..taken
    /\ raw \in Seq(Cells)
    /\ printed \in Seq(Messages \cup {0})
    /\ {closed, overrun, airborne, tookOff} \subseteq BOOLEAN

\* What raw_json_buf holds is the last piece of the stream that was received,
\* and of the stream before it each message was printed, whole, once and in
\* order; only what the first receive took is thrown away, and the rest of a
\* message that it cut (drone_mission.cpp:49-66, 105-126, 139-145).  A receive
\* that fills the buffer voids this.
PrintsEachMessage ==
    LET done == taken - Len(raw)
    IN  overrun \/ /\ raw = SubSeq(Stream, done + 1, taken)
                   /\ Range(printed) = {i \in Messages : cut < Begin(i) /\ Mark[i] <= done}
                   /\ \A j, k \in DOMAIN printed : j < k => printed[j] < printed[k]

\* No exception leaves main, though only the parsing, not the use of its
\* result, is inside a try (drone_mission.cpp:115-124).  A receive that fills
\* the buffer voids this.
NeverAborts == step = Aborted => overrun

\* raw_json_buf does not grow with the length of the mission, although one
\* call prints one message at most: it holds less than the buffer of one
\* receive, or no more than one message (drone_mission.cpp:105-113).
BufferBounded == overrun \/ Len(raw) < BUF \/ \E i \in Messages : Len(raw) <= Mark[i] - Begin(i)

\* recv has nothing to return, and no message is in hand.
WaitsInRecv == (Doing("print") \/ Doing("print_landing")) /\ ~check_if_json(raw) /\ ~Readable

\* A flight that was reported to have begun comes to its end, with the return
\* to launch, or an overrun has killed the mission: the one thing that can hold
\* it up for ever, the drone in the air or not, is a stream that stays open and
\* silent while no message is in hand (drone_mission.cpp:69, 105-113).
FlightEnds == <>tookOff => <>(Doing("finished") \/ step = Aborted \/ []WaitsInRecv)
=============================================================================
