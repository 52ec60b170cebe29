------------------------ MODULE MavlinkStreamProofs ------------------------
(***************************************************************************)
(* Theorems about MavlinkStream for every set of messages, every cut of    *)
(* the stream into reads and every number of connections.                  *)
(***************************************************************************)
EXTENDS MavlinkStream, SubsequenceProofs

-----------------------------------------------------------------------------
(* Type correctness.                                                       *)

Byte  == [m : Messages, k : Nat \ {0}, conn : Nat, start : Nat]
Whole == [m : Messages, conn : Nat, start : Nat]
Busy  == [got : Nat \ {0}, len : Nat, first : Byte, clean : BOOLEAN]

TypeOK ==
    /\ written \in Nat
    /\ transit \in Seq(Byte)
    /\ breaks \in Nat
    /\ status \in {Idle} \cup Busy
    /\ message \in Seq(Byte)
    /\ nread \in [now : Nat, carried : Nat]
    /\ ret_buf \in Seq(Whole) /\ ret_len \in Nat
    /\ out \in Seq(Whole)
    /\ arrived \in Seq(Whole)
    /\ astray \in Nat

\* Every message is as long as some length byte says.
LEMMA LengthType == \A m \in Messages : Length[m] \in Nat /\ Length[m] >= 3 /\ Length[m] <= MaxLength
  BY StreamAssumption DEF Lengths

\* What the parser holds: nothing, or a message it is busy with.
LEMMA StatusType ==
    ASSUME TypeOK
    PROVE  /\ status.got \in Nat
           /\ status.got # 0 => status \in Busy
           /\ status.got = 0 => status = Idle
  BY DEF TypeOK, Idle, Busy

\* One more byte of the message the parser is busy with.
LEMMA Collected ==
    ASSUME TypeOK, status.got # 0, NEW b \in Byte, NEW len \in Nat
    PROVE  /\ Collect(b, len) \in Busy
           /\ Collect(b, len).got = status.got + 1
           /\ Collect(b, len).len = len
           /\ Collect(b, len).first = status.first
           /\ Collect(b, len).clean <=> /\ status.clean /\ b.m = status.first.m
                                        /\ b.conn = status.first.conn /\ b.k = status.got + 1
<1>1. status \in Busy
  BY StatusType
<1> DEFINE whole == /\ status.clean /\ b.m = status.first.m
                    /\ b.conn = status.first.conn /\ b.k = status.got + 1
<1>2. whole \in BOOLEAN
  OBVIOUS
<1>3. Collect(b, len) = [status EXCEPT !.got = @ + 1, !.len = len, !.clean = whole]
  BY <1>1 DEF Collect, Busy
<1>4. status.got + 1 \in Nat \ {0}
  BY <1>1 DEF Busy
<1> HIDE DEF whole
<1>5. Collect(b, len) = [got |-> status.got + 1, len |-> len, first |-> status.first, clean |-> whole]
  BY <1>1, <1>3 DEF Busy
<1>6. /\ Collect(b, len).got = status.got + 1
      /\ Collect(b, len).len = len
      /\ Collect(b, len).first = status.first
      /\ Collect(b, len).clean = whole
  BY <1>5
<1>7. Collect(b, len) \in Busy
  BY <1>1, <1>2, <1>4, <1>5 DEF Busy
<1> QED BY <1>6, <1>7 DEF whole

\* The bytes of a message are bytes.
LEMMA BytesType ==
    ASSUME TypeOK, NEW m \in Messages
    PROVE  /\ Bytes(m) \in Seq(Byte) /\ Len(Bytes(m)) = Length[m]
           /\ \A k \in 1..Length[m] :
                 Bytes(m)[k] = [m |-> m, k |-> k, conn |-> breaks, start |-> written]
<1>1. Length[m] \in Nat
  BY LengthType
<1>2. \A k \in 1..Length[m] : [m |-> m, k |-> k, conn |-> breaks, start |-> written] \in Byte
  BY <1>1 DEF TypeOK, Byte
<1> QED BY <1>1, <1>2 DEF Bytes

\* The state after each byte of the parser is a state of the parser.
LEMMA ParseType ==
    ASSUME TypeOK, NEW b \in Byte, ParseMore(b)
    PROVE  status' \in {Idle} \cup Busy
<1>1. \A s \in Restart(b) : s \in {Idle} \cup Busy
  <2>1. (b.k = 1) \in BOOLEAN /\ 1 \in Nat \ {0} /\ 0 \in Nat
    OBVIOUS
  <2>2. Started(b) \in Busy
    BY <2>1 DEF Started, Busy
  <2>3. \A s \in Restart(b) : s = Started(b) \/ s = Idle
    BY DEF Restart
  <2> QED BY <2>2, <2>3
<1>2. \A len \in (IF b.k = 2 THEN {Length[b.m]} ELSE Lengths) : len \in Nat
  BY LengthType DEF Byte, Lengths
<1>3. status.got > 1 => status.len \in Nat
  BY StatusType DEF Busy
<1>4. CASE status.got = 1
  <2>1. PICK len \in (IF b.k = 2 THEN {Length[b.m]} ELSE Lengths) : status' = Collect(b, len)
    BY <1>4 DEF ParseMore
  <2>2. Collect(b, len) \in Busy
    <3>1. status.got # 0 /\ len \in Nat
      BY <1>2, <1>4, <2>1
    <3> QED BY <3>1, Collected
  <2> QED BY <2>1, <2>2
<1>5. CASE status.got > 1
  <2>1. status' = Collect(b, status.len) \/ status' \in Restart(b)
    BY <1>5 DEF ParseMore
  <2>2. Collect(b, status.len) \in Busy
    <3>1. status.got # 0 /\ status.len \in Nat
      BY <1>3, <1>5
    <3> QED BY <3>1, Collected
  <2> QED BY <1>1, <2>1, <2>2
<1>6. CASE status.got = 0
  BY <1>1, <1>6 DEF ParseMore
<1> QED BY <1>4, <1>5, <1>6, StatusType

\* Every variable keeps its type.
LEMMA TypeStep ==
    ASSUME TypeOK, [Next]_vars
    PROVE  TypeOK'
<1>1. CASE \E m \in Messages : VMSends(m)
  <2>1. PICK m \in Messages : VMSends(m)
    BY <1>1
  <2>2. transit' \in Seq(Byte)
    BY <2>1, BytesType, ConcatProperties DEF VMSends, TypeOK
  <2>3. written' \in Nat
    <3>1. written' = written + Length[m] /\ Length[m] \in Nat /\ written \in Nat
      BY <2>1, LengthType DEF VMSends, TypeOK
    <3> QED BY <3>1
  <2> QED BY <2>1, <2>2, <2>3 DEF VMSends, TypeOK
<1>2. CASE Break
  BY <1>2, EmptySeq DEF Break, TypeOK
<1>3. CASE Read
  <2>1. PICK n \in 1..Len(transit) :
          /\ message' = SubSeq(transit, 1, n)
          /\ transit' = SubSeq(transit, n + 1, Len(transit))
          /\ nread' = [now |-> n, carried |-> status.got]
    BY <1>3 DEF Read
  <2>2. Len(transit) \in Nat /\ \A i \in 1..Len(transit) : transit[i] \in Byte
    BY LenProperties DEF TypeOK
  <2>3. message' \in Seq(Byte) /\ transit' \in Seq(Byte)
    BY <2>1, <2>2, SubSeqProperties
  <2>4. nread' \in [now : Nat, carried : Nat]
    BY <2>1, <2>2, StatusType
  <2> QED BY <1>3, <2>3, <2>4 DEF Read, TypeOK
<1>4. CASE FilterByte
  <2>1. Head(message) \in Byte /\ message' \in Seq(Byte)
    BY <1>4, HeadTailProperties DEF FilterByte, TypeOK
  <2> DEFINE b == Head(message)
  <2>2. MessageOf(b) \in Whole /\ Length[b.m] \in Nat
    BY <2>1, LengthType DEF MessageOf, Byte, Whole
  <2> HIDE DEF b
  <2>3. status' \in {Idle} \cup Busy
    BY <1>4, <2>1, ParseType DEF FilterByte, b
  <2>4. ret_buf' \in Seq(Whole) /\ ret_len' \in Nat
    <3>1. Handle(b) \/ UNCHANGED <<ret_buf, ret_len>>
      BY <1>4 DEF FilterByte, b
    <3>2. Append(ret_buf, MessageOf(b)) \in Seq(Whole) /\ ret_len + Length[b.m] \in Nat
      BY <2>2, AppendProperties DEF TypeOK
    <3> QED BY <3>1, <3>2 DEF Handle, TypeOK
  <2>5. arrived' \in Seq(Whole)
    BY <1>4, <2>2, AppendProperties DEF FilterByte, Reached, TypeOK, b
  <2>6. astray' \in Nat
    <3>1. b.start + b.k \in Nat /\ astray \in Nat
      BY <2>1 DEF Byte, TypeOK, b
    <3> QED BY <1>4, <3>1 DEF FilterByte, Reached, b
  <2> QED BY <1>4, <2>1, <2>3, <2>4, <2>5, <2>6 DEF FilterByte, TypeOK
<1>5. CASE FilterDone
  <2>1. out' \in Seq(Whole)
    BY <1>5, ConcatProperties DEF FilterDone, TypeOK
  <2> QED BY <1>5, <2>1, EmptySeq DEF FilterDone, TypeOK
<1>6. CASE UNCHANGED vars
  BY <1>6 DEF vars, TypeOK
<1> QED BY <1>1, <1>2, <1>3, <1>4, <1>5, <1>6 DEF Next

\* Every behaviour keeps the types.
LEMMA TypeCorrect == Spec => []TypeOK
<1>1. Init => TypeOK
  BY EmptySeq DEF Init, TypeOK
<1> QED BY <1>1, TypeStep, PTL DEF Spec
-----------------------------------------------------------------------------
(* The parser, one byte at a time.                                         *)

\* The rules of the code pass on the permitted messages, no others.
LEMMA FilterIsPermitted == \A m : handle_mavlink_package(m) <=> Permitted(m)
<1> SUFFICES ASSUME NEW m  PROVE handle_mavlink_package(m) <=> Permitted(m)
  OBVIOUS
<1>1. CASE m.msgid \in {"HEARTBEAT", "PING", "PARAM_REQUEST_READ"}
  BY <1>1 DEF handle_mavlink_package, Permitted, CarriesTarget
<1>2. CASE m.msgid = "COMMAND_LONG"
  <2>1. handle_mavlink_package(m) <=> ~handle_mavlink_command_long(m)
    BY <1>2 DEF handle_mavlink_package
  <2>2. CASE m.command \in {21, 22}
    <3>1. handle_mavlink_command_long(m) <=> check_coordinates(m.nan, m.target)
      BY <2>2 DEF handle_mavlink_command_long
    <3> QED BY <1>2, <2>1, <2>2, <3>1 DEF Permitted, CarriesTarget, TargetOf, check_coordinates
  <2>3. CASE m.command \in {176, 400, 511, 512}
    <3>1. ~handle_mavlink_command_long(m)
      BY <2>3 DEF handle_mavlink_command_long
    <3> QED BY <1>2, <2>1, <2>3, <3>1 DEF Permitted, CarriesTarget
  <2>4. CASE m.command \notin {21, 22, 176, 400, 511, 512}
    <3>1. handle_mavlink_command_long(m)
      BY <2>4 DEF handle_mavlink_command_long
    <3> QED BY <1>2, <2>1, <2>4, <3>1 DEF Permitted
  <2> QED BY <2>2, <2>3, <2>4
<1>3. CASE m.msgid = "COMMAND_INT"
  <2>1. handle_mavlink_package(m) <=> ~handle_mavlink_command_int(m)
    BY <1>3 DEF handle_mavlink_package
  <2> QED BY <1>3, <2>1 DEF handle_mavlink_command_int, check_coordinates, Permitted,
                            CarriesTarget, TargetOf
<1>4. CASE m.msgid \notin {"HEARTBEAT", "PING", "PARAM_REQUEST_READ", "COMMAND_LONG", "COMMAND_INT"}
  BY <1>4 DEF handle_mavlink_package, Permitted
<1> QED BY <1>1, <1>2, <1>3, <1>4

\* ret_buf never receives more bytes than this read and the parser's leftover
\* of earlier reads hold.
Bounded ==
    nread.now > 0 => ret_len + status.got + Len(message) <= nread.now + nread.carried

\* The first inductive invariant: inside a message the parser knows how much
\* is still to come, rightly if the bytes so far are those of one message; and
\* between two reads nothing waits in buf and ret_buf.
Measured ==
    /\ status.got > 1 => status.len >= 3 /\ status.len <= MaxLength /\ status.got < status.len
    /\ status.got > 1 /\ status.clean => status.len = Length[status.first.m]
    /\ nread.now = 0 => message = <<>> /\ ret_buf = <<>> /\ ret_len = 0
    /\ nread.now <= MTU
    /\ Bounded

\* A byte that completes a message is the last one of the message begun.
LEMMA CompletesLast ==
    ASSUME TypeOK, Measured, NEW b \in Byte, Completes(b)
    PROVE  /\ status.got > 1 /\ status.clean
           /\ b.m = status.first.m /\ b.conn = status.first.conn
           /\ b.k = status.got + 1 /\ status.got + 1 = Length[b.m]
<1>1. status.got > 1 /\ status.got + 1 = status.len /\ Collect(b, status.len).clean
  BY DEF Completes
<1>2. status.got # 0 /\ status.len \in Nat
  BY <1>1, StatusType DEF Busy
<1>3. status.clean /\ b.m = status.first.m /\ b.conn = status.first.conn /\ b.k = status.got + 1
  BY <1>2, Collected, <1>1
<1> QED BY <1>1, <1>3 DEF Measured

\* After a byte that completes nothing the parser is at a start, or has
\* one byte more of the message it is busy with.
LEMMA ParseCases ==
    ASSUME TypeOK, Measured, NEW b \in Byte, ParseMore(b)
    PROVE  \/ /\ status' \in Restart(b)
              /\ status.got = 0 \/ (status.got > 1 /\ status.got + 1 = status.len)
              /\ status.got > 1 => ~Collect(b, status.len).clean
           \/ /\ status.got # 0
              /\ status' \in Busy /\ status'.got = status.got + 1 /\ status'.first = status.first
              /\ status'.len >= 3 /\ status'.len <= MaxLength /\ status'.got < status'.len
              /\ status'.clean <=> /\ status.clean /\ b.m = status.first.m
                                   /\ b.conn = status.first.conn /\ b.k = status.got + 1
              /\ status'.clean => status'.len = Length[status.first.m]
<1>1. CASE status.got = 0
  BY <1>1 DEF ParseMore
<1>2. CASE status.got = 1
  <2>1. PICK len \in (IF b.k = 2 THEN {Length[b.m]} ELSE Lengths) : status' = Collect(b, len)
    BY <1>2 DEF ParseMore
  <2>2. len \in Nat /\ len >= 3 /\ len <= MaxLength /\ (b.k = 2 => len = Length[b.m])
    BY <2>1, LengthType, StreamAssumption DEF Byte, Lengths
  <2>3. status.got # 0
    BY <1>2
  <2>4. /\ status' \in Busy /\ status'.got = status.got + 1 /\ status'.first = status.first
        /\ status'.len = len
        /\ status'.clean <=> /\ status.clean /\ b.m = status.first.m
                             /\ b.conn = status.first.conn /\ b.k = status.got + 1
    BY <2>1, <2>2, <2>3, Collected
  <2>5. status'.clean => status'.len = Length[status.first.m]
    BY <1>2, <2>2, <2>4
  <2>6. status'.got < status'.len
    BY <1>2, <2>2, <2>4
  <2> QED BY <2>2, <2>3, <2>4, <2>5, <2>6
<1>3. CASE status.got > 1
  <2>0. status.got # 0 /\ status.len \in Nat /\ status.got \in Nat
    BY <1>3, StatusType DEF Busy
  <2>1. CASE status.got + 1 < status.len
    <3>1. status' = Collect(b, status.len)
      BY <1>3, <2>0, <2>1 DEF ParseMore
    <3>2. /\ status' \in Busy /\ status'.got = status.got + 1 /\ status'.first = status.first
          /\ status'.len = status.len
          /\ status'.clean <=> /\ status.clean /\ b.m = status.first.m
                               /\ b.conn = status.first.conn /\ b.k = status.got + 1
      BY <2>0, <3>1, Collected
    <3>3. status'.clean => status'.len = Length[status.first.m]
      BY <1>3, <3>2 DEF Measured
    <3>4. status'.len >= 3 /\ status'.len <= MaxLength /\ status'.got < status'.len
      BY <1>3, <2>1, <3>2 DEF Measured
    <3> QED BY <2>0, <3>2, <3>3, <3>4
  <2>2. CASE ~(status.got + 1 < status.len)
    BY <1>3, <2>0, <2>2 DEF ParseMore
  <2> QED BY <2>1, <2>2
<1> QED BY <1>1, <1>2, <1>3, StatusType

\* A start marker begins a message; after any other byte the parser is idle,
\* or has started falsely.
LEMMA Restarted ==
    ASSUME NEW b \in Byte, NEW s \in Restart(b)
    PROVE  /\ b.k = 1 => /\ s.got = 1 /\ s.clean /\ s.first = b /\ s.len = 0
           /\ b.k # 1 => \/ s.got = 0 /\ s # Started(b)
                         \/ s = Started(b) /\ s.got = 1 /\ ~s.clean /\ s.first = b
<1>1. /\ Started(b).got = 1 /\ Started(b).first = b /\ Started(b).len = 0
      /\ Started(b).clean = (b.k = 1)
  BY DEF Started
<1>2. Idle.got = 0 /\ Idle # Started(b)
  BY <1>1 DEF Idle
<1>3. CASE b.k = 1
  BY <1>1, <1>3 DEF Restart
<1>4. CASE b.k # 1
  <2>1. s = Started(b) \/ s = Idle
    BY <1>4 DEF Restart
  <2> QED BY <1>1, <1>2, <1>4, <2>1
<1> QED BY <1>3, <1>4

\* What one iteration does to ret_buf and to the history.
LEMMA ByteEffect ==
    ASSUME TypeOK, Measured, FilterByte
    PROVE  LET b == Head(message)
           IN  /\ message # <<>> /\ b \in Byte /\ MessageOf(b) \in Whole
               /\ Len(message') = Len(message) - 1 /\ Len(message) \in Nat
               /\ \/ /\ Completes(b) /\ Permitted(b.m) /\ status' = Idle
                     /\ ret_buf' = Append(ret_buf, MessageOf(b))
                     /\ ret_len' = ret_len + Length[b.m]
                  \/ /\ Completes(b) /\ ~Permitted(b.m) /\ status' = Idle
                     /\ UNCHANGED <<ret_buf, ret_len>>
                  \/ /\ ~Completes(b) /\ ParseMore(b)
                     /\ UNCHANGED <<ret_buf, ret_len>>
               /\ arrived' = IF b.k = Length[b.m] THEN Append(arrived, MessageOf(b)) ELSE arrived
               /\ Completes(b) => b.k = Length[b.m]
<1> DEFINE b == Head(message)
<1>1. /\ message # <<>> /\ b \in Byte
      /\ Len(message') = Len(message) - 1 /\ Len(message) \in Nat
  BY HeadTailProperties, LenProperties DEF FilterByte, TypeOK
<1>2. MessageOf(b) \in Whole
  BY <1>1 DEF MessageOf, Byte, Whole
<1> HIDE DEF b
<1>3. arrived' = IF b.k = Length[b.m] THEN Append(arrived, MessageOf(b)) ELSE arrived
  BY DEF FilterByte, Reached, b
<1>4. Completes(b) => b.k = Length[b.m]
  BY <1>1, CompletesLast
<1>5. CASE Completes(b)
  <2>1. status' = Idle /\ Handle(b)
    BY <1>5 DEF FilterByte, b
  <2> QED BY <1>1, <1>2, <1>3, <1>4, <1>5, <2>1, FilterIsPermitted DEF Handle, b
<1>6. CASE ~Completes(b)
  <2>1. ParseMore(b) /\ UNCHANGED <<ret_buf, ret_len>>
    BY <1>6 DEF FilterByte, b
  <2> QED BY <1>1, <1>2, <1>3, <1>4, <1>6, <2>1 DEF b
<1> QED BY <1>5, <1>6

\* The parser's bytes, those not reached and those returned never exceed what
\* was read: a byte moves from one part to the next or is dropped.
LEMMA MeasuredStep ==
    ASSUME TypeOK, Measured, [Next]_vars
    PROVE  Measured'
<1>0. /\ status.got \in Nat /\ ret_len \in Nat /\ Len(message) \in Nat
      /\ nread.now \in Nat /\ nread.carried \in Nat
  BY StatusType, LenProperties DEF TypeOK
<1>1. CASE UNCHANGED <<status, message, nread, ret_buf, ret_len>>
  BY <1>1 DEF Measured, Bounded
<1>2. CASE Read
  <2>1. PICK n \in 1..Len(transit) :
          /\ message' = SubSeq(transit, 1, n) /\ nread' = [now |-> n, carried |-> status.got]
          /\ n <= MTU
    BY <1>2 DEF Read
  <2>2. Len(transit) \in Nat /\ \A i \in 1..Len(transit) : transit[i] \in Byte
    BY LenProperties DEF TypeOK
  <2>3. Len(message') = n
    BY <2>1, <2>2, SubSeqProperties
  <2>4. ret_len = 0 /\ UNCHANGED <<status, ret_buf, ret_len>>
    BY <1>2 DEF Read, Measured
  <2>5. n \in Nat /\ nread'.now = n /\ nread'.carried = status.got /\ n > 0
    BY <2>1, <2>2
  <2>6. Bounded'
    BY <1>0, <2>3, <2>4, <2>5 DEF Bounded
  <2> QED BY <2>1, <2>4, <2>5, <2>6 DEF Measured
<1>3. CASE FilterByte
  <2> DEFINE b == Head(message)
  <2>1. /\ message # <<>> /\ b \in Byte /\ Len(message') = Len(message) - 1
        /\ \/ /\ Completes(b) /\ status' = Idle
              /\ (ret_len' = ret_len + Length[b.m] \/ ret_len' = ret_len)
           \/ ParseMore(b) /\ ret_len' = ret_len
    BY <1>3, ByteEffect
  <2>2. nread' = nread /\ nread.now # 0
    BY <1>3, <2>1 DEF FilterByte, Measured
  <2>3. ret_len + status.got + Len(message) <= nread.now + nread.carried
    BY <1>0, <2>2 DEF Measured, Bounded
  <2> HIDE DEF b
  <2>4. CASE Completes(b) /\ status' = Idle /\ (ret_len' = ret_len + Length[b.m] \/ ret_len' = ret_len)
    <3>1. status.got + 1 = Length[b.m]
      BY <2>1, <2>4, CompletesLast
    <3>2. status'.got = 0
      BY <2>4 DEF Idle
    <3>3. Bounded'
      <4>1. (ret_len + Length[b.m]) + 0 + (Len(message) - 1) <= nread.now + nread.carried
        <5>1. (ret_len + (status.got + 1)) + 0 + (Len(message) - 1) <= nread.now + nread.carried
          BY <1>0, <2>3
        <5> QED BY <3>1, <5>1, Zenon
      <4>2. ret_len + 0 + (Len(message) - 1) <= nread.now + nread.carried
        BY <1>0, <2>3
      <4> QED BY <2>1, <2>2, <2>4, <3>2, <4>1, <4>2 DEF Bounded
    <3> QED BY <2>2, <3>2, <3>3 DEF Measured
  <2>5. CASE ParseMore(b) /\ ret_len' = ret_len
    <3>1. CASE status' \in Restart(b)
      <4>1. status'.got = 0 \/ status'.got = 1
        BY <2>1, <3>1, Restarted
      <4>2. status'.got <= status.got + 1
        BY <1>0, <4>1
      <4>3. Bounded'
        <5>1. ret_len + status'.got + (Len(message) - 1) <= nread.now + nread.carried
          <6>1. status'.got \in Nat
            BY <4>1
          <6> QED BY <1>0, <2>3, <4>2, <6>1, SMTT(20)
        <5> QED BY <2>1, <2>2, <2>5, <5>1 DEF Bounded
      <4> QED BY <2>2, <4>1, <4>3 DEF Measured
    <3>2. CASE /\ status'.got = status.got + 1 /\ status'.first = status.first
               /\ status'.len >= 3 /\ status'.len <= MaxLength /\ status'.got < status'.len
               /\ status'.clean => status'.len = Length[status.first.m]
      <4>1. Bounded'
        <5>1. ret_len + (status.got + 1) + (Len(message) - 1) <= nread.now + nread.carried
          BY <1>0, <2>3
        <5> QED BY <2>1, <2>2, <2>5, <3>2, <5>1 DEF Bounded
      <4> QED BY <2>2, <3>2, <4>1 DEF Measured
    <3> QED BY <2>1, <2>5, <3>1, <3>2, ParseCases
  <2> QED BY <2>1, <2>4, <2>5
<1>4. CASE FilterDone
  BY <1>4, StreamAssumption DEF FilterDone, Measured, Bounded
<1> QED BY <1>1, <1>2, <1>3, <1>4 DEF Next, VMSends, Break, vars

\* Nothing is read in the initial state.
LEMMA InitMeasured == Init => Measured
  BY StreamAssumption DEF Init, Idle, Measured, Bounded

\* Measured holds in every state.
LEMMA AlwaysMeasured == Spec => []Measured
<1> QED BY InitMeasured, TypeCorrect, MeasuredStep, PTL DEF Spec

\* A call writes past the MTU bytes of ret_buf by at most the bytes the parser
\* carried over from earlier reads, however the reads cut the stream.
THEOREM OverrunWithinCarriedHolds == Spec => []OverrunWithinCarried
<1>1. TypeOK /\ Measured => OverrunWithinCarried
  <2> SUFFICES ASSUME TypeOK, Measured PROVE ret_len <= MTU + nread.carried
    BY DEF OverrunWithinCarried
  <2>1. /\ ret_len \in Nat /\ nread.now \in Nat /\ nread.carried \in Nat /\ MTU \in Nat
        /\ status.got \in Nat /\ Len(message) \in Nat /\ nread.now <= MTU
    BY StatusType, LenProperties, StreamAssumption DEF TypeOK, Measured
  <2>2. CASE nread.now = 0
    BY <2>1, <2>2 DEF Measured
  <2>3. CASE nread.now # 0
    <3>1. ret_len + status.got + Len(message) <= nread.now + nread.carried
      BY <2>1, <2>3 DEF Measured, Bounded
    <3> QED BY <2>1, <3>1
  <2> QED BY <2>2, <2>3
<1> QED BY <1>1, TypeCorrect, AlwaysMeasured, PTL

-----------------------------------------------------------------------------
(* What is passed on.                                                      *)

\* The inductive invariant: the messages passed on are permitted, and they
\* are found among those that arrived, one behind the other.
Passed ==
    /\ \A i \in DOMAIN Relayed : Permitted(Relayed[i].m)
    /\ Embedded(Relayed, arrived)

\* What is passed on is a sequence of messages.
LEMMA RelayedType ==
    ASSUME TypeOK
    PROVE  Relayed \in Seq(Whole)
  BY ConcatProperties DEF TypeOK, Relayed

\* A message appended to ret_buf is appended to what is passed on, and
\* nothing else is: FilterDone moves ret_buf to out.
LEMMA RelayedStep ==
    ASSUME TypeOK
    PROVE  /\ UNCHANGED <<out, ret_buf>> => Relayed' = Relayed
           /\ FilterDone => Relayed' = Relayed
           /\ \A e \in Whole :
                 out' = out /\ ret_buf' = Append(ret_buf, e) => Relayed' = Append(Relayed, e)
<1>1. ASSUME FilterDone PROVE Relayed' = Relayed
  <2>1. out' = Relayed /\ ret_buf' = <<>>
    BY <1>1 DEF FilterDone, Relayed
  <2>2. Relayed \o <<>> = Relayed
    BY RelayedType, ConcatEmptySeq
  <2> QED BY <2>1, <2>2 DEF Relayed
<1>2. ASSUME NEW e \in Whole, out' = out, ret_buf' = Append(ret_buf, e)
      PROVE  Relayed' = Append(Relayed, e)
  <2>1. <<e>> \in Seq(Whole) /\ out \in Seq(Whole) /\ ret_buf \in Seq(Whole)
    BY <1>2 DEF TypeOK
  <2>2. ret_buf' = ret_buf \o <<e>> /\ Append(Relayed, e) = Relayed \o <<e>>
    BY <1>2, <2>1, RelayedType, AppendIsConcat
  <2>3. (out \o ret_buf) \o <<e>> = out \o (ret_buf \o <<e>>)
    BY <2>1, ConcatAssociative
  <2> QED BY <1>2, <2>2, <2>3 DEF Relayed
<1> QED BY <1>1, <1>2 DEF Relayed

\* What a step does to the messages passed on and to those arrived: it leaves
\* them alone, or it reaches the last byte of a message.
LEMMA PassCases ==
    ASSUME TypeOK, Measured, [Next]_vars
    PROVE  \/ UNCHANGED <<Relayed, arrived>>
           \/ \E e \in Whole : /\ arrived' = Append(arrived, e)
                               /\ \/ Relayed' = Append(Relayed, e) /\ Permitted(e.m)
                                  \/ Relayed' = Relayed
<1>1. CASE UNCHANGED <<out, ret_buf, arrived>>
  BY <1>1, RelayedStep
<1>2. CASE FilterDone
  BY <1>2, RelayedStep DEF FilterDone
<1>3. CASE FilterByte
  <2> DEFINE b == Head(message)
  <2>1. /\ b \in Byte /\ MessageOf(b) \in Whole
        /\ \/ Completes(b) /\ Permitted(b.m) /\ ret_buf' = Append(ret_buf, MessageOf(b))
           \/ ret_buf' = ret_buf
        /\ arrived' = IF b.k = Length[b.m] THEN Append(arrived, MessageOf(b)) ELSE arrived
        /\ Completes(b) => b.k = Length[b.m]
    BY <1>3, ByteEffect
  <2>2. out' = out
    BY <1>3 DEF FilterByte
  <2> HIDE DEF b
  <2>3. MessageOf(b).m = b.m
    BY DEF MessageOf
  <2>4. CASE Completes(b) /\ Permitted(b.m) /\ ret_buf' = Append(ret_buf, MessageOf(b))
    <3>1. Relayed' = Append(Relayed, MessageOf(b)) /\ arrived' = Append(arrived, MessageOf(b))
      BY <2>1, <2>2, <2>4, RelayedStep
    <3> QED BY <2>1, <2>3, <2>4, <3>1
  <2>5. CASE ret_buf' = ret_buf
    BY <2>1, <2>2, <2>5, RelayedStep
  <2> QED BY <2>1, <2>4, <2>5
<1> QED BY <1>1, <1>2, <1>3 DEF Next, VMSends, Break, Read, vars

\* Passed is inductive.
LEMMA PassedStep ==
    ASSUME TypeOK, Measured, Passed, [Next]_vars
    PROVE  Passed'
<1>0. arrived \in Seq(Whole) /\ Relayed \in Seq(Whole)
  BY RelayedType DEF TypeOK
<1>1. CASE UNCHANGED <<Relayed, arrived>>
  BY <1>1 DEF Passed
<1>2. ASSUME NEW e \in Whole, arrived' = Append(arrived, e),
             \/ Relayed' = Append(Relayed, e) /\ Permitted(e.m)
             \/ Relayed' = Relayed
      PROVE  Passed'
  <2>1. Embedded(Relayed, arrived') /\ Embedded(Append(Relayed, e), arrived')
    BY <1>0, <1>2, SendEmbedded DEF Passed
  <2>2. Embedded(Relayed', arrived')
    BY <1>2, <2>1
  <2>3. CASE Relayed' = Relayed
    BY <2>2, <2>3 DEF Passed
  <2>4. CASE Relayed' = Append(Relayed, e) /\ Permitted(e.m)
    <3>1. /\ Len(Relayed) \in Nat /\ DOMAIN Relayed = 1..Len(Relayed)
          /\ DOMAIN Append(Relayed, e) = 1..(Len(Relayed) + 1)
          /\ \A i \in 1..Len(Relayed) : Append(Relayed, e)[i] = Relayed[i]
          /\ Append(Relayed, e)[Len(Relayed) + 1] = e
      BY <1>0, AppendProperties, LenProperties
    <3>2. \A i \in 1..(Len(Relayed) + 1) : Permitted(Append(Relayed, e)[i].m)
      BY <2>4, <3>1 DEF Passed
    <3> QED BY <2>2, <2>4, <3>1, <3>2 DEF Passed
  <2> QED BY <1>2, <2>3, <2>4
<1> QED BY <1>1, <1>2, PassCases

\* A connection that ends in the middle of a message makes no message out of
\* its rest and the next stream.
THEOREM NothingSplicedHolds == Spec => []NothingSpliced
<1>1. Init => Passed
  <2>1. <<>> \o <<>> = <<>>
    OBVIOUS
  <2>2. \A i \in DOMAIN <<>> : FALSE
    OBVIOUS
  <2> QED BY <2>1, <2>2, EmbeddedEmpty DEF Init, Passed, Relayed
<1>2. TypeOK /\ Passed => NothingSpliced
  <2> SUFFICES ASSUME TypeOK, Passed PROVE NothingSpliced
    OBVIOUS
  <2>1. Relayed \in Seq(Whole) /\ arrived \in Seq(Whole) /\ <<>> \in Seq(Whole)
    BY RelayedType, EmptySeq DEF TypeOK
  <2>2. Embedded(Relayed \o <<>>, arrived)
    BY <2>1, ConcatEmptySeq DEF Passed
  <2> QED BY <2>1, <2>2, EmbeddedInOrder DEF NothingSpliced, Passed
<1> QED BY <1>1, <1>2, TypeCorrect, AlwaysMeasured, PassedStep, PTL DEF Spec
-----------------------------------------------------------------------------
(* The stream of the connection that is open.                              *)

\* Its bytes the loop has not reached, and how many it has reached.
Stream == message \o transit
Here   == written - Len(Stream)

\* Byte b comes behind byte a: the next one of a message or the first of one.
Behind(a, b) ==
    IF a.k = Length[a.m] THEN b.k = 1 ELSE b.m = a.m /\ b.start = a.start

\* s are the last bytes of connection conn, behind the first reached ones.
Laid(s, reached, conn) ==
    /\ \A i \in 1..Len(s) : /\ s[i].conn = conn
                            /\ s[i].start + s[i].k = reached + i
                            /\ s[i].k <= Length[s[i].m]
    /\ \A i \in 1..(Len(s) - 1) : Behind(s[i], s[i + 1])
    /\ s # <<>> => s[Len(s)].k = Length[s[Len(s)].m]

\* A stream one byte further.
LEMMA LaidTail ==
    ASSUME NEW s \in Seq(Byte), s # <<>>, NEW reached \in Nat, NEW conn, Laid(s, reached, conn)
    PROVE  Laid(Tail(s), reached + 1, conn)
<1>1. /\ Len(s) \in Nat \ {0} /\ Tail(s) \in Seq(Byte) /\ Len(Tail(s)) = Len(s) - 1
      /\ \A i \in 1..Len(Tail(s)) : Tail(s)[i] = s[i + 1]
      /\ \A i \in 1..Len(s) : s[i] \in Byte
  BY HeadTailProperties, LenProperties, EmptySeq
<1> DEFINE t == Tail(s)
<1> HIDE DEF t
<1>2. ASSUME NEW i \in 1..Len(t)
      PROVE  t[i].conn = conn /\ t[i].start + t[i].k = (reached + 1) + i /\ t[i].k <= Length[t[i].m]
  <2>1. i + 1 \in 1..Len(s) /\ t[i] = s[i + 1] /\ i \in Nat
    BY <1>1, <1>2 DEF t
  <2> QED BY <2>1 DEF Laid
<1>3. ASSUME NEW i \in 1..(Len(t) - 1)
      PROVE  Behind(t[i], t[i + 1])
  <2>1. i + 1 \in 1..(Len(s) - 1) /\ t[i] = s[i + 1] /\ t[i + 1] = s[(i + 1) + 1]
    BY <1>1, <1>3 DEF t
  <2> QED BY <2>1 DEF Laid
<1>4. ASSUME t # <<>>  PROVE t[Len(t)].k = Length[t[Len(t)].m]
  <2>1. Len(t) \in 1..Len(t) /\ t[Len(t)] = s[Len(s)]
    <3>1. Len(t) # 0
      BY <1>1, <1>4, EmptySeq DEF t
    <3> QED BY <1>1, <3>1 DEF t
  <2> QED BY <2>1 DEF Laid
<1> QED BY <1>2, <1>3, <1>4 DEF Laid, t

\* A stream with one message more at its end.
LEMMA LaidSend ==
    ASSUME TypeOK, NEW s \in Seq(Byte), NEW reached \in Nat, Laid(s, reached, breaks),
           written = reached + Len(s), NEW m \in Messages
    PROVE  Laid(s \o Bytes(m), reached, breaks)
<1> DEFINE t == Bytes(m)
           u == s \o t
           n == Len(s)
           l == Length[m]
<1>1. /\ t \in Seq(Byte) /\ Len(t) = l
      /\ \A k \in 1..l : /\ t[k].m = m /\ t[k].k = k
                         /\ t[k].conn = breaks /\ t[k].start = written
  <2> HIDE DEF t, l
  <2>1. /\ t \in Seq(Byte) /\ Len(t) = l
        /\ \A k \in 1..l : t[k] = [m |-> m, k |-> k, conn |-> breaks, start |-> written]
    BY BytesType DEF t, l
  <2> QED BY <2>1
<1>2. l \in Nat /\ l >= 3 /\ n \in Nat
  BY LengthType, LenProperties
<1>3. /\ u \in Seq(Byte) /\ Len(u) = n + l
      /\ \A i \in 1..n : u[i] = s[i]
      /\ \A k \in 1..l : u[n + k] = t[k]
  <2> HIDE DEF t, l
  <2>1. /\ u \in Seq(Byte) /\ Len(u) = n + l
        /\ \A i \in 1..(n + l) : u[i] = IF i <= n THEN s[i] ELSE t[i - n]
    <3>1. t \in Seq(Byte) /\ Len(t) = l
      BY <1>1
    <3>2. /\ s \o t \in Seq(Byte) /\ Len(s \o t) = Len(s) + Len(t)
          /\ \A i \in 1..(Len(s) + Len(t)) :
                (s \o t)[i] = IF i <= Len(s) THEN s[i] ELSE t[i - Len(s)]
      BY <3>1, ConcatProperties
    <3> QED BY <3>1, <3>2
  <2> HIDE DEF u, n, l
  <2>2. \A k \in 1..l : u[n + k] = t[k]
    <3> SUFFICES ASSUME NEW k \in 1..l PROVE u[n + k] = t[k]
      OBVIOUS
    <3>1. n + k \in 1..(n + l) /\ ~(n + k <= n) /\ (n + k) - n = k
      BY <1>2
    <3> QED BY <2>1, <3>1
  <2> QED BY <1>2, <2>1, <2>2
<1> HIDE DEF t, u, l
<1>4. ASSUME NEW i \in 1..Len(u)
      PROVE  u[i].conn = breaks /\ u[i].start + u[i].k = reached + i /\ u[i].k <= Length[u[i].m]
  <2>1. CASE i \in 1..n
    BY <1>3, <2>1 DEF Laid
  <2>2. CASE i \notin 1..n
    <3>1. i - n \in 1..l /\ n + (i - n) = i
      BY <1>2, <1>3, <1>4, <2>2
    <3>2. u[i] = t[i - n]
      BY <1>3, <3>1
    <3>3. /\ u[i].m = m /\ u[i].k = i - n /\ u[i].conn = breaks /\ u[i].start = reached + n
      BY <1>1, <3>1, <3>2
    <3> QED BY <1>2, <3>1, <3>3 DEF l
  <2> QED BY <2>1, <2>2
<1>5. ASSUME NEW i \in 1..(Len(u) - 1)
      PROVE  Behind(u[i], u[i + 1])
  <2>1. CASE i < n
    <3>1. i \in 1..n /\ i + 1 \in 1..n /\ i \in 1..(Len(s) - 1)
      BY <1>2, <2>1
    <3> QED BY <1>3, <3>1 DEF Laid
  <2>2. CASE i = n
    <3>1. n \in 1..n /\ 1 \in 1..l /\ s # <<>>
      BY <1>2, <2>2, EmptySeq
    <3>2. u[n] = s[n] /\ u[n + 1] = t[1] /\ t[1].k = 1
      BY <1>1, <1>3, <3>1
    <3>3. s[n].k = Length[s[n].m]
      BY <3>1 DEF Laid
    <3> QED BY <2>2, <3>2, <3>3 DEF Behind
  <2>3. CASE i > n
    <3>1. i - n \in 1..l /\ i - n # l /\ (i - n) + 1 \in 1..l
          /\ n + (i - n) = i /\ n + ((i - n) + 1) = i + 1
      BY <1>2, <1>3, <1>5, <2>3
    <3>2. u[i] = t[i - n] /\ u[i + 1] = t[(i - n) + 1]
      BY <1>3, <3>1
    <3>3. /\ u[i].m = m /\ u[i].k = i - n /\ u[i].start = written
          /\ u[i + 1].m = m /\ u[i + 1].start = written
      BY <1>1, <3>1, <3>2
    <3> QED BY <3>1, <3>3 DEF Behind, l
  <2> QED BY <1>2, <1>3, <1>5, <2>1, <2>2, <2>3
<1>6. u[Len(u)].k = Length[u[Len(u)].m]
  <2>1. l \in 1..l
    BY <1>2
  <2>2. u[n + l] = t[l] /\ t[l].m = m /\ t[l].k = l
    BY <1>1, <1>3, <2>1
  <2> QED BY <1>3, <2>2 DEF l
<1> QED BY <1>4, <1>5, <1>6 DEF Laid, u, t

\* The second inductive invariant: what the loop has not reached is the end
\* of what the VM wrote over this connection.
Wired ==
    /\ Here >= 0
    /\ Laid(Stream, Here, breaks)

\* The stream is a sequence of bytes.
LEMMA StreamType ==
    ASSUME TypeOK
    PROVE  Stream \in Seq(Byte) /\ Len(Stream) \in Nat /\ Here \in Int
<1>1. Stream \in Seq(Byte)
  BY ConcatProperties DEF TypeOK, Stream
<1> QED BY <1>1, LenProperties DEF TypeOK, Here

\* What each step does to the stream.
LEMMA StreamStep ==
    ASSUME TypeOK, Measured
    PROVE  /\ \A m \in Messages : VMSends(m) => Stream' = Stream \o Bytes(m)
           /\ Break => Stream' = <<>>
           /\ Read => Stream' = Stream
           /\ FilterByte => Stream # <<>> /\ Head(message) = Stream[1] /\ Stream' = Tail(Stream)
           /\ UNCHANGED <<message, transit>> => Stream' = Stream
<1>0. message \in Seq(Byte) /\ transit \in Seq(Byte)
  BY DEF TypeOK
<1>1. ASSUME NEW m \in Messages, VMSends(m)  PROVE Stream' = Stream \o Bytes(m)
  <2>1. (message \o transit) \o Bytes(m) = message \o (transit \o Bytes(m))
    <3>1. Bytes(m) \in Seq(Byte)
      BY BytesType
    <3> QED BY <1>0, <3>1, ConcatAssociative
  <2> QED BY <1>1, <2>1 DEF VMSends, Stream
<1>2. ASSUME Break  PROVE Stream' = <<>>
  <2>1. message' = <<>> /\ transit' = <<>>
    BY <1>2 DEF Break, Measured
  <2> QED BY <2>1 DEF Stream
<1>3. ASSUME Read  PROVE Stream' = Stream
  <2>1. PICK n \in 1..Len(transit) :
          message' = SubSeq(transit, 1, n) /\ transit' = SubSeq(transit, n + 1, Len(transit))
    BY <1>3 DEF Read
  <2>2. message = <<>>
    BY <1>3 DEF Read, Measured
  <2>3. Len(transit) \in Nat /\ n \in Nat
    BY <1>0, LenProperties
  <2>4. 1 \in 1..(Len(transit) + 1) /\ n \in (1 - 1)..Len(transit) /\ Len(transit) \in n..Len(transit)
    BY <2>3
  <2>5. SubSeq(transit, 1, n) \o SubSeq(transit, n + 1, Len(transit)) = SubSeq(transit, 1, Len(transit))
    BY <1>0, <2>4, ConcatAdjacentSubSeq
  <2>6. SubSeq(transit, 1, Len(transit)) = transit /\ <<>> \o transit = transit
    BY <1>0, SubSeqFull, ConcatEmptySeq
  <2> QED BY <2>1, <2>2, <2>5, <2>6 DEF Stream
<1>4. ASSUME FilterByte
      PROVE  Stream # <<>> /\ Head(message) = Stream[1] /\ Stream' = Tail(Stream)
  <2>1. message # <<>> /\ message' = Tail(message) /\ transit' = transit
    BY <1>4 DEF FilterByte
  <2>2. /\ Len(message) \in Nat \ {0} /\ Len(transit) \in Nat
        /\ Tail(message) \in Seq(Byte) /\ Len(Tail(message)) = Len(message) - 1
        /\ \A i \in 1..(Len(message) - 1) : Tail(message)[i] = message[i + 1]
        /\ Head(message) = message[1]
    BY <1>0, <2>1, HeadTailProperties, LenProperties, EmptySeq
  <2> DEFINE n == Len(message) + Len(transit)
  <2>3. /\ Stream \in Seq(Byte) /\ Len(Stream) = n
        /\ \A i \in 1..n : Stream[i] = IF i <= Len(message) THEN message[i]
                                       ELSE transit[i - Len(message)]
    BY <1>0, ConcatProperties DEF Stream
  <2>4. /\ Stream' \in Seq(Byte) /\ Len(Stream') = n - 1
        /\ \A i \in 1..(n - 1) : Stream'[i] = IF i <= Len(message) - 1 THEN Tail(message)[i]
                                              ELSE transit[i - (Len(message) - 1)]
    BY <1>0, <2>1, <2>2, ConcatProperties DEF Stream
  <2>5. Stream # <<>> /\ Stream[1] = message[1]
    BY <2>2, <2>3, EmptySeq
  <2>6. /\ Tail(Stream) \in Seq(Byte) /\ Len(Tail(Stream)) = n - 1
        /\ \A i \in 1..(n - 1) : Tail(Stream)[i] = Stream[i + 1]
    BY <2>3, <2>5, HeadTailProperties
  <2>7. ASSUME NEW i \in 1..(n - 1)  PROVE Stream'[i] = Tail(Stream)[i]
    <3>1. i + 1 \in 1..n /\ i \in Nat
      BY <2>2, <2>7
    <3>2. CASE i <= Len(message) - 1
      <4>1. i \in 1..(Len(message) - 1) /\ i + 1 <= Len(message)
        BY <2>2, <3>1, <3>2, <2>7
      <4> QED BY <2>2, <2>3, <2>4, <2>6, <2>7, <3>1, <3>2, <4>1
    <3>3. CASE ~(i <= Len(message) - 1)
      <4>1. ~(i + 1 <= Len(message)) /\ (i + 1) - Len(message) = i - (Len(message) - 1)
        BY <2>2, <3>1, <3>3
      <4> QED BY <2>3, <2>4, <2>6, <2>7, <3>1, <3>3, <4>1
    <3> QED BY <3>2, <3>3
  <2> QED BY <2>2, <2>4, <2>5, <2>6, <2>7, SeqEqual
<1> QED BY <1>1, <1>2, <1>3, <1>4 DEF Stream

\* How far the loop has come: only a byte it reaches and a new connection
\* change that.
LEMMA HereStep ==
    ASSUME TypeOK, Measured
    PROVE  /\ (\E m \in Messages : VMSends(m)) => Here' = Here
           /\ Break => Here' = 0
           /\ FilterByte => Here' = Here + 1
           /\ Read => Here' = Here
           /\ UNCHANGED <<message, transit, written>> => Here' = Here
<1>1. ASSUME NEW m \in Messages, VMSends(m)  PROVE Here' = Here
  <2>1. Len(Stream') = Len(Stream) + Length[m]
    BY <1>1, StreamStep, StreamType, BytesType, ConcatProperties
  <2>2. written' = written + Length[m] /\ Length[m] \in Nat /\ written \in Nat /\ Len(Stream) \in Nat
    BY <1>1, LengthType, StreamType DEF VMSends, TypeOK
  <2> QED BY <2>1, <2>2 DEF Here
<1>2. ASSUME Break  PROVE Here' = 0
  <2>1. Len(Stream') = 0 /\ written' = 0
    BY <1>2, StreamStep, EmptySeq DEF Break
  <2> QED BY <2>1 DEF Here
<1>3. ASSUME FilterByte  PROVE Here' = Here + 1
  <2>1. Len(Stream') = Len(Stream) - 1
    BY <1>3, StreamStep, StreamType, HeadTailProperties
  <2> QED BY <1>3, <2>1, StreamType DEF FilterByte, Here, TypeOK
<1>4. ASSUME Read  PROVE Here' = Here
  BY <1>4, StreamStep DEF Read, Here
<1>5. ASSUME UNCHANGED <<message, transit, written>>  PROVE Here' = Here
  BY <1>5, StreamStep DEF Here
<1> QED BY <1>1, <1>2, <1>3, <1>4, <1>5

\* Wired is inductive.
LEMMA WiredStep ==
    ASSUME TypeOK, Measured, Wired, [Next]_vars
    PROVE  Wired'
<1>0. Here \in Nat /\ Stream \in Seq(Byte) /\ Len(Stream) \in Nat /\ written = Here + Len(Stream)
  BY StreamType DEF Wired, Here, TypeOK
<1>1. ASSUME NEW m \in Messages, VMSends(m)  PROVE Wired'
  <2>1. Laid(Stream \o Bytes(m), Here, breaks)
    BY <1>0, LaidSend DEF Wired
  <2>2. Stream' = Stream \o Bytes(m) /\ Here' = Here /\ breaks' = breaks
    BY <1>1, StreamStep, HereStep DEF VMSends
  <2> QED BY <1>0, <2>1, <2>2 DEF Wired
<1>2. CASE Break
  <2>1. Stream' = <<>> /\ Here' = 0 /\ Len(Stream') = 0
    BY <1>2, StreamStep, HereStep, EmptySeq
  <2> QED BY <2>1 DEF Wired, Laid
<1>3. CASE FilterByte
  <2>1. Laid(Tail(Stream), Here + 1, breaks)
    BY <1>0, <1>3, LaidTail, StreamStep DEF Wired
  <2>2. Stream' = Tail(Stream) /\ Here' = Here + 1 /\ breaks' = breaks
    BY <1>3, StreamStep, HereStep DEF FilterByte
  <2> QED BY <1>0, <2>1, <2>2 DEF Wired
<1>4. CASE Stream' = Stream /\ Here' = Here /\ breaks' = breaks
  BY <1>4 DEF Wired
<1>5. CASE Read
  BY <1>4, <1>5, StreamStep, HereStep DEF Read
<1>6. CASE UNCHANGED <<message, transit, written, breaks>>
  BY <1>4, <1>6, StreamStep, HereStep
<1> QED BY <1>1, <1>2, <1>3, <1>5, <1>6 DEF Next, FilterDone, vars
-----------------------------------------------------------------------------
(* The parser and the stream.                                              *)

\* The parser is outside a message, or in one of this connection of which it
\* has every byte so far.
Synced == status.got = 0 \/ (status.clean /\ status.first.conn = breaks)

\* Where on a connection the parser has found its way: on a first one at once,
\* on a later one behind the longest message from its last false start.
Reach == IF breaks = 0 THEN 0 ELSE astray + MaxLength - 1

\* The third inductive invariant.  In a message of this connection the byte
\* to come is the next one of that message.  With the leftover of an earlier
\* connection or after a false start the parser holds more bytes than it has
\* seen of this one since then, hence less than the longest message of them.
\* Outside a message the byte to come begins one, unless it belongs to one
\* that began within reach.
Framed ==
    /\ status.got # 0 => status.first.conn <= breaks
    /\ status.got # 0 /\ Synced =>
          /\ Stream # <<>>
          /\ Stream[1].m = status.first.m /\ Stream[1].start = status.first.start
          /\ Stream[1].k = status.got + 1
    /\ ~Synced => breaks > 0 /\ Here < astray + status.got
    /\ status.got = 0 /\ Stream # <<>> => Stream[1].k = 1 \/ Stream[1].start < Reach

\* The byte the loop reaches, and the one behind it.
LEMMA HeadFacts ==
    ASSUME TypeOK, Measured, Wired, FilterByte
    PROVE  LET b == Head(message)
           IN  /\ b = Stream[1] /\ b \in Byte /\ Stream # <<>> /\ Here \in Nat /\ Here' = Here + 1
               /\ b.conn = breaks /\ b.start + b.k = Here + 1 /\ b.k <= Length[b.m]
               /\ b.k # Length[b.m] => /\ Stream' # <<>> /\ Stream'[1].m = b.m
                                       /\ Stream'[1].start = b.start /\ Stream'[1].k = b.k + 1
               /\ b.k = Length[b.m] /\ Stream' # <<>> => Stream'[1].k = 1
               /\ Stream' # <<>> => Stream'[1] \in Byte /\ b.start <= Stream'[1].start
<1> DEFINE b == Head(message)
           s == Stream
           t == Stream'
<1>1. b = s[1] /\ s # <<>> /\ t = Tail(s) /\ s \in Seq(Byte) /\ Here \in Nat /\ Here' = Here + 1
  BY StreamStep, HereStep, StreamType DEF Wired
<1> HIDE DEF t, b
<1>2. /\ t \in Seq(Byte) /\ Len(s) \in Nat \ {0} /\ Len(t) = Len(s) - 1
      /\ \A i \in 1..Len(t) : t[i] = s[i + 1] /\ t[i] \in Byte
      /\ \A i \in 1..Len(s) : s[i] \in Byte
  BY <1>1, HeadTailProperties, LenProperties, EmptySeq
<1>3. 1 \in 1..Len(s) /\ b \in Byte
  BY <1>1, <1>2
<1>4. b.conn = breaks /\ b.start + b.k = Here + 1 /\ b.k <= Length[b.m]
  BY <1>1, <1>3 DEF Wired, Laid
<1>5. b.k # Length[b.m] => t # <<>>
  <2> SUFFICES ASSUME b.k # Length[b.m], t = <<>> PROVE FALSE
    OBVIOUS
  <2>1. Len(s) = 1
    BY <1>2, EmptySeq
  <2> QED BY <1>1, <2>1 DEF Wired, Laid
<1>6. ASSUME t # <<>>
      PROVE  /\ t[1] \in Byte /\ t[1] = s[2] /\ Behind(b, t[1])
             /\ t[1].start + t[1].k = Here + 2
  <2>1. Len(t) # 0
    BY <1>2, <1>6, EmptySeq
  <2>2. 1 \in 1..Len(t) /\ 1 \in 1..(Len(s) - 1) /\ 2 \in 1..Len(s) /\ 1 + 1 = 2
    BY <1>2, <2>1
  <2>3. t[1] = s[2] /\ t[1] \in Byte
    BY <1>2, <2>2
  <2>4. Behind(s[1], s[2]) /\ s[2].start + s[2].k = Here + 2
    BY <2>2 DEF Wired, Laid
  <2> QED BY <1>1, <2>3, <2>4
<1>7. b.start \in Nat /\ b.k \in Nat /\ (t # <<>> => t[1].start \in Nat /\ t[1].k \in Nat)
  BY <1>3, <1>6 DEF Byte
<1>8. b.k # Length[b.m] => /\ t # <<>> /\ t[1].m = b.m
                           /\ t[1].start = b.start /\ t[1].k = b.k + 1
  <2> SUFFICES ASSUME b.k # Length[b.m]
               PROVE  t # <<>> /\ t[1].m = b.m /\ t[1].start = b.start /\ t[1].k = b.k + 1
    OBVIOUS
  <2>1. t # <<>> /\ t[1].m = b.m /\ t[1].start = b.start
    BY <1>5, <1>6 DEF Behind
  <2>2. t[1].start + t[1].k = Here + 2 /\ t[1].k \in Nat /\ b.start \in Nat /\ b.k \in Nat
    BY <1>6, <1>7, <2>1
  <2>3. b.start + b.k = Here + 1 /\ Here \in Nat /\ t[1].start = b.start
    BY <1>1, <1>4, <2>1
  <2>4. t[1].k = b.k + 1
    BY <2>2, <2>3
  <2> QED BY <2>1, <2>4
<1>9. b.k = Length[b.m] /\ t # <<>> => t[1].k = 1
  BY <1>6 DEF Behind
<1>10. t # <<>> => b.start <= t[1].start
  <2> SUFFICES ASSUME t # <<>> PROVE b.start <= t[1].start
    OBVIOUS
  <2>1. CASE b.k = Length[b.m]
    <3>1. t[1].start + 1 = Here + 2 /\ b.start + b.k = Here + 1
      BY <1>4, <1>6, <1>9, <2>1
    <3>2. b.start \in Nat /\ b.k \in Nat /\ t[1].start \in Nat /\ Here \in Nat
      BY <1>1, <1>7
    <3> QED BY <3>1, <3>2
  <2>2. CASE b.k # Length[b.m]
    BY <1>7, <1>8, <2>2
  <2> QED BY <2>1, <2>2
<1> QED BY <1>1, <1>3, <1>4, <1>6, <1>8, <1>9, <1>10 DEF t, b

\* In a message of this connection the byte reached is its next one.
LEMMA SyncedByte ==
    ASSUME TypeOK, Measured, Wired, Framed, FilterByte, Synced, status.got # 0
    PROVE  LET b == Head(message)
           IN  /\ b.m = status.first.m /\ b.conn = status.first.conn
               /\ b.k = status.got + 1 /\ b.start = status.first.start /\ status.clean
  BY HeadFacts DEF Framed, Synced

\* With a leftover of an earlier connection or after a false start the byte
\* reached belongs to a message that began within reach.
LEMMA UnsyncedByte ==
    ASSUME TypeOK, Measured, Wired, Framed, FilterByte, ~Synced, status.got > 1
    PROVE  breaks > 0 /\ Head(message).start < Reach
<1> DEFINE b == Head(message)
<1>1. b \in Byte /\ b.start + b.k = Here + 1 /\ Here \in Nat
  BY HeadFacts
<1>2. /\ breaks > 0 /\ Here < astray + status.got
      /\ status.got < status.len /\ status.len <= MaxLength
  BY DEF Framed, Measured
<1>3. b.start \in Nat /\ b.k \in Nat \ {0} /\ MaxLength \in Nat /\ status.got \in Nat
      /\ status.len \in Nat /\ astray \in Nat /\ breaks \in Nat
  BY <1>1, StatusType, StreamAssumption DEF Byte, Busy, TypeOK
<1> HIDE DEF b
<1>4. b.start < astray + MaxLength - 1
  BY <1>1, <1>2, <1>3
<1>5. Reach = astray + MaxLength - 1
  BY <1>2, <1>3 DEF Reach
<1> QED BY <1>2, <1>4, <1>5 DEF b

\* An iteration of the loop keeps parser and stream in step.
LEMMA FramedByte ==
    ASSUME TypeOK, Measured, Wired, Framed, FilterByte
    PROVE  Framed'
<1> DEFINE b == Head(message)
<1>1. /\ b = Stream[1] /\ b \in Byte /\ Stream # <<>> /\ Here \in Nat /\ Here' = Here + 1
      /\ b.conn = breaks /\ b.start + b.k = Here + 1 /\ b.k <= Length[b.m]
      /\ b.k # Length[b.m] => /\ Stream' # <<>> /\ Stream'[1].m = b.m
                              /\ Stream'[1].start = b.start /\ Stream'[1].k = b.k + 1
      /\ b.k = Length[b.m] /\ Stream' # <<>> => Stream'[1].k = 1
  BY HeadFacts
<1>2. /\ breaks' = breaks /\ breaks \in Nat /\ status.got \in Nat /\ astray \in Nat
      /\ astray' = IF b.k # 1 /\ status' = Started(b) THEN Here + 1 ELSE astray
  BY <1>1, StatusType DEF FilterByte, Reached, TypeOK
<1>3. \/ Completes(b) /\ status' = Idle
      \/ ParseMore(b)
  BY ByteEffect
<1>4. Completes(b) => b.k = Length[b.m]
  BY ByteEffect
<1>5. status.got # 0 /\ Synced => /\ b.m = status.first.m /\ b.conn = status.first.conn
                                  /\ b.k = status.got + 1 /\ b.start = status.first.start
                                  /\ status.clean
  BY SyncedByte
<1>6. ~Synced /\ status.got > 1 => breaks > 0 /\ b.start < Reach
  BY UnsyncedByte
<1>7. Length[b.m] >= 3 /\ b.k \in Nat /\ b.start \in Nat
  BY <1>1, LengthType DEF Byte
<1> HIDE DEF b
<1>8. CASE status'.got = 0 /\ (b.k = Length[b.m] \/ b.start < Reach)
  <2>0. Reach' = Reach
    BY <1>2, <1>8 DEF Reach, Started
  <2>1. Stream' # <<>> => Stream'[1].k = 1 \/ Stream'[1].start < Reach'
    BY <1>1, <1>8, <2>0
  <2> QED BY <1>8, <2>1 DEF Framed, Synced
<1>9. CASE Completes(b) /\ status' = Idle
  <2>1. status'.got = 0
    BY <1>9 DEF Idle
  <2> QED BY <1>4, <1>8, <1>9, <2>1
<1>10. CASE /\ status' \in Restart(b)
            /\ status.got = 0 \/ (status.got > 1 /\ status.got + 1 = status.len)
            /\ status.got > 1 => ~Collect(b, status.len).clean
  <2>1. CASE b.k = 1
    <3>1. status'.got = 1 /\ status'.clean /\ status'.first = b
      BY <1>1, <1>10, <2>1, Restarted
    <3>2. b.k # Length[b.m]
      BY <1>7, <2>1
    <3>3. /\ Stream' # <<>> /\ Stream'[1].m = b.m
          /\ Stream'[1].start = b.start /\ Stream'[1].k = status'.got + 1
      BY <1>1, <2>1, <3>1, <3>2
    <3>4. Synced' /\ status'.got # 0 /\ status'.first.conn <= breaks'
      BY <1>1, <1>2, <3>1 DEF Synced
    <3> QED BY <3>1, <3>3, <3>4 DEF Framed
  <2>2. CASE b.k # 1
    <3>1. b.start < Reach
      <4>1. CASE status.got = 0
        BY <1>1, <2>2, <4>1 DEF Framed
      <4>2. CASE status.got > 1
        <5>1. status.got # 0 /\ status.len \in Nat
          BY <4>2, StatusType DEF Busy
        <5>2. ~Synced
          BY <1>1, <1>5, <1>10, <4>2, <5>1, Collected
        <5> QED BY <1>6, <4>2, <5>2
      <4> QED BY <1>10, <4>1, <4>2
    <3>2. CASE status'.got = 0
      BY <1>8, <3>1, <3>2
    <3>3. CASE status' = Started(b) /\ status'.got = 1 /\ ~status'.clean /\ status'.first = b
      <4>1. breaks > 0
        BY <1>2, <1>7, <3>1 DEF Reach
      <4>2. astray' = Here + 1
        BY <1>2, <2>2, <3>3
      <4>3. ~Synced' /\ status'.got # 0 /\ status'.first.conn <= breaks'
        BY <1>1, <1>2, <3>3 DEF Synced
      <4>4. breaks' > 0 /\ Here' < astray' + status'.got
        BY <1>1, <1>2, <3>3, <4>1, <4>2
      <4> QED BY <4>3, <4>4 DEF Framed
    <3> QED BY <1>1, <1>10, <2>2, <3>2, <3>3, Restarted
  <2> QED BY <2>1, <2>2
<1>11. CASE /\ status.got # 0
            /\ status'.got = status.got + 1 /\ status'.first = status.first
            /\ status'.got < status'.len
            /\ status'.clean <=> /\ status.clean /\ b.m = status.first.m
                                 /\ b.conn = status.first.conn /\ b.k = status.got + 1
            /\ status'.clean => status'.len = Length[status.first.m]
  <2>0. status'.got # 0 /\ status'.first.conn <= breaks'
    BY <1>2, <1>11 DEF Framed
  <2>1. CASE Synced
    <3>1. status'.clean /\ b.m = status.first.m /\ b.k = status'.got /\ b.start = status.first.start
      BY <1>5, <1>11, <2>1
    <3>2. b.k # Length[b.m]
      BY <1>2, <1>11, <3>1
    <3>3. /\ Stream' # <<>> /\ Stream'[1].m = status'.first.m
          /\ Stream'[1].start = status'.first.start /\ Stream'[1].k = status'.got + 1
      BY <1>1, <1>11, <3>1, <3>2
    <3>4. Synced'
      BY <1>1, <1>2, <1>5, <1>11, <2>1, <3>1 DEF Synced
    <3> QED BY <2>0, <3>3, <3>4 DEF Framed
  <2>2. CASE ~Synced
    <3>1. ~Synced'
      BY <1>1, <1>2, <1>11, <2>0, <2>2 DEF Synced
    <3>2. breaks' > 0 /\ Here' < astray' + status'.got
      <4>1. astray' = astray
        BY <1>2, <1>11 DEF Started
      <4> QED BY <1>1, <1>2, <1>11, <2>2, <4>1 DEF Framed
    <3> QED BY <2>0, <3>1, <3>2 DEF Framed
  <2> QED BY <2>1, <2>2
<1>12. ParseMore(b) =>
          \/ /\ status' \in Restart(b)
             /\ status.got = 0 \/ (status.got > 1 /\ status.got + 1 = status.len)
             /\ status.got > 1 => ~Collect(b, status.len).clean
          \/ /\ status.got # 0
             /\ status'.got = status.got + 1 /\ status'.first = status.first
             /\ status'.got < status'.len
             /\ status'.clean <=> /\ status.clean /\ b.m = status.first.m
                                  /\ b.conn = status.first.conn /\ b.k = status.got + 1
             /\ status'.clean => status'.len = Length[status.first.m]
  BY <1>1, ParseCases
<1> QED BY <1>3, <1>9, <1>10, <1>11, <1>12

\* What VMSends appends leaves the first byte of the stream, or begins it.
LEMMA FirstByte ==
    ASSUME TypeOK, NEW m \in Messages
    PROVE  LET more == Stream \o Bytes(m)
           IN  /\ more # <<>>
               /\ Stream # <<>> => more[1] = Stream[1]
               /\ Stream = <<>> => more[1].k = 1 /\ more[1].start = written
<1> DEFINE t == Bytes(m)
           more == Stream \o t
<1>1. /\ t \in Seq(Byte) /\ Len(t) = Length[m] /\ Length[m] \in Nat /\ Length[m] >= 3
      /\ t[1] = [m |-> m, k |-> 1, conn |-> breaks, start |-> written]
  <2>1. 1 \in 1..Length[m]
    BY LengthType
  <2> QED BY <2>1, BytesType, LengthType
<1>2. Stream \in Seq(Byte) /\ Len(Stream) \in Nat
  BY StreamType
<1> HIDE DEF t
<1>3. /\ more \in Seq(Byte) /\ Len(more) = Len(Stream) + Len(t)
      /\ \A i \in 1..(Len(Stream) + Len(t)) :
            more[i] = IF i <= Len(Stream) THEN Stream[i] ELSE t[i - Len(Stream)]
  BY <1>1, <1>2, ConcatProperties
<1>4. more # <<>> /\ 1 \in 1..(Len(Stream) + Len(t))
  BY <1>1, <1>2, <1>3, EmptySeq
<1>5. Stream # <<>> => more[1] = Stream[1]
  <2>1. Stream # <<>> => Len(Stream) # 0
    BY <1>2, EmptySeq
  <2> QED BY <1>2, <1>3, <1>4, <2>1
<1>6. Stream = <<>> => more[1] = t[1]
  <2>1. Stream = <<>> => Len(Stream) = 0
    OBVIOUS
  <2> QED BY <1>1, <1>3, <1>4, <2>1
<1> QED BY <1>1, <1>4, <1>5, <1>6 DEF t

\* Framed is inductive.
LEMMA FramedStep ==
    ASSUME TypeOK, Measured, Wired, Framed, [Next]_vars
    PROVE  Framed'
<1>0. status.got \in Nat /\ breaks \in Nat
  BY StatusType DEF TypeOK
<1>1. ASSUME NEW m \in Messages, VMSends(m)  PROVE Framed'
  <2>1. /\ Stream' = Stream \o Bytes(m) /\ Here' = Here /\ breaks' = breaks
        /\ status' = status /\ astray' = astray
    BY <1>1, StreamStep, HereStep DEF VMSends
  <2>2. /\ Stream' # <<>>
        /\ Stream # <<>> => Stream'[1] = Stream[1]
        /\ Stream = <<>> => Stream'[1].k = 1
    BY <2>1, FirstByte
  <2>3. (Synced' <=> Synced) /\ Reach' = Reach
    BY <2>1 DEF Synced, Reach
  <2> QED BY <2>1, <2>2, <2>3 DEF Framed
<1>2. CASE Break
  <2>1. /\ Stream' = <<>> /\ Here' = 0 /\ breaks' = breaks + 1
        /\ status' = status /\ astray' = 0
    BY <1>2, StreamStep, HereStep DEF Break
  <2>2. status.got # 0 => status.first.conn <= breaks /\ status.first.conn \in Nat
    BY StatusType DEF Framed, Busy, Byte
  <2>3. status.got # 0 => ~Synced' /\ status'.first.conn <= breaks'
    BY <1>0, <2>1, <2>2 DEF Synced
  <2>4. breaks' > 0 /\ (status.got # 0 => Here' < astray' + status'.got)
    BY <1>0, <2>1
  <2>5. status.got = 0 => Synced'
    BY <2>1 DEF Synced
  <2> QED BY <2>1, <2>3, <2>4, <2>5 DEF Framed
<1>3. CASE FilterByte
  BY <1>3, FramedByte
<1>4. CASE /\ Stream' = Stream /\ Here' = Here /\ breaks' = breaks
           /\ status' = status /\ astray' = astray
  <2>1. (Synced' <=> Synced) /\ Reach' = Reach
    BY <1>4 DEF Synced, Reach
  <2> QED BY <1>4, <2>1 DEF Framed
<1>5. CASE Read
  BY <1>4, <1>5, StreamStep, HereStep DEF Read
<1>6. CASE UNCHANGED <<message, transit, written, breaks, status, astray>>
  BY <1>4, <1>6, StreamStep, HereStep
<1> QED BY <1>1, <1>2, <1>3, <1>5, <1>6 DEF Next, FilterDone, vars
-----------------------------------------------------------------------------
(* All that is passed on.                                                  *)

\* The fourth inductive invariant: messages arrived in the order in which
\* they begin.
Ordered ==
    \A i \in DOMAIN arrived :
        /\ arrived[i].conn <= breaks
        /\ arrived[i].conn = breaks =>
              /\ arrived[i].start <= written
              /\ Stream # <<>> => arrived[i].start <= Stream[1].start

\* The last byte of a permitted message that begins beyond reach completes it.
LEMMA LastByteCompletes ==
    ASSUME TypeOK, Measured, Wired, Framed, FilterByte,
           Head(message).k = Length[Head(message).m], Head(message).start >= Reach
    PROVE  Completes(Head(message))
<1> DEFINE b == Head(message)
<1>1. /\ b = Stream[1] /\ b \in Byte /\ Stream # <<>> /\ Here \in Nat
      /\ b.start + b.k = Here + 1 /\ b.k = Length[b.m] /\ b.start >= Reach
  BY HeadFacts
<1>2. Length[b.m] >= 3 /\ Length[b.m] \in Nat /\ b.start \in Nat /\ status.got \in Nat
      /\ breaks \in Nat /\ MaxLength \in Nat /\ astray \in Nat
  BY <1>1, LengthType, StatusType, StreamAssumption DEF Byte, TypeOK
<1>3. status.got # 0 /\ Synced => /\ b.m = status.first.m /\ b.conn = status.first.conn
                                  /\ b.k = status.got + 1 /\ status.clean
  BY SyncedByte
<1>4. ~Synced /\ status.got > 1 => b.start < Reach
  BY UnsyncedByte
<1> HIDE DEF b
<1>5. Reach \in Int
  BY <1>2 DEF Reach
<1>6. status.got # 0
  BY <1>1, <1>2, <1>5 DEF Framed
<1>7. Synced
  <2>1. CASE status.got = 1
    <3> SUFFICES ASSUME ~Synced PROVE FALSE
      OBVIOUS
    <3>1. breaks > 0 /\ Here < astray + 1
      BY <2>1 DEF Framed
    <3> QED BY <1>1, <1>2, <3>1 DEF Reach
  <2>2. CASE status.got > 1
    BY <1>1, <1>2, <1>4, <1>5, <2>2
  <2> QED BY <1>2, <1>6, <2>1, <2>2
<1>8. status.got > 1 /\ status.got + 1 = status.len /\ status.len \in Nat
  BY <1>1, <1>2, <1>3, <1>6, <1>7 DEF Measured
<1>9. Collect(b, status.len).clean
  BY <1>1, <1>3, <1>6, <1>7, <1>8, Collected
<1> QED BY <1>8, <1>9 DEF Completes, b

\* What a step that reaches the last byte of a message does, and what the
\* others leave alone.
LEMMA ReachCases ==
    ASSUME TypeOK, Measured, Wired, Framed, Ordered, [Next]_vars
    PROVE  \/ UNCHANGED <<Relayed, arrived>>
           \/ \E e \in Whole :
                 /\ FilterByte /\ breaks' = breaks
                 /\ arrived' = Append(arrived, e) /\ e.conn = breaks
                 /\ Relayed' = Append(Relayed, e) \/ Relayed' = Relayed
                 /\ Relayed' = Append(Relayed, e) => Permitted(e.m)
                 /\ e.start >= Reach /\ Permitted(e.m) => Relayed' = Append(Relayed, e)
                 /\ \A i \in DOMAIN arrived :
                       arrived[i].conn = breaks => arrived[i].start <= e.start
                 /\ Stream' # <<>> => e.start <= Stream'[1].start
                 /\ e.start <= written
<1>1. CASE UNCHANGED <<out, ret_buf, arrived>>
  BY <1>1, RelayedStep
<1>2. CASE FilterDone
  BY <1>2, RelayedStep DEF FilterDone
<1>3. CASE FilterByte
  <2> DEFINE b == Head(message)
             e == MessageOf(b)
  <2>1. /\ b \in Byte /\ e \in Whole
        /\ \/ Completes(b) /\ Permitted(b.m) /\ ret_buf' = Append(ret_buf, e)
           \/ ~(Completes(b) /\ Permitted(b.m)) /\ ret_buf' = ret_buf
        /\ arrived' = IF b.k = Length[b.m] THEN Append(arrived, e) ELSE arrived
        /\ Completes(b) => b.k = Length[b.m]
    BY <1>3, ByteEffect
  <2>2. out' = out /\ breaks' = breaks
    BY <1>3 DEF FilterByte
  <2>3. /\ b = Stream[1] /\ Stream # <<>> /\ b.conn = breaks /\ Here \in Nat
        /\ b.start + b.k = Here + 1
        /\ Stream' # <<>> => b.start <= Stream'[1].start
    BY <1>3, HeadFacts
  <2>4. b.k = Length[b.m] /\ b.start >= Reach => Completes(b)
    BY <1>3, LastByteCompletes
  <2>5. written = Here + Len(Stream) /\ Len(Stream) \in Nat \ {0}
    BY <2>3, StreamType, EmptySeq DEF Here, TypeOK
  <2>6. e.m = b.m /\ e.conn = b.conn /\ e.start = b.start
    BY DEF MessageOf
  <2> HIDE DEF b, e
  <2>7. b.start <= written
    BY <2>1, <2>3, <2>5 DEF Byte
  <2>8. \A i \in DOMAIN arrived : arrived[i].conn = breaks => arrived[i].start <= b.start
    BY <2>3 DEF Ordered
  <2>9. Relayed' = Append(Relayed, e) \/ Relayed' = Relayed
    BY <2>1, <2>2, RelayedStep
  <2>10. Relayed # Append(Relayed, e)
    <3>1. Len(Append(Relayed, e)) = Len(Relayed) + 1 /\ Len(Relayed) \in Nat
      BY <2>1, RelayedType, AppendProperties, LenProperties
    <3> QED BY <3>1
  <2>11. CASE Completes(b) /\ Permitted(b.m) /\ ret_buf' = Append(ret_buf, e)
    <3>1. Relayed' = Append(Relayed, e) /\ arrived' = Append(arrived, e)
      BY <2>1, <2>2, <2>11, RelayedStep
    <3> QED BY <1>3, <2>1, <2>2, <2>3, <2>6, <2>7, <2>8, <2>11, <3>1
  <2>12. CASE ~(Completes(b) /\ Permitted(b.m)) /\ ret_buf' = ret_buf
    <3>1. Relayed' = Relayed
      BY <2>2, <2>12, RelayedStep
    <3>2. CASE b.k = Length[b.m]
      <4>1. arrived' = Append(arrived, e) /\ ~(e.start >= Reach /\ Permitted(e.m))
        BY <2>1, <2>4, <2>6, <2>12, <3>2
      <4> QED BY <1>3, <2>1, <2>2, <2>3, <2>6, <2>7, <2>8, <2>10, <3>1, <4>1
    <3>3. CASE b.k # Length[b.m]
      BY <2>1, <3>1, <3>3
    <3> QED BY <3>2, <3>3
  <2> QED BY <2>1, <2>11, <2>12
<1> QED BY <1>1, <1>2, <1>3 DEF Next, VMSends, Break, Read, vars

\* Ordered is inductive.
LEMMA OrderedStep ==
    ASSUME TypeOK, Measured, Wired, Framed, Ordered, [Next]_vars
    PROVE  Ordered'
<1>0. /\ breaks \in Nat /\ written \in Nat /\ arrived \in Seq(Whole)
      /\ Len(arrived) \in Nat /\ DOMAIN arrived = 1..Len(arrived)
      /\ \A i \in DOMAIN arrived : arrived[i].conn \in Nat /\ arrived[i].start \in Nat
  <2>1. /\ breaks \in Nat /\ written \in Nat /\ arrived \in Seq(Whole)
        /\ Len(arrived) \in Nat /\ DOMAIN arrived = 1..Len(arrived)
        /\ \A i \in 1..Len(arrived) : arrived[i] \in Whole
    BY LenProperties DEF TypeOK
  <2> QED BY <2>1 DEF Whole
<1>1. ASSUME NEW m \in Messages, VMSends(m)  PROVE Ordered'
  <2>1. Stream' = Stream \o Bytes(m) /\ written' = written + Length[m] /\ Length[m] \in Nat
        /\ UNCHANGED <<breaks, arrived>>
    BY <1>1, StreamStep, LengthType DEF VMSends
  <2>2. /\ Stream # <<>> => Stream'[1] = Stream[1]
        /\ Stream = <<>> => Stream'[1].start = written
    BY <2>1, FirstByte
  <2>3. ASSUME NEW i \in DOMAIN arrived, arrived[i].conn = breaks
        PROVE  arrived[i].start <= written' /\ arrived[i].start <= Stream'[1].start
    <3>1. arrived[i].start <= written /\ (Stream # <<>> => arrived[i].start <= Stream[1].start)
      BY <2>3 DEF Ordered
    <3>2. arrived[i].start <= written'
      BY <1>0, <2>1, <3>1
    <3>3. arrived[i].start <= Stream'[1].start
      BY <2>2, <3>1
    <3> QED BY <3>2, <3>3
  <2> QED BY <2>1, <2>3 DEF Ordered
<1>2. CASE Break
  <2>1. breaks' = breaks + 1 /\ arrived' = arrived
    BY <1>2 DEF Break
  <2>2. ASSUME NEW i \in DOMAIN arrived  PROVE arrived[i].conn <= breaks' /\ arrived[i].conn # breaks'
    BY <1>0, <2>1 DEF Ordered
  <2> QED BY <2>1, <2>2 DEF Ordered
<1>3. CASE FilterByte
  <2>1. UNCHANGED <<breaks, written>>
    BY <1>3 DEF FilterByte
  <2>2. /\ Head(message) = Stream[1] /\ Stream # <<>> /\ Head(message) \in Byte
        /\ Stream' # <<>> => Stream'[1] \in Byte /\ Head(message).start <= Stream'[1].start
    BY <1>3, HeadFacts
  <2>3. ASSUME NEW i \in DOMAIN arrived, arrived[i].conn = breaks
        PROVE  arrived[i].start <= written /\ (Stream' # <<>> => arrived[i].start <= Stream'[1].start)
    <3>1. arrived[i].start <= written /\ arrived[i].start <= Stream[1].start
      BY <2>2, <2>3 DEF Ordered
    <3>2. Stream[1].start \in Nat /\ (Stream' # <<>> => Stream'[1].start \in Nat)
      BY <2>2 DEF Byte
    <3> QED BY <1>0, <2>2, <3>1, <3>2
  <2>4. CASE arrived' = arrived
    BY <2>1, <2>3, <2>4 DEF Ordered
  <2>5. ASSUME NEW e \in Whole, arrived' = Append(arrived, e), e.conn = breaks,
               Stream' # <<>> => e.start <= Stream'[1].start, e.start <= written
        PROVE  Ordered'
    <3>1. /\ DOMAIN arrived' = 1..(Len(arrived) + 1)
          /\ \A i \in 1..Len(arrived) : arrived'[i] = arrived[i]
          /\ arrived'[Len(arrived) + 1] = e
      BY <1>0, <2>5, AppendProperties, LenProperties
    <3>2. ASSUME NEW i \in DOMAIN arrived'
          PROVE  /\ arrived'[i].conn <= breaks'
                 /\ arrived'[i].conn = breaks' =>
                       /\ arrived'[i].start <= written'
                       /\ Stream' # <<>> => arrived'[i].start <= Stream'[1].start
      <4>1. CASE i = Len(arrived) + 1
        BY <1>0, <2>1, <2>5, <3>1, <4>1
      <4>2. CASE i # Len(arrived) + 1
        <5>1. i \in DOMAIN arrived /\ arrived'[i] = arrived[i]
          BY <1>0, <3>1, <4>2
        <5> QED BY <2>1, <2>3, <5>1 DEF Ordered
      <4> QED BY <4>1, <4>2
    <3> QED BY <3>2 DEF Ordered
  <2> QED BY <2>4, <2>5, ReachCases
<1>4. CASE Stream' = Stream /\ UNCHANGED <<breaks, written, arrived>>
  BY <1>4 DEF Ordered
<1>5. CASE Read
  BY <1>4, <1>5, StreamStep DEF Read
<1>6. CASE UNCHANGED <<message, transit, written, breaks, arrived>>
  BY <1>4, <1>6, StreamStep
<1> QED BY <1>1, <1>2, <1>3, <1>5, <1>6 DEF Next, FilterDone, vars

\* The permitted messages of the open connection that begin at a place or behind.
Kept(from) == Keep(arrived, PermittedFrom(from))

\* One message more has arrived.
LEMMA KeptStep ==
    ASSUME TypeOK, NEW e \in Whole, arrived' = Append(arrived, e), e.conn = breaks,
           breaks' = breaks, NEW from \in Int
    PROVE  Keep(arrived', PermittedFrom(from)') =
              IF Permitted(e.m) /\ e.start >= from THEN Append(Kept(from), e) ELSE Kept(from)
<1> DEFINE K == PermittedFrom(from)
           n == Len(arrived)
<1>1. /\ arrived \in Seq(Whole) /\ n \in Nat /\ DOMAIN arrived = 1..n
      /\ DOMAIN arrived' = 1..(n + 1)
      /\ \A i \in 1..n : arrived'[i] = arrived[i]
      /\ arrived'[n + 1] = e
  BY AppendProperties, LenProperties DEF TypeOK
<1>2. K \in SUBSET (1..n)
  BY <1>1 DEF PermittedFrom
<1>3. \A i \in 1..(n + 1) : i \in 1..n \/ i = n + 1
  BY <1>1
<1>4. \A i \in 1..n : i # n + 1 /\ i \in 1..(n + 1)
  BY <1>1
<1> HIDE DEF n
<1>5. K' = {i \in 1..(n + 1) : /\ Permitted(arrived'[i].m)
                               /\ arrived'[i].conn = breaks
                               /\ arrived'[i].start >= from}
  BY <1>1 DEF PermittedFrom
<1>6. K = {i \in 1..n : /\ Permitted(arrived[i].m)
                        /\ arrived[i].conn = breaks
                        /\ arrived[i].start >= from}
  BY <1>1 DEF PermittedFrom
<1> HIDE DEF K
<1>7. n + 1 \in 1..(n + 1)
  BY <1>1
<1>8. /\ Keep(Append(arrived, e), K) = Keep(arrived, K)
      /\ Keep(Append(arrived, e), K \cup {Len(arrived) + 1}) = Append(Keep(arrived, K), e)
  <2>1. arrived \in Seq(Whole) /\ K \in SUBSET (1..Len(arrived))
    BY <1>1, <1>2 DEF n
  <2> QED BY <2>1, KeepOfAppend, SMTT(30)
<1>9. CASE Permitted(e.m) /\ e.start >= from
  <2>1. K' = K \cup {n + 1}
    BY <1>1, <1>3, <1>4, <1>5, <1>6, <1>7, <1>9, Zenon
  <2> QED BY <1>9, <1>8, <2>1 DEF Kept, K, n
<1>10. CASE ~(Permitted(e.m) /\ e.start >= from)
  <2>1. K' = K
    BY <1>1, <1>3, <1>4, <1>5, <1>6, <1>7, <1>10, Zenon
  <2> QED BY <1>10, <1>8, <2>1 DEF Kept, K
<1> QED BY <1>9, <1>10
\* Together the invariants hold in every state.
InStep == Measured /\ Wired /\ Framed /\ Ordered

LEMMA AlwaysInStep == Spec => []InStep
<1>1. Init => Wired /\ Framed /\ Ordered
  <2> SUFFICES ASSUME Init PROVE Wired /\ Framed /\ Ordered
    OBVIOUS
  <2>1. Stream = <<>> /\ DOMAIN arrived = {}
    BY DEF Init, Stream
  <2>2. Len(Stream) = 0 /\ Here = 0
    <3>1. written = 0
      BY DEF Init
    <3>2. Len(Stream) = 0
      BY <2>1
    <3>3. Here = 0 - 0
      BY <3>1, <3>2 DEF Here
    <3> QED BY <3>2, <3>3
  <2>3. status.got = 0
    BY DEF Init, Idle
  <2>4. Wired
    BY <2>1, <2>2 DEF Wired, Laid
  <2> QED BY <2>1, <2>3, <2>4 DEF Framed, Synced, Ordered
<1>2. TypeOK /\ InStep /\ [Next]_vars => InStep'
  BY MeasuredStep, WiredStep, FramedStep, OrderedStep DEF InStep
<1>3. Init => InStep
  BY <1>1, InitMeasured DEF InStep
<1> QED BY <1>2, <1>3, TypeCorrect, PTL DEF Spec

\* What is kept changes with the messages that arrived and with the connection only.
LEMMA KeptSame ==
    ASSUME NEW from, UNCHANGED <<arrived, breaks>>
    PROVE  Keep(arrived', PermittedFrom(from)') = Kept(from)
  BY DEF Kept, PermittedFrom

\* CutsDoNotMatter is inductive together with these invariants.
LEMMA CutsStep ==
    ASSUME TypeOK, InStep, CutsDoNotMatter, [Next]_vars
    PROVE  CutsDoNotMatter'
<1>0. breaks \in Nat /\ (breaks' = breaks \/ breaks' = breaks + 1)
  BY DEF Next, VMSends, Break, Read, FilterByte, FilterDone, vars, TypeOK
<1> SUFFICES ASSUME breaks' = 0
             PROVE  Relayed' = Keep(arrived', PermittedFrom(0)')
  BY DEF CutsDoNotMatter
<1>1. breaks = 0 /\ breaks' = breaks /\ Reach = 0
  BY <1>0 DEF Reach
<1>2. Relayed = Kept(0)
  BY <1>1 DEF CutsDoNotMatter, Kept
<1>3. CASE UNCHANGED <<Relayed, arrived>>
  BY <1>1, <1>2, <1>3, KeptSame
<1>4. ASSUME NEW e \in Whole,
             arrived' = Append(arrived, e), e.conn = breaks,
             Relayed' = Append(Relayed, e) \/ Relayed' = Relayed,
             Relayed' = Append(Relayed, e) => Permitted(e.m),
             e.start >= Reach /\ Permitted(e.m) => Relayed' = Append(Relayed, e)
      PROVE  Relayed' = Keep(arrived', PermittedFrom(0)')
  <2>1. e.start \in Nat
    BY <1>4 DEF Whole
  <2>2. e.start >= 0
    BY <2>1
  <2>3. Keep(arrived', PermittedFrom(0)') = IF Permitted(e.m) THEN Append(Kept(0), e) ELSE Kept(0)
    BY <1>1, <1>4, <2>2, KeptStep
  <2> QED BY <1>1, <1>2, <1>4, <2>2, <2>3
<1> QED BY <1>3, <1>4, ReachCases DEF InStep

\* However the reads cut the stream, the filter passes on the permitted
\* messages of a first connection, all of them, once and in order.
THEOREM CutsDoNotMatterHolds == Spec => []CutsDoNotMatter
<1>1. Init => CutsDoNotMatter
  <2> SUFFICES ASSUME Init PROVE Relayed = Keep(arrived, PermittedFrom(0))
    BY DEF CutsDoNotMatter
  <2>1. Relayed = <<>> /\ PermittedFrom(0) = {}
    BY DEF Init, Relayed, PermittedFrom
  <2> QED BY <2>1, KeepNothing
<1> QED BY <1>1, CutsStep, TypeCorrect, AlwaysInStep, PTL DEF Spec

-----------------------------------------------------------------------------
(* Behind a leftover.                                                      *)

\* whole ends in part.
Ends(part, whole) ==
    LET lost == Len(whole) - Len(part)
    IN  lost >= 0 /\ \A i \in DOMAIN part : whole[lost + i] = part[i]

\* Every sequence ends in nothing.
LEMMA EndsInNothing == \A w \in Seq(Whole) : Ends(<<>>, w)
<1> SUFFICES ASSUME NEW w \in Seq(Whole) PROVE Ends(<<>>, w)
  OBVIOUS
<1>1. Len(w) \in Nat /\ Len(<<>>) = 0 /\ DOMAIN <<>> = {}
  BY LenProperties
<1> QED BY <1>1 DEF Ends

\* An element more on both leaves a sequence ending in its part.
LEMMA EndsAppend ==
    ASSUME NEW p \in Seq(Whole), NEW w \in Seq(Whole), NEW e \in Whole, Ends(p, w)
    PROVE  Ends(Append(p, e), Append(w, e))
<1> DEFINE q == Append(p, e)
           v == Append(w, e)
           lost == Len(w) - Len(p)
<1>1. /\ Len(p) \in Nat /\ Len(w) \in Nat /\ DOMAIN p = 1..Len(p)
      /\ DOMAIN q = 1..(Len(p) + 1) /\ Len(q) = Len(p) + 1 /\ Len(v) = Len(w) + 1
      /\ \A i \in 1..Len(p) : q[i] = p[i]
      /\ q[Len(p) + 1] = e
      /\ \A i \in 1..Len(w) : v[i] = w[i]
      /\ v[Len(w) + 1] = e
  BY AppendProperties, LenProperties
<1> HIDE DEF q, v
<1>2. lost >= 0 /\ \A i \in 1..Len(p) : w[lost + i] = p[i]
  BY <1>1 DEF Ends
<1>3. Len(v) - Len(q) = lost /\ lost \in Nat
  BY <1>1, <1>2
<1>4. ASSUME NEW i \in 1..(Len(p) + 1)  PROVE v[lost + i] = q[i]
  <2>1. CASE i = Len(p) + 1
    <3>1. lost + i = Len(w) + 1
      BY <1>1, <2>1
    <3> QED BY <1>1, <2>1, <3>1
  <2>2. CASE i # Len(p) + 1
    <3>1. i \in 1..Len(p) /\ lost + i \in 1..Len(w)
      BY <1>1, <1>3, <2>2
    <3> QED BY <1>1, <1>2, <3>1
  <2> QED BY <2>1, <2>2
<1>5. Ends(q, v)
  BY <1>1, <1>2, <1>3, <1>4 DEF Ends
<1> QED BY <1>5 DEF q, v

\* A false start is behind all that arrived over the connection.
LEMMA AstrayStep ==
    ASSUME TypeOK, InStep, [Next]_vars
    PROVE  \/ Break
           \/ astray' = astray
           \/ /\ astray' \in Nat
              /\ \A i \in DOMAIN arrived' :
                    arrived'[i].conn = breaks' => arrived'[i].start < astray'
<1>1. CASE FilterByte
  <2> DEFINE b == Head(message)
             e == MessageOf(b)
  <2>1. /\ b = Stream[1] /\ Stream # <<>> /\ b \in Byte /\ b.conn = breaks
        /\ b.start + b.k = Here + 1 /\ Here \in Nat
    BY <1>1, HeadFacts DEF InStep
  <2>2. b.start \in Nat /\ b.k \in Nat \ {0} /\ e.start = b.start /\ e \in Whole
    BY <1>1, <2>1, ByteEffect DEF Byte, MessageOf, InStep
  <2>3. /\ breaks' = breaks
        /\ arrived' = IF b.k = Length[b.m] THEN Append(arrived, e) ELSE arrived
        /\ astray' = IF b.k # 1 /\ status' = Started(b) THEN b.start + b.k ELSE astray
    BY <1>1 DEF FilterByte, Reached
  <2>4. ASSUME NEW i \in DOMAIN arrived, arrived[i].conn = breaks
        PROVE  arrived[i].start <= b.start /\ arrived[i].start \in Nat
    <3>1. arrived[i] \in Whole
      BY LenProperties DEF TypeOK
    <3> QED BY <2>1, <2>4, <3>1 DEF InStep, Ordered, Whole
  <2>5. /\ arrived \in Seq(Whole) /\ DOMAIN arrived = 1..Len(arrived)
        /\ DOMAIN Append(arrived, e) = 1..(Len(arrived) + 1) /\ Len(arrived) \in Nat
        /\ \A i \in 1..Len(arrived) : Append(arrived, e)[i] = arrived[i]
        /\ Append(arrived, e)[Len(arrived) + 1] = e
    BY <2>2, AppendProperties, LenProperties DEF TypeOK
  <2> HIDE DEF b, e
  <2>6. ASSUME NEW i \in DOMAIN arrived', arrived'[i].conn = breaks
        PROVE  arrived'[i].start < b.start + b.k
    <3>1. CASE arrived' = arrived
      BY <2>2, <2>4, <2>6, <3>1
    <3>2. CASE arrived' = Append(arrived, e) /\ i \in 1..Len(arrived)
      BY <2>2, <2>4, <2>5, <2>6, <3>2
    <3>3. CASE arrived' = Append(arrived, e) /\ i = Len(arrived) + 1
      BY <2>2, <2>5, <3>3
    <3>4. arrived' = arrived \/ arrived' = Append(arrived, e)
      BY <2>3
    <3>5. arrived' = Append(arrived, e) => i \in 1..Len(arrived) \/ i = Len(arrived) + 1
      BY <2>5, <2>6
    <3> QED BY <3>1, <3>2, <3>3, <3>4, <3>5
  <2> QED BY <2>2, <2>3, <2>6
<1> QED BY <1>1 DEF Next, VMSends, Read, FilterDone, vars

\* Behind a place beyond reach nothing is lost, as long as the connection is
\* the same.  A message that began within reach may still be passed on, but
\* then none beyond has arrived.
LEMMA BeyondStep ==
    ASSUME TypeOK, InStep, NEW from \in Int, Ends(Kept(from), Relayed),
           \A n \in Nat : n >= from => n >= Reach,
           [Next]_vars, breaks' = breaks
    PROVE  Ends(Keep(arrived', PermittedFrom(from)'), Relayed')
<1>0. /\ arrived \in Seq(Whole) /\ Len(arrived) \in Nat /\ DOMAIN arrived = 1..Len(arrived)
      /\ Relayed \in Seq(Whole) /\ Relayed' \in Seq(Whole)
      /\ Reach \in Int
  <2>1. TypeOK'
    BY TypeStep
  <2>2. Relayed' \in Seq(Whole)
    BY <2>1, ConcatProperties DEF TypeOK, Relayed
  <2> QED BY <2>2, RelayedType, LenProperties, StreamAssumption DEF TypeOK, Reach
<1>1. Kept(from) \in Seq(Whole)
  <2>1. PermittedFrom(from) \in SUBSET (1..Len(arrived))
    BY <1>0 DEF PermittedFrom
  <2> QED BY <1>0, <2>1, KeepElements DEF Kept
<1>2. CASE UNCHANGED <<Relayed, arrived>>
  BY <1>2, KeptSame
<1>3. ASSUME NEW e \in Whole,
             arrived' = Append(arrived, e), e.conn = breaks,
             Relayed' = Append(Relayed, e) \/ Relayed' = Relayed,
             Relayed' = Append(Relayed, e) => Permitted(e.m),
             e.start >= Reach /\ Permitted(e.m) => Relayed' = Append(Relayed, e),
             \A i \in DOMAIN arrived : arrived[i].conn = breaks => arrived[i].start <= e.start
      PROVE  Ends(Keep(arrived', PermittedFrom(from)'), Relayed')
  <2>0. e.start \in Nat
    BY <1>3 DEF Whole
  <2>1. Keep(arrived', PermittedFrom(from)') =
           IF Permitted(e.m) /\ e.start >= from THEN Append(Kept(from), e) ELSE Kept(from)
    BY <1>3, KeptStep
  <2>2. CASE Permitted(e.m) /\ e.start >= from
    <3>1. e.start >= Reach
      BY <1>0, <2>0, <2>2
    <3>2. Relayed' = Append(Relayed, e)
      BY <1>3, <2>2, <3>1
    <3> QED BY <1>0, <1>1, <2>1, <2>2, <3>2, EndsAppend
  <2>3. CASE ~(Permitted(e.m) /\ e.start >= from) /\ Relayed' = Relayed
    BY <2>1, <2>3
  <2>4. CASE ~(e.start >= from)
    <3>1. \A i \in DOMAIN arrived : arrived[i].start \in Nat
      <4>1. \A i \in DOMAIN arrived : arrived[i] \in Whole
        BY <1>0
      <4> QED BY <4>1 DEF Whole
    <3>2. PermittedFrom(from) = {}
      BY <1>0, <1>3, <2>0, <2>4, <3>1 DEF PermittedFrom
    <3>3. Kept(from) = <<>>
      BY <3>2, KeepNothing DEF Kept
    <3> QED BY <1>0, <2>1, <2>4, <3>3, EndsInNothing
  <2> QED BY <1>3, <2>2, <2>3, <2>4
<1> QED BY <1>2, <1>3, ReachCases DEF InStep

\* Resynchronises is inductive together with these invariants.
LEMMA ResynchronisesStep ==
    ASSUME TypeOK, InStep, Resynchronises, [Next]_vars
    PROVE  Resynchronises'
<1>0. /\ arrived \in Seq(Whole) /\ DOMAIN arrived = 1..Len(arrived)
      /\ breaks \in Nat /\ astray \in Nat /\ MaxLength \in Nat /\ TypeOK'
  BY TypeStep, LenProperties, StreamAssumption DEF TypeOK
<1>1. Relayed' \in Seq(Whole)
  BY <1>0, ConcatProperties DEF TypeOK, Relayed
<1> SUFFICES Ends(Keep(arrived', PermittedFrom(astray + MaxLength - 1)'), Relayed')
  BY DEF Resynchronises, Ends
<1>2. CASE Break
  <2>1. breaks' = breaks + 1 /\ arrived' = arrived
    BY <1>2 DEF Break
  <2>2. \A i \in DOMAIN arrived : arrived[i].conn <= breaks /\ arrived[i].conn \in Nat
    <3>1. \A i \in DOMAIN arrived : arrived[i] \in Whole
      BY <1>0
    <3> QED BY <3>1 DEF InStep, Ordered, Whole
  <2>3. PermittedFrom(astray + MaxLength - 1)' = {}
    BY <1>0, <2>1, <2>2 DEF PermittedFrom
  <2> QED BY <1>1, <2>3, KeepNothing, EndsInNothing
<1>3. CASE astray' = astray /\ breaks' = breaks
  <2>1. PICK from \in Int : from = astray + MaxLength - 1
    BY <1>0
  <2>2. \A n \in Nat : n >= from => n >= Reach
    BY <1>0, <2>1 DEF Reach
  <2>3. Ends(Kept(from), Relayed)
    BY <2>1 DEF Resynchronises, Ends, Kept
  <2>4. Ends(Keep(arrived', PermittedFrom(from)'), Relayed')
    BY <1>3, <2>2, <2>3, BeyondStep
  <2>5. PermittedFrom(astray + MaxLength - 1)' = PermittedFrom(from)'
    BY <1>3, <2>1 DEF PermittedFrom
  <2> QED BY <2>4, <2>5
<1>4. CASE /\ astray' \in Nat
           /\ \A i \in DOMAIN arrived' :
                 arrived'[i].conn = breaks' => arrived'[i].start < astray'
  <2>1. \A i \in DOMAIN arrived' : arrived'[i] \in Whole
    BY <1>0, LenProperties DEF TypeOK
  <2>2. \A i \in DOMAIN arrived' :
           arrived'[i].conn = breaks' => ~(arrived'[i].start >= astray' + MaxLength - 1)
    <3> SUFFICES ASSUME NEW i \in DOMAIN arrived', arrived'[i].conn = breaks'
                 PROVE  ~(arrived'[i].start >= astray' + MaxLength - 1)
      OBVIOUS
    <3>1. arrived'[i].start \in Nat /\ arrived'[i].m \in Messages
      BY <2>1 DEF Whole
    <3>2. MaxLength >= 3
      BY <1>0, <3>1, LengthType
    <3> QED BY <1>0, <1>4, <3>1, <3>2
  <2>3. PermittedFrom(astray + MaxLength - 1)' = {}
    BY <2>2 DEF PermittedFrom
  <2> QED BY <1>1, <2>3, KeepNothing, EndsInNothing
<1>5. breaks' = breaks \/ Break
  BY DEF Next, VMSends, Read, FilterByte, FilterDone, vars
<1> QED BY <1>2, <1>3, <1>4, <1>5, AstrayStep

\* After a broken connection the parser's leftover, or its last false start,
\* costs at most the messages that begin within the longest message behind it.
THEOREM ResynchronisesHolds == Spec => []Resynchronises
<1>1. TypeOK /\ Init => Resynchronises
  <2> SUFFICES ASSUME TypeOK, Init
               PROVE  Ends(Keep(arrived, PermittedFrom(astray + MaxLength - 1)), Relayed)
    BY DEF Resynchronises, Ends
  <2>1. PermittedFrom(astray + MaxLength - 1) = {}
    BY DEF Init, PermittedFrom
  <2> QED BY <2>1, KeepNothing, EndsInNothing, RelayedType
<1> QED BY <1>1, ResynchronisesStep, TypeCorrect, AlwaysInStep, PTL DEF Spec
=============================================================================
