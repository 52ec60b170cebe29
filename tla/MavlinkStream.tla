---------------------------- MODULE MavlinkStream ----------------------------
(***************************************************************************)
(* filter_mavlink_message over a byte stream.  A connection delivers bytes *)
(* in reads that respect no message boundary, and the parser (msg, status, *)
(* chan) is global: it outlives every read and every connection.           *)
(*                                                                         *)
(* A byte is a record: the message m it belongs to, its place k in it, the *)
(* connection and the place in its stream where the message starts.  Byte  *)
(* 1 is the start marker, byte 2 gives the length, and the last byte       *)
(* completes the checksum.  Any other byte may equal the start marker: a   *)
(* parser that is outside a message may take it for one, a false start.    *)
(* Bytes that are not those of one message from its start marker on never  *)
(* have a right checksum.                                                  *)
(***************************************************************************)
EXTENDS MavlinkFilter, Subsequence

CONSTANTS
    Messages,       \* the messages a VM may send
    Length,         \* their length in bytes, a function on Messages
    MaxLength,      \* MAVLINK_MAX_PACKET_LEN
    MTU,            \* the size of buf and ret_buf
    MaxMessages,    \* bound: messages sent over all connections
    MaxBreaks       \* bound: connections that end

\* What a length byte may stand for.
Lengths == 3..MaxLength

ASSUME StreamAssumption ==
    /\ MaxLength \in Nat
    /\ Length \in [Messages -> Lengths]
    /\ MTU \in Nat \ {0}
    /\ MaxMessages \in Nat
    /\ MaxBreaks \in Nat

VARIABLES
    sent,       \* messages sent
    written,    \* bytes sent over this connection
    transit,    \* bytes sent and not read
    breaks,     \* connections that ended
    status,     \* the parser: bytes of a message so far, and what they are
    message,    \* buf: the bytes of this read the loop has not reached
    nread,      \* bytes of this read, and those the parser held before it
    ret_buf,    \* messages appended in this call
    ret_len,    \* their length in bytes
    out,        \* messages written towards PX4
    arrived,    \* history: messages whose last byte the loop has reached
    astray      \* history: bytes of this connection up to its last false start

vars == <<sent, written, transit, breaks, status, message, nread, ret_buf, ret_len,
          out, arrived, astray>>

Bytes(m) ==
    [k \in 1..Length[m] |-> [m |-> m, k |-> k, conn |-> breaks, start |-> written]]

\* The message a byte belongs to, as one of all that were sent.
MessageOf(b) == [m |-> b.m, conn |-> b.conn, start |-> b.start]

\* clean: the bytes so far are the first ones of the message first belongs
\* to; len is known from the second byte on.
Idle == [got |-> 0]
Started(b) == [got |-> 1, len |-> 0, first |-> b, clean |-> b.k = 1]

Init ==
    /\ sent = <<>>
    /\ written = 0
    /\ transit = <<>>
    /\ breaks = 0
    /\ status = Idle
    /\ message = <<>>
    /\ nread = [now |-> 0, carried |-> 0]
    /\ ret_buf = <<>>
    /\ ret_len = 0
    /\ out = <<>>
    /\ arrived = <<>>
    /\ astray = 0

-----------------------------------------------------------------------------
VMSends(m) ==
    /\ Len(sent) < MaxMessages
    /\ sent' = Append(sent, m)
    /\ written' = written + Length[m]
    /\ transit' = transit \o Bytes(m)
    /\ UNCHANGED <<breaks, status, message, nread, ret_buf, ret_len, out, arrived, astray>>

\* The VM's connection ends between two reads: bytes not read are gone, the
\* rest of a message is never sent.
Break ==
    /\ breaks < MaxBreaks
    /\ nread.now = 0
    /\ breaks' = breaks + 1
    /\ written' = 0
    /\ transit' = <<>>
    /\ astray' = 0
    /\ UNCHANGED <<sent, status, message, nread, ret_buf, ret_len, out, arrived>>

\* Variant of Read whose parser state is local to the call.
ReadWithFreshParser ==
    /\ nread.now = 0
    /\ \E n \in 1..Len(transit) :
          /\ n <= MTU
          /\ message' = SubSeq(transit, 1, n)
          /\ transit' = SubSeq(transit, n + 1, Len(transit))
          /\ nread' = [now |-> n, carried |-> 0]
    /\ status' = Idle
    /\ UNCHANGED <<sent, written, breaks, ret_buf, ret_len, out, arrived, astray>>

\* OS_Socket_read: any number of the bytes that arrived, at most MTU.
Read ==
    /\ nread.now = 0
    /\ \E n \in 1..Len(transit) :
          /\ n <= MTU
          /\ message' = SubSeq(transit, 1, n)
          /\ transit' = SubSeq(transit, n + 1, Len(transit))
          /\ nread' = [now |-> n, carried |-> status.got]
    /\ UNCHANGED <<sent, written, breaks, status, ret_buf, ret_len, out, arrived, astray>>

\* A start marker begins a message, another byte does if it looks like one
\* and is skipped if it does not.
Restart(b) == IF b.k = 1 THEN {Started(b)} ELSE {Started(b), Idle}

\* The status after a byte that does not end a message.
Collect(b, len) ==
    [status EXCEPT !.got = @ + 1, !.len = len,
                   !.clean = @ /\ b.m = status.first.m /\ b.conn = status.first.conn
                               /\ b.k = status.got + 1]

\* mavlink_parse_char returns 0: outside a message, inside one, or at the
\* end of one whose checksum is wrong.  A byte that is read as a length and
\* is none may stand for any length.
ParseMore(b) ==
    \/ status.got = 0 /\ status' \in Restart(b)
    \/ status.got = 1 /\ \E len \in IF b.k = 2 THEN {Length[b.m]} ELSE Lengths :
                            status' = Collect(b, len)
    \/ status.got > 1 /\ status.got + 1 < status.len /\ status' = Collect(b, status.len)
    \/ /\ status.got > 1 /\ status.got + 1 = status.len
       /\ ~Collect(b, status.len).clean
       /\ status' \in Restart(b)

\* mavlink_parse_char returns 1: b completes the message.
Completes(b) ==
    status.got > 1 /\ status.got + 1 = status.len /\ Collect(b, status.len).clean

\* The last packet appended to ret_buf ended behind its MTU bytes: nothing
\* checks that.  What the code does then is undefined, and the model follows
\* it no further.
Overrun == ret_len > MTU

\* The packet is appended to ret_buf, or dropped.
Handle(b) ==
    IF handle_mavlink_package(b.m)
    THEN ret_buf' = Append(ret_buf, MessageOf(b)) /\ ret_len' = ret_len + Length[b.m]
    ELSE UNCHANGED <<ret_buf, ret_len>>

Reached(b) ==
    /\ arrived' = IF b.k = Length[b.m] THEN Append(arrived, MessageOf(b)) ELSE arrived
    /\ astray' = IF b.k # 1 /\ status' = Started(b) THEN b.start + b.k ELSE astray

\* Variant of FilterByte that takes any result but "incomplete" for a message,
\* the one for a wrong checksum included.
FilterTakesBadChecksum ==
    /\ message # <<>>
    /\ ~Overrun
    /\ LET b == Head(message)
       IN  IF status.got > 1 /\ status.got + 1 = status.len
           THEN status' = Idle /\ Handle(b)
           ELSE ParseMore(b) /\ UNCHANGED <<ret_buf, ret_len>>
    /\ message' = Tail(message)
    /\ Reached(Head(message))
    /\ UNCHANGED <<sent, written, transit, breaks, nread, out>>

\* Variant of FilterByte that leaves the loop at a message it drops.
FilterStopsAtDrop ==
    /\ message # <<>>
    /\ ~Overrun
    /\ LET b == Head(message)
       IN  /\ IF Completes(b)
              THEN /\ status' = Idle
                   /\ Handle(b)
                   /\ message' = IF handle_mavlink_package(b.m) THEN Tail(message) ELSE <<>>
              ELSE /\ ParseMore(b)
                   /\ message' = Tail(message)
                   /\ UNCHANGED <<ret_buf, ret_len>>
           /\ Reached(b)
    /\ UNCHANGED <<sent, written, transit, breaks, nread, out>>

\* One iteration of filter_mavlink_message.
FilterByte ==
    /\ message # <<>>
    /\ ~Overrun
    /\ LET b == Head(message)
       IN  IF Completes(b)
           THEN status' = Idle /\ Handle(b)
           ELSE ParseMore(b) /\ UNCHANGED <<ret_buf, ret_len>>
    /\ message' = Tail(message)
    /\ Reached(Head(message))
    /\ UNCHANGED <<sent, written, transit, breaks, nread, out>>

\* Variant of FilterDone whose caller does not reset ret_len.
FilterKeepsReturned ==
    /\ nread.now > 0
    /\ message = <<>>
    /\ ~Overrun
    /\ out' = out \o ret_buf
    /\ nread' = [now |-> 0, carried |-> 0]
    /\ UNCHANGED <<sent, written, transit, breaks, status, message, ret_buf, ret_len, arrived, astray>>

FilterDone ==
    /\ nread.now > 0
    /\ message = <<>>
    /\ ~Overrun
    /\ out' = out \o ret_buf
    /\ ret_buf' = <<>>
    /\ ret_len' = 0
    /\ nread' = [now |-> 0, carried |-> 0]
    /\ UNCHANGED <<sent, written, transit, breaks, status, message, arrived, astray>>

Next ==
    \/ \E m \in Messages : VMSends(m)
    \/ Break
    \/ Read
    \/ FilterByte
    \/ FilterDone

Spec == Init /\ [][Next]_vars

-----------------------------------------------------------------------------
(* Properties                                                              *)

Relayed == out \o ret_buf

\* The indices of the permitted messages of the last connection that start
\* at a place or behind it.
PermittedFrom(start) ==
    {i \in DOMAIN arrived : /\ Permitted(arrived[i].m)
                            /\ arrived[i].conn = breaks
                            /\ arrived[i].start >= start}

\* However the reads cut the stream, the filter passes on the permitted
\* messages of a first connection, all of them, once and in order, as soon
\* as their last byte is read (mavlink_filter.c:153-166).
CutsDoNotMatter == breaks = 0 => Relayed = Keep(arrived, PermittedFrom(0))

\* A connection that ends in the middle of a message makes no message out of
\* its rest and the next stream: what is passed on are permitted messages
\* that arrived whole, in order and once each.
NothingSpliced ==
    /\ \A i \in DOMAIN Relayed : Permitted(Relayed[i].m)
    /\ InOrder(Relayed, arrived)

\* After a broken connection the parser may start falsely, any number of
\* times.  Its leftover, or the last false start, costs at most the messages
\* that begin within the longest message behind it: later ones all pass
\* (mavlink_filter.c:155-160, the parser is global).
Resynchronises ==
    LET beyond == Keep(arrived, PermittedFrom(astray + MaxLength - 1))
        lost   == Len(Relayed) - Len(beyond)
    IN  lost >= 0 /\ \A i \in DOMAIN beyond : Relayed[lost + i] = beyond[i]

\* A call writes past the MTU bytes of ret_buf by at most the bytes the parser
\* carried over from earlier reads, and not at all if it carried none
\* (SerialFilter.c:263-279, mavlink_filter.c:149-150).
OverrunWithinCarried == ret_len <= MTU + nread.carried
=============================================================================
