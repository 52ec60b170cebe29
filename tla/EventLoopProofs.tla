--------------------------- MODULE EventLoopProofs ---------------------------
(***************************************************************************)
(* What the two components have in common: the socket API, the helper that *)
(* sets up sockets and the frame of the callbacks keep their types, and    *)
(* the frame excludes one callback while the other handles an event.       *)
(***************************************************************************)
EXTENDS EventLoop, SequenceTheorems, TLAPS

-----------------------------------------------------------------------------
(* The API calls keep the type of the stacks' state.                       *)

\* A new entry of a socket table has no events, no data and no queue.
LEMMA FreshType == \A st \in SocketStates : Fresh(st) \in SocketRecord
<1>1. <<>> \in Seq(Frame) /\ {} \in SUBSET EventBits /\ 0 \in Nat /\ "free" \in SocketStates
  BY EmptySeq DEF SocketStates
<1>2. FreeSocket \in SocketRecord
  BY <1>1, Zenon DEF FreeSocket, SocketRecord
<1> QED BY <1>2 DEF Fresh, SocketRecord

\* OS_Socket_create hands out a handle of the table, or changes nothing.
LEMMA CreateType ==
    ASSUME NetTypeOK, NEW s \in Stacks, NEW h, NEW ok \in BOOLEAN, OS_Socket_create(s, h, ok)
    PROVE  NetTypeOK'
<1>1. Fresh("created") \in SocketRecord
  BY FreshType DEF SocketStates
<1>2. sk' \in [Sockets -> SocketRecord]
  BY <1>1 DEF NetTypeOK, OS_Socket_create, FreeHandles, Sockets
<1> QED BY <1>2 DEF NetTypeOK, OS_Socket_create

\* Registering a callback, successful or not, keeps the types.
LEMMA RegCallbackType ==
    ASSUME NetTypeOK, NEW s \in Stacks, NEW ok \in BOOLEAN, OS_Socket_regCallback(s, ok)
    PROVE  NetTypeOK'
  BY DEF NetTypeOK, OS_Socket_regCallback

\* bind, listen and connect move an entry between states of the table.
LEMMA SocketCallType ==
    ASSUME NetTypeOK, NEW s \in Stacks, NEW call, NEW h, NEW from, NEW to \in SocketStates,
           NEW ok \in BOOLEAN, SocketCall(call, s, h, from, to, ok)
    PROVE  NetTypeOK'
<1>1. UNCHANGED <<nw, armed, signal, wire, conns, sent>>
  BY DEF SocketCall
<1>2. sk' \in [Sockets -> SocketRecord]
  <2>1. CASE sk' = sk
    BY <2>1 DEF NetTypeOK
  <2>2. CASE h \in Handles /\ sk' = [sk EXCEPT ![<<s, h>>].st = to]
    <3>1. <<s, h>> \in Sockets
      BY <2>2 DEF Sockets
    <3>2. [sk[<<s, h>>] EXCEPT !.st = to] \in SocketRecord
      BY <3>1 DEF NetTypeOK, SocketRecord
    <3> QED BY <2>2, <3>1, <3>2 DEF NetTypeOK
  <2> QED BY <2>1, <2>2 DEF SocketCall, IsIn
<1> QED BY <1>1, <1>2 DEF NetTypeOK

\* OS_Socket_close frees an entry or changes nothing.
LEMMA CloseType ==
    ASSUME NetTypeOK, NEW s \in Stacks, NEW h, NEW ok \in BOOLEAN, OS_Socket_close(s, h, ok)
    PROVE  NetTypeOK'
  BY DEF NetTypeOK, OS_Socket_close, InUse, FreeSocket, SocketRecord, SocketStates, Sockets

\* accept takes a connection off a queue that is not empty: q stays a natural.
LEMMA AcceptType ==
    ASSUME NetTypeOK, NEW s \in Stacks, NEW l, NEW h, OS_Socket_accept(s, l, h)
    PROVE  NetTypeOK'
<1>1. l \in Handles /\ h \in Handles /\ l # h
  BY DEF OS_Socket_accept, IsIn, FreeHandles
<1>2. sk[<<s, l>>] \in SocketRecord /\ sk[<<s, l>>].q > 0
  BY <1>1 DEF NetTypeOK, Sockets, OS_Socket_accept
<1>3. Fresh("open") \in SocketRecord
  BY FreshType DEF SocketStates
<1>4. PICK ev \in SUBSET EventBits :
        sk' = [sk EXCEPT ![<<s, h>>] = Fresh("open"),
                         ![<<s, l>>] = [sk[<<s, l>>] EXCEPT !.q = @ - 1, !.ev = ev]]
  <2> DEFINE ev == IF sk[<<s, l>>].q > 1 THEN sk[<<s, l>>].ev \cup {"CONN_ACPT"}
                                         ELSE sk[<<s, l>>].ev
  <2>1. ev \in SUBSET EventBits
    BY <1>2 DEF SocketRecord, EventBits
  <2> QED BY <2>1, <1>1, <1>2 DEF OS_Socket_accept, NetTypeOK, Sockets
<1>5. [sk[<<s, l>>] EXCEPT !.q = @ - 1, !.ev = ev] \in SocketRecord
  <2>1. sk[<<s, l>>].q - 1 \in Nat
    BY <1>2 DEF SocketRecord
  <2> QED BY <1>2, <1>4, <2>1 DEF SocketRecord
<1>6. sk' \in [Sockets -> SocketRecord]
  BY <1>1, <1>3, <1>4, <1>5 DEF NetTypeOK, Sockets
<1>7. signal' \in [Stacks -> BOOLEAN]
  BY <1>2 DEF OS_Socket_accept, NetTypeOK, SocketRecord
<1> QED BY <1>6, <1>7 DEF NetTypeOK, OS_Socket_accept

\* What a read hands over are frames that peers have sent.
LEMMA ArrivedType ==
    ASSUME NetTypeOK, NEW s \in Stacks, NEW h, Readable(s, h)
    PROVE  /\ ReadLen(s, h) \in 1..Len(sk[<<s, h>>].in)
           /\ ReadLen(s, h) <= MTU
           /\ Arrived(s, h) \in Seq(Frame)
           /\ Len(Arrived(s, h)) = ReadLen(s, h)
<1>1. sk[<<s, h>>].in \in Seq(Frame) /\ sk[<<s, h>>].in # <<>>
  BY DEF NetTypeOK, Readable, Sockets, SocketRecord
<1>2. ReadLen(s, h) \in 1..Len(sk[<<s, h>>].in) /\ ReadLen(s, h) <= MTU
  BY <1>1, NetAssumption DEF ReadLen
<1> QED BY <1>1, <1>2, SubSeqProperties DEF Arrived

\* A read leaves frames behind, and an entry of the table.
LEMMA ReadType ==
    ASSUME NetTypeOK, NEW s \in Stacks, NEW h, OS_Socket_read(s, h)
    PROVE  NetTypeOK'
<1>1. h \in Handles /\ Readable(s, h)
  BY DEF OS_Socket_read, Readable
<1> DEFINE in   == sk[<<s, h>>].in
           rest == SubSeq(in, ReadLen(s, h) + 1, Len(in))
<1>2. sk[<<s, h>>] \in SocketRecord
  BY <1>1 DEF NetTypeOK, Sockets
<1>3. rest \in Seq(Frame)
  <2>1. in \in Seq(Frame) /\ Len(in) \in Nat
    BY <1>2, LenProperties DEF SocketRecord
  <2>2. ReadLen(s, h) \in 1..Len(in)
    BY <1>1, ArrivedType
  <2> HIDE DEF in
  <2> QED BY <2>1, <2>2
<1>4. PICK ev \in SUBSET EventBits :
        sk' = [sk EXCEPT ![<<s, h>>] = [sk[<<s, h>>] EXCEPT !.in = rest, !.ev = ev]]
  <2> DEFINE ev == IF rest # <<>> THEN sk[<<s, h>>].ev \cup {"READ"} ELSE sk[<<s, h>>].ev
  <2>1. ev \in SUBSET EventBits
    BY <1>2 DEF SocketRecord, EventBits
  <2> HIDE DEF rest
  <2>2. sk' = [sk EXCEPT ![<<s, h>>] = [sk[<<s, h>>] EXCEPT !.in = rest, !.ev = ev]]
    BY <1>1, <1>2 DEF OS_Socket_read, NetTypeOK, Sockets, rest
  <2> QED BY <2>1, <2>2
<1> HIDE DEF rest
<1>5. [sk[<<s, h>>] EXCEPT !.in = rest, !.ev = ev] \in SocketRecord
  BY <1>2, <1>3 DEF SocketRecord
<1>6. sk' \in [Sockets -> SocketRecord]
  BY <1>1, <1>4, <1>5 DEF NetTypeOK, Sockets
<1>7. signal' \in [Stacks -> BOOLEAN]
  BY DEF OS_Socket_read, NetTypeOK
<1> QED BY <1>6, <1>7 DEF NetTypeOK, OS_Socket_read

\* A write, whole or cut, extends a wire by part of its data.
LEMMA WriteType ==
    ASSUME NetTypeOK, NEW s \in Stacks, NEW h, NEW data \in Seq(Frame \cup {Pad}),
           NEW ok \in BOOLEAN, OS_Socket_write(s, h, data, ok)
    PROVE  NetTypeOK'
<1>1. wire[s] \in Seq(Frame \cup {Pad})
  BY DEF NetTypeOK
<1>2. \A n \in 1..(Len(data) - 1) : SubSeq(data, 1, n) \in Seq(Frame \cup {Pad})
  BY SubSeqProperties
<1>3. PICK sentence \in Seq(Frame \cup {Pad}) :
        wire' = wire \/ wire' = [wire EXCEPT ![s] = @ \o sentence]
  BY <1>2 DEF OS_Socket_write
<1>4. wire[s] \o sentence \in Seq(Frame \cup {Pad})
  BY <1>1, <1>3, ConcatProperties
<1>5. wire' \in [Stacks -> Seq(Frame \cup {Pad})]
  BY <1>3, <1>4 DEF NetTypeOK
<1> QED BY <1>5 DEF NetTypeOK, OS_Socket_write

\* The report clears the events of one stack and nothing else.
LEMMA PendingEventsType ==
    ASSUME NetTypeOK, NEW s \in Stacks, OS_Socket_getPendingEvents(s)
    PROVE  NetTypeOK'
  BY DEF NetTypeOK, OS_Socket_getPendingEvents, SocketRecord

\* Neither the boot of a stack nor a peer leaves the types.
LEMMA EnvironmentType ==
    ASSUME NetTypeOK, (\E s \in Stacks : StackBoot(s)) \/ PeerStep
    PROVE  NetTypeOK'
<1>1. ASSUME NEW s \in Stacks, StackBoot(s)  PROVE NetTypeOK'
  BY <1>1 DEF StackBoot, NetTypeOK
<1>2. ASSUME NEW s \in Stacks, NEW h \in Handles, NEW r \in SocketRecord,
             sk' = [sk EXCEPT ![<<s, h>>] = r]
      PROVE  sk' \in [Sockets -> SocketRecord]
  BY <1>2 DEF NetTypeOK, Sockets
<1>3. \A s \in Stacks, h \in Handles : sk[<<s, h>>] \in SocketRecord
  BY DEF NetTypeOK, Sockets
<1>4. ASSUME NEW s \in Stacks, NEW h \in Handles, PeerConnect(s, h)  PROVE NetTypeOK'
  <2>1. [sk[<<s, h>>] EXCEPT !.q = @ + 1, !.ev = @ \cup {"CONN_ACPT"}] \in SocketRecord
    <3>1. sk[<<s, h>>].q + 1 \in Nat
      BY <1>3 DEF SocketRecord
    <3>2. sk[<<s, h>>].ev \cup {"CONN_ACPT"} \in SUBSET EventBits
      BY <1>3 DEF SocketRecord, EventBits
    <3> QED BY <1>3, <3>1, <3>2 DEF SocketRecord
  <2>2. sk' = [sk EXCEPT ![<<s, h>>] = [sk[<<s, h>>] EXCEPT !.q = @ + 1, !.ev = @ \cup {"CONN_ACPT"}]]
    BY <1>4 DEF PeerConnect, NetTypeOK, Sockets
  <2>3. conns' \in [Stacks -> Nat]
    BY <1>4 DEF PeerConnect, NetTypeOK
  <2> QED BY <1>2, <1>4, <2>1, <2>2, <2>3 DEF PeerConnect, Notify, NetTypeOK
<1>5. ASSUME NEW s \in Stacks, NEW h \in Handles, PeerGivesUp(s, h)  PROVE NetTypeOK'
  <2>1. sk[<<s, h>>].q - 1 \in Nat
    BY <1>3, <1>5 DEF PeerGivesUp, SocketRecord
  <2>2. [sk[<<s, h>>] EXCEPT !.q = @ - 1] \in SocketRecord
    BY <1>3, <2>1 DEF SocketRecord
  <2> QED BY <1>2, <1>5, <2>2 DEF PeerGivesUp, NetTypeOK
<1>6. ASSUME NEW s \in Stacks, NEW h \in Handles, PeerAnswer(s, h)  PROVE NetTypeOK'
  <2>1. /\ [sk[<<s, h>>] EXCEPT !.st = "open", !.ev = @ \cup {"CONN_EST"}] \in SocketRecord
        /\ [sk[<<s, h>>] EXCEPT !.st = "down", !.ev = @ \cup {"ERROR"}] \in SocketRecord
    BY <1>3 DEF SocketRecord, SocketStates, EventBits
  <2>2. \/ sk' = [sk EXCEPT ![<<s, h>>] = [sk[<<s, h>>] EXCEPT !.st = "open", !.ev = @ \cup {"CONN_EST"}]]
        \/ sk' = [sk EXCEPT ![<<s, h>>] = [sk[<<s, h>>] EXCEPT !.st = "down", !.ev = @ \cup {"ERROR"}]]
    BY <1>6 DEF PeerAnswer, NetTypeOK, Sockets
  <2> QED BY <1>2, <1>6, <2>1, <2>2 DEF PeerAnswer, Notify, NetTypeOK
<1>7. ASSUME NEW s \in Stacks, NEW h \in Handles, NEW f \in Frames[s], PeerSend(s, h, f)
      PROVE  NetTypeOK'
  <2>1. f \in Frame
    BY DEF Frame, Stacks
  <2>2. sk[<<s, h>>].in \in Seq(Frame) /\ sent[s] \in Seq(Frame)
    BY <1>3 DEF SocketRecord, NetTypeOK
  <2>3. Append(sk[<<s, h>>].in, f) \in Seq(Frame) /\ Append(sent[s], f) \in Seq(Frame)
    BY <2>1, <2>2, AppendProperties
  <2>4. [sk[<<s, h>>] EXCEPT !.in = Append(@, f), !.ev = @ \cup {"READ"}] \in SocketRecord
    BY <1>3, <2>3 DEF SocketRecord, EventBits
  <2>5. sk' = [sk EXCEPT ![<<s, h>>] =
                  [sk[<<s, h>>] EXCEPT !.in = Append(@, f), !.ev = @ \cup {"READ"}]]
    BY <1>7 DEF PeerSend, NetTypeOK, Sockets
  <2>6. sent' \in [Stacks -> Seq(Frame)]
    BY <1>7, <2>3 DEF PeerSend, NetTypeOK
  <2> QED BY <1>2, <1>7, <2>4, <2>5, <2>6 DEF PeerSend, Notify, NetTypeOK
<1>8. ASSUME NEW s \in Stacks, NEW h \in Handles, PeerClose(s, h)  PROVE NetTypeOK'
  <2>1. [sk[<<s, h>>] EXCEPT !.st = "down", !.ev = @ \cup {"FIN"}] \in SocketRecord
    BY <1>3 DEF SocketRecord, SocketStates, EventBits
  <2>2. sk' = [sk EXCEPT ![<<s, h>>] = [sk[<<s, h>>] EXCEPT !.st = "down", !.ev = @ \cup {"FIN"}]]
    BY <1>8 DEF PeerClose, NetTypeOK, Sockets
  <2> QED BY <1>2, <1>8, <2>1, <2>2 DEF PeerClose, Notify, NetTypeOK
<1> QED BY <1>1, <1>4, <1>5, <1>6, <1>7, <1>8 DEF PeerStep

-----------------------------------------------------------------------------
(* The helper and the frame of the callbacks, whatever the labels of the   *)
(* component that uses them.                                               *)

\* Steps that touch nothing but pc.
LEMMA GotoType ==
    ASSUME NEW labels, HelperTypeOK(labels), NEW t \in Threads, NEW label \in labels,
           Goto(t, label)
    PROVE  pc' \in [Threads -> labels]
  BY DEF HelperTypeOK, Goto

\* The initialisation sequences of socket_helper keep every type.
LEMMA InitStepType ==
    ASSUME NEW labels, InitLabels \subseteq labels, NetTypeOK, HelperTypeOK(labels),
           NEW t \in Threads, InitStep(t)
    PROVE  NetTypeOK' /\ HelperTypeOK(labels)'
<1>1. tgt[t] \in Stacks
  BY DEF HelperTypeOK
<1>2. CASE wait_for_nw_stack_init_nb(t)
  <2>1. NetTypeOK'
    BY <1>2 DEF wait_for_nw_stack_init_nb, netVars, NetTypeOK
  <2>2. pc' \in [Threads -> labels]
    BY <1>2, GotoType DEF wait_for_nw_stack_init_nb, InitLabels
  <2> QED BY <1>2, <2>1, <2>2 DEF wait_for_nw_stack_init_nb, HelperTypeOK
<1>3. CASE InitCreate(t)
  <2>1. NetTypeOK'
    BY <1>1, <1>3, CreateType DEF InitCreate
  <2>2. pc' \in [Threads -> labels]
    BY <1>3, GotoType DEF InitCreate, InitLabels
  <2>3. ctx' \in [Stacks -> SocketContext]
    <3>1. CASE UNCHANGED ctx
      BY <3>1 DEF HelperTypeOK
    <3>2. ASSUME NEW h \in Handles, ctx' = [ctx EXCEPT ![tgt[t]].handle = h]
          PROVE  ctx' \in [Stacks -> SocketContext]
      <4>1. [ctx[tgt[t]] EXCEPT !.handle = h] \in SocketContext
        BY <1>1 DEF HelperTypeOK, SocketContext
      <4>2. ctx' = [ctx EXCEPT ![tgt[t]] = [ctx[tgt[t]] EXCEPT !.handle = h]]
        BY <3>2
      <4> QED BY <1>1, <4>1, <4>2 DEF HelperTypeOK
    <3> QED BY <1>3, <3>1, <3>2 DEF InitCreate
  <2> QED BY <1>3, <2>1, <2>2, <2>3 DEF InitCreate, HelperTypeOK
<1>4. CASE InitRegCallback(t)
  <2>1. NetTypeOK'
    BY <1>1, <1>4, RegCallbackType DEF InitRegCallback
  <2>2. pc' \in [Threads -> labels]
    BY <1>4, GotoType DEF InitRegCallback, InitLabels
  <2> QED BY <1>4, <2>1, <2>2 DEF InitRegCallback, HelperTypeOK
<1>5. ASSUME CloseAndReturn(t)  PROVE NetTypeOK' /\ pc' \in [Threads -> labels]
  BY <1>1, <1>5, CloseType, GotoType DEF CloseAndReturn, InitLabels
<1>6. CASE InitBind(t)
  <2>1. NetTypeOK' /\ pc' \in [Threads -> labels]
    BY <1>1, <1>5, <1>6, SocketCallType, GotoType
       DEF InitBind, OS_Socket_bind, InitLabels, SocketStates
  <2> QED BY <1>6, <2>1 DEF InitBind, HelperTypeOK
<1>7. CASE InitListen(t)
  <2>1. NetTypeOK' /\ pc' \in [Threads -> labels]
    BY <1>1, <1>5, <1>7, SocketCallType, GotoType
       DEF InitListen, OS_Socket_listen, InitLabels, SocketStates
  <2> QED BY <1>7, <2>1 DEF InitListen, HelperTypeOK
<1>8. CASE InitConnect(t)
  <2>1. NetTypeOK' /\ pc' \in [Threads -> labels]
    BY <1>1, <1>8, SocketCallType, GotoType
       DEF InitConnect, OS_Socket_connect, InitLabels, SocketStates
  <2> QED BY <1>8, <2>1 DEF InitConnect, HelperTypeOK
<1> QED BY <1>2, <1>3, <1>4, <1>6, <1>7, <1>8 DEF InitStep

\* Clearing an entry of an event buffer leaves an event buffer.
LEMMA ClearEntryType ==
    ASSUME NEW b \in [rep : SUBSET Handles, todo : SUBSET Handles,
                      mask : [Handles -> SUBSET EventBits]],
           NEW h
    PROVE  /\ ClearEntry(b, h) \in [rep : SUBSET Handles, todo : SUBSET Handles,
                                    mask : [Handles -> SUBSET EventBits]]
           /\ \A g \in Handles : ClearEntry(b, h).mask[g] \subseteq b.mask[g]
<1> DEFINE index == IF b.mask[h] = {} THEN 0 ELSE h
           mask  == [g \in Handles |-> IF g \in b.rep /\ Rank(b.rep, g) = index
                                       THEN {} ELSE b.mask[g]]
<1>1. mask \in [Handles -> SUBSET EventBits]
  OBVIOUS
<1>2. \A g \in Handles : mask[g] \subseteq b.mask[g]
  OBVIOUS
<1>3. ClearEntry(b, h) = [b EXCEPT !.mask = mask]
  BY DEF ClearEntry
<1> HIDE DEF mask
<1> QED BY <1>1, <1>2, <1>3

\* The frame that the callbacks share keeps every type.
LEMMA LoopStepType ==
    ASSUME NEW labels, LoopLabels \subseteq labels, NetTypeOK, HelperTypeOK(labels), LoopTypeOK,
           NEW t \in Stacks, LoopStep(t)
    PROVE  NetTypeOK' /\ HelperTypeOK(labels)' /\ LoopTypeOK'
<1> DEFINE Batch == [rep : SUBSET Handles, todo : SUBSET Handles,
                     mask : [Handles -> SUBSET EventBits]]
<1>1. t \in Threads
  BY DEF Threads
<1>2. NoBatch \in Batch
  BY DEF NoBatch
<1>3. batch[t] \in Batch
  BY DEF LoopTypeOK
<1>4. ASSUME NEW b \in Batch, batch' = [batch EXCEPT ![t] = b]
      PROVE  batch' \in [Stacks -> Batch]
  BY <1>4 DEF LoopTypeOK
<1>5. CASE Dispatch(t)
  <2>1. NetTypeOK'
    BY <1>5 DEF Dispatch, NetTypeOK
  <2>2. pc' \in [Threads -> labels]
    BY <1>1, <1>5, GotoType DEF Dispatch, LoopLabels
  <2> QED BY <1>5, <2>1, <2>2 DEF Dispatch, HelperTypeOK, LoopTypeOK, loopVars
<1>6. CASE Fetch(t)
  <2>1. NetTypeOK'
    BY <1>6, PendingEventsType DEF Fetch, netVars, NetTypeOK
  <2>2. pc' \in [Threads -> labels]
    BY <1>1, <1>6, GotoType DEF Fetch, LoopLabels
  <2>3. Pending(t) \subseteq Handles /\ [h \in Handles |-> sk[<<t, h>>].ev] \in [Handles -> SUBSET EventBits]
    BY DEF Pending, NetTypeOK, Sockets, SocketRecord
  <2>4. [rep |-> Pending(t), todo |-> Pending(t), mask |-> [h \in Handles |-> sk[<<t, h>>].ev]] \in Batch
    BY <2>3
  <2>5. batch' \in [Stacks -> Batch]
    BY <1>4, <1>6, <2>4 DEF Fetch, LoopTypeOK
  <2> QED BY <1>6, <2>1, <2>2, <2>5 DEF Fetch, HelperTypeOK, LoopTypeOK
<1>7. CASE Lock(t)
  <2>1. NetTypeOK'
    BY <1>7 DEF Lock, netVars, NetTypeOK
  <2>2. ASSUME NEW h \in batch[t].todo, Take(t, h)
        PROVE  /\ pc' \in [Threads -> labels]
               /\ batch' \in [Stacks -> Batch]
               /\ cur' \in [Stacks -> Handles \cup {NoHandle}]
    <3>1. pc' \in [Threads -> labels]
      BY <1>1, <2>2, GotoType DEF Take, LoopLabels
    <3>2. [batch[t] EXCEPT !.todo = @ \ {h}] \in Batch
      BY <1>3
    <3>3. batch' \in [Stacks -> Batch]
      BY <1>4, <2>2, <3>2 DEF Take
    <3>4. h \in Handles
      BY <1>3
    <3> QED BY <2>2, <3>1, <3>3, <3>4 DEF Take, LoopTypeOK
  <2>3. CASE mutex = Free /\ mutex' = t /\ \E h \in batch[t].todo : Take(t, h)
    BY <1>7, <2>1, <2>2, <2>3 DEF Lock, HelperTypeOK, LoopTypeOK
  <2>4. CASE Goto(t, "idle") /\ batch' = [batch EXCEPT ![t] = NoBatch] /\ UNCHANGED <<mutex, cur>>
    <3>1. pc' \in [Threads -> labels]
      BY <1>1, <2>4, GotoType DEF LoopLabels
    <3>2. batch' \in [Stacks -> Batch]
      BY <1>2, <1>4, <2>4
    <3> QED BY <1>7, <2>1, <2>4, <3>1, <3>2 DEF Lock, HelperTypeOK, LoopTypeOK
  <2> QED BY <1>7, <2>3, <2>4 DEF Lock
<1>8. CASE Reset(t)
  <2>1. NetTypeOK'
    BY <1>8 DEF Reset, netVars, NetTypeOK
  <2>2. pc' \in [Threads -> labels]
    BY <1>1, <1>8, GotoType DEF Reset, LoopLabels
  <2>3. ClearEntry(batch[t], cur[t]) \in Batch
    BY <1>3, ClearEntryType
  <2>4. batch' \in [Stacks -> Batch]
    BY <1>2, <1>4, <1>8, <2>3 DEF Reset
  <2>5. mutex' \in Stacks \cup {Free} /\ cur' \in [Stacks -> Handles \cup {NoHandle}]
    BY <1>8 DEF Reset, LoopTypeOK
  <2> QED BY <1>8, <2>1, <2>2, <2>4, <2>5 DEF Reset, HelperTypeOK, LoopTypeOK
<1>9. CASE Rearm(t)
  <2>1. NetTypeOK'
    BY <1>9, RegCallbackType DEF Rearm
  <2>2. pc' \in [Threads -> labels]
    BY <1>1, <1>9, GotoType DEF Rearm, LoopLabels
  <2>3. batch' \in [Stacks -> Batch]
    BY <1>2, <1>4, <1>9 DEF Rearm
  <2> QED BY <1>9, <2>1, <2>2, <2>3 DEF Rearm, HelperTypeOK, LoopTypeOK
<1> QED BY <1>5, <1>6, <1>7, <1>8, <1>9 DEF LoopStep

\* The callbacks change only conn and client of a context.
LEMMA ContextType ==
    ASSUME NEW labels, HelperTypeOK(labels), NEW s \in Stacks, NEW up \in BOOLEAN,
           ctx' = [ctx EXCEPT ![s].conn = up]
    PROVE  ctx' \in [Stacks -> SocketContext]
<1>1. [ctx[s] EXCEPT !.conn = up] \in SocketContext
  BY DEF HelperTypeOK, SocketContext
<1> QED BY <1>1 DEF HelperTypeOK

\* An accepted client is a handle of the table.
LEMMA AcceptedContextType ==
    ASSUME NEW labels, HelperTypeOK(labels), NEW s \in Stacks, NEW h \in Handles,
           ctx' = [ctx EXCEPT ![s].client = h, ![s].conn = TRUE]
    PROVE  ctx' \in [Stacks -> SocketContext]
<1>1. ctx[s] \in SocketContext
  BY DEF HelperTypeOK
<1>2. [ctx[s] EXCEPT !.client = h, !.conn = TRUE] \in SocketContext
  BY <1>1 DEF SocketContext
<1>3. ctx' = [ctx EXCEPT ![s] = [ctx[s] EXCEPT !.client = h, !.conn = TRUE]]
  BY DEF HelperTypeOK
<1> QED BY <1>2, <1>3 DEF HelperTypeOK

\* The stacks, the contexts and the event buffers start out type correct.
LEMMA InitTypes ==
    ASSUME NetInit, LoopInit, ctx = [s \in Stacks |-> InitialContext]
    PROVE  NetTypeOK /\ ctx \in [Stacks -> SocketContext] /\ LoopTypeOK
<1>1. <<>> \in Seq(Frame) /\ <<>> \in Seq(Frame \cup {Pad})
  BY EmptySeq
<1>2. NetTypeOK
  <2>1. FreeSocket \in SocketRecord
    BY <1>1, Zenon DEF FreeSocket, SocketRecord, SocketStates
  <2> QED BY <1>1, <2>1 DEF NetInit, NetTypeOK, Sockets
<1>3. InitialContext \in SocketContext
  BY DEF InitialContext, SocketContext
<1> QED BY <1>2, <1>3 DEF LoopInit, LoopTypeOK, NoBatch

-----------------------------------------------------------------------------
(* Mutual exclusion, for a set of labels that is critical.                 *)

Exclusive(critical) == \A t \in Stacks : pc[t] \in critical => mutex = t

\* A step that leaves the mutex alone, and in which a callback moves inside
\* its critical section or does not end in it.
LEMMA MutexKept ==
    ASSUME NEW labels, HelperTypeOK(labels), NEW critical, Exclusive(critical),
           UNCHANGED mutex, NEW t \in Threads, NEW label, pc' = pc \/ Goto(t, label),
           t \in Stacks => pc[t] \in critical \/ label \notin critical
    PROVE  Exclusive(critical)'
<1> SUFFICES ASSUME NEW u \in Stacks, pc'[u] \in critical PROVE mutex = u
  BY DEF Exclusive
<1>1. pc[u] = pc'[u] \/ (u = t /\ pc'[u] = label)
  BY DEF HelperTypeOK, Goto, Threads
<1>2. pc[u] \in critical
  BY <1>1
<1> QED BY <1>2 DEF Exclusive

\* A callback enters its critical section by taking the free mutex (Lock), and
\* the mutex is released (Reset) only by the callback that leaves it.
LEMMA LoopMutex ==
    ASSUME NEW labels, HelperTypeOK(labels), NEW critical, Exclusive(critical),
           "reset" \in critical, critical \cap {"idle", "fetch", "next"} = {},
           NEW t \in Stacks, LoopStep(t)
    PROVE  Exclusive(critical)'
<1>1. Stacks \subseteq Threads
  BY DEF Threads
<1>2. CASE Dispatch(t)
  BY <1>1, <1>2, MutexKept DEF Dispatch, loopVars
<1>3. CASE Fetch(t)
  BY <1>1, <1>3, MutexKept DEF Fetch
<1>4. CASE Lock(t)
  <2>1. CASE mutex = Free /\ mutex' = t /\ \E h \in batch[t].todo : Take(t, h)
    <3>1. \A u \in Stacks : pc[u] \notin critical
      BY <2>1 DEF Exclusive, Free, Stacks
    <3>2. \A u \in Stacks : u # t => pc'[u] = pc[u]
      BY <1>1, <2>1 DEF Take, Goto, HelperTypeOK
    <3> QED BY <2>1, <3>1, <3>2 DEF Exclusive
  <2>2. CASE Goto(t, "idle") /\ UNCHANGED mutex
    BY <1>1, <2>2, MutexKept
  <2> QED BY <1>4, <2>1, <2>2 DEF Lock
<1>5. CASE Reset(t)
  <2>1. pc[t] \in critical
    BY <1>5 DEF Reset
  <2>2. CASE UNCHANGED mutex
    BY <1>1, <1>5, <2>1, <2>2, MutexKept DEF Reset
  <2>3. CASE Goto(t, "next")
    <3>1. \A u \in Stacks : u # t => pc[u] \notin critical
      BY <2>1 DEF Exclusive
    <3>2. \A u \in Stacks : pc'[u] = IF u = t THEN "next" ELSE pc[u]
      BY <1>1, <2>3 DEF Goto, HelperTypeOK
    <3> QED BY <3>1, <3>2 DEF Exclusive
  <2> QED BY <1>5, <2>2, <2>3 DEF Reset
<1>6. CASE Rearm(t)
  BY <1>1, <1>6, MutexKept DEF Rearm
<1> QED BY <1>2, <1>3, <1>4, <1>5, <1>6 DEF LoopStep

\* The helper runs in MAIN, or inside the critical section of a callback.
LEMMA InitStepMutex ==
    ASSUME NEW labels, HelperTypeOK(labels), NEW critical, Exclusive(critical),
           NEW t \in Threads, t = "MAIN" \/ InitLabels \subseteq critical,
           InitStep(t), UNCHANGED mutex
    PROVE  Exclusive(critical)'
<1>1. \E label : Goto(t, label)
  BY DEF InitStep, wait_for_nw_stack_init_nb, InitCreate, InitRegCallback, InitBind,
         InitListen, InitConnect, CloseAndReturn
<1>2. pc[t] \in InitLabels
  BY DEF InitStep, wait_for_nw_stack_init_nb, InitCreate, InitRegCallback, InitBind,
         InitListen, InitConnect, InitLabels
<1>3. t \in Stacks => pc[t] \in critical
  BY <1>2 DEF Stacks
<1> QED BY <1>1, <1>3, MutexKept

-----------------------------------------------------------------------------
(* What the calls and the peers do to the entries of the socket tables.    *)

\* Entry h of stack s becomes r, all the others stay.
Becomes(s, h, r) == \A k \in Sockets : sk'[k] = IF k = <<s, h>> THEN r ELSE sk[k]

\* A peer moves one socket: it takes an attempt to connect back, or it raises
\* an event that fits the state of the socket, and the stack notifies.
LEMMA PeerMoves ==
    ASSUME NetTypeOK, PeerStep
    PROVE  \E s \in Stacks, h \in Handles, r \in SocketRecord :
              /\ Becomes(s, h, r)
              /\ UNCHANGED armed
              /\ \/ UNCHANGED signal /\ r.st = sk[<<s, h>>].st /\ r.ev = sk[<<s, h>>].ev
                 \/ /\ signal' = [signal EXCEPT ![s] = TRUE]
                    /\ \/ /\ sk[<<s, h>>].st = "listening" /\ r.st = "listening"
                          /\ r.ev = sk[<<s, h>>].ev \cup {"CONN_ACPT"}
                       \/ sk[<<s, h>>].st = "connecting" /\ r.st \in {"open", "down"}
                       \/ /\ sk[<<s, h>>].st = "open" /\ r.st \in {"open", "down"}
                          /\ r.ev \subseteq sk[<<s, h>>].ev \cup {"READ", "FIN"}
<1>1. NetTypeOK'
  BY EnvironmentType
<1>2. PICK s \in Stacks, h \in Handles :
         \/ PeerConnect(s, h) \/ PeerGivesUp(s, h) \/ PeerAnswer(s, h) \/ PeerClose(s, h)
         \/ \E f \in Frames[s] : PeerSend(s, h, f)
  BY DEF PeerStep
<1> DEFINE r == sk'[<<s, h>>]
<1>3. r \in SocketRecord /\ sk[<<s, h>>] \in SocketRecord /\ <<s, h>> \in Sockets
  BY <1>1 DEF NetTypeOK, Sockets
<1>4. \E r0 \in SocketRecord : sk' = [sk EXCEPT ![<<s, h>>] = r0]
  <2>1. sk' = [sk EXCEPT ![<<s, h>>] = sk'[<<s, h>>]]
    BY <1>2, <1>3 DEF NetTypeOK, Sockets, PeerConnect, PeerGivesUp, PeerAnswer, PeerClose,
       PeerSend
  <2> QED BY <1>3, <2>1
<1>5. Becomes(s, h, r)
  BY <1>3, <1>4 DEF Becomes, NetTypeOK
<1>6. CASE PeerConnect(s, h)
  <2>1. r.st = "listening" /\ r.ev = sk[<<s, h>>].ev \cup {"CONN_ACPT"}
    BY <1>3, <1>6 DEF PeerConnect, IsIn, SocketRecord, NetTypeOK
  <2> QED BY <1>3, <1>5, <1>6, <2>1 DEF PeerConnect, IsIn, Notify
<1>7. CASE PeerGivesUp(s, h)
  <2>1. r.st = sk[<<s, h>>].st /\ r.ev = sk[<<s, h>>].ev
    BY <1>3, <1>7 DEF PeerGivesUp, SocketRecord, NetTypeOK
  <2> QED BY <1>3, <1>5, <1>7, <2>1 DEF PeerGivesUp
<1>8. CASE PeerAnswer(s, h)
  <2>1. r.st \in {"open", "down"}
    BY <1>3, <1>8 DEF PeerAnswer, SocketRecord, NetTypeOK
  <2> QED BY <1>3, <1>5, <1>8, <2>1 DEF PeerAnswer, IsIn, Notify
<1>9. CASE PeerClose(s, h)
  <2>1. r.st = "down" /\ r.ev = sk[<<s, h>>].ev \cup {"FIN"}
    BY <1>3, <1>9 DEF PeerClose, SocketRecord, NetTypeOK
  <2> QED BY <1>3, <1>5, <1>9, <2>1 DEF PeerClose, IsIn, Notify
<1>10. ASSUME NEW f \in Frames[s], PeerSend(s, h, f)
       PROVE  /\ signal' = [signal EXCEPT ![s] = TRUE] /\ UNCHANGED armed
              /\ sk[<<s, h>>].st = "open" /\ r.st = "open"
              /\ r.ev = sk[<<s, h>>].ev \cup {"READ"}
  <2>1. r.st = sk[<<s, h>>].st /\ r.ev = sk[<<s, h>>].ev \cup {"READ"}
    BY <1>3, <1>10 DEF PeerSend, SocketRecord, NetTypeOK
  <2> QED BY <1>10, <2>1 DEF PeerSend, IsIn, Notify
<1> HIDE DEF r
<1>11. CASE \E f \in Frames[s] : PeerSend(s, h, f)
  BY <1>3, <1>5, <1>10, <1>11
<1> QED BY <1>2, <1>6, <1>7, <1>8, <1>9, <1>11

\* A close frees one socket or none.
LEMMA CloseFrees ==
    ASSUME NetTypeOK, NEW s \in Stacks, NEW h, NEW ok \in BOOLEAN, OS_Socket_close(s, h, ok)
    PROVE  /\ UNCHANGED <<armed, signal>>
           /\ \A k \in Sockets : sk'[k] = sk[k] \/ (k = <<s, h>> /\ sk'[k] = FreeSocket)
  BY DEF OS_Socket_close, NetTypeOK

\* A socket that is accepted starts afresh.
LEMMA AcceptFresh ==
    ASSUME NetTypeOK, NEW s \in Stacks, NEW l, NEW h, OS_Socket_accept(s, l, h)
    PROVE  sk'[<<s, h>>] = Fresh("open")
<1>1. l \in Handles /\ h \in Handles /\ l # h /\ <<s, l>> \in Sockets /\ <<s, h>> \in Sockets
  BY DEF OS_Socket_accept, IsIn, FreeHandles, Sockets
<1>2. sk' = [sk EXCEPT ![<<s, h>>] = Fresh("open"),
                       ![<<s, l>>] = [sk[<<s, l>>] EXCEPT !.q = @ - 1,
                            !.ev = IF sk[<<s, l>>].q > 1 THEN @ \cup {"CONN_ACPT"} ELSE @]]
  BY <1>1 DEF OS_Socket_accept, NetTypeOK
<1> QED BY <1>1, <1>2 DEF NetTypeOK

\* An accept opens one socket that was free and may report the next connection.
LEMMA AcceptOpens ==
    ASSUME NetTypeOK, NEW s \in Stacks, NEW l, NEW h, OS_Socket_accept(s, l, h)
    PROVE  /\ l \in Handles /\ h \in Handles /\ l # h
           /\ sk[<<s, l>>].st = "listening" /\ sk[<<s, h>>].st = "free"
           /\ sk'[<<s, h>>] = Fresh("open")
           /\ sk'[<<s, l>>].st = "listening"
           /\ sk'[<<s, l>>].ev \subseteq sk[<<s, l>>].ev \cup {"CONN_ACPT"}
           /\ sk'[<<s, l>>].ev # sk[<<s, l>>].ev => sk[<<s, l>>].q > 1
           /\ \A g \in Handles : g # l /\ g # h => sk'[<<s, g>>] = sk[<<s, g>>]
           /\ \A u \in Stacks, g \in Handles : u # s => sk'[<<u, g>>] = sk[<<u, g>>]
<1>1. l \in Handles /\ h \in Handles /\ l # h /\ <<s, l>> \in Sockets /\ <<s, h>> \in Sockets
  BY DEF OS_Socket_accept, IsIn, FreeHandles, Sockets
<1>2. sk[<<s, l>>] \in SocketRecord /\ sk[<<s, l>>].st = "listening" /\ sk[<<s, h>>].st = "free"
  BY <1>1 DEF NetTypeOK, OS_Socket_accept, IsIn, FreeHandles
<1>3. sk' = [sk EXCEPT ![<<s, h>>] = Fresh("open"),
                       ![<<s, l>>] = [sk[<<s, l>>] EXCEPT !.q = @ - 1,
                            !.ev = IF sk[<<s, l>>].q > 1 THEN @ \cup {"CONN_ACPT"} ELSE @]]
  BY <1>1, <1>2 DEF OS_Socket_accept, NetTypeOK
<1>4. sk'[<<s, h>>] = Fresh("open") /\ sk'[<<s, l>>].st = "listening"
  BY <1>1, <1>2, <1>3 DEF NetTypeOK, SocketRecord
<1>5. sk'[<<s, l>>].ev = IF sk[<<s, l>>].q > 1 THEN sk[<<s, l>>].ev \cup {"CONN_ACPT"}
                                              ELSE sk[<<s, l>>].ev
  BY <1>1, <1>2, <1>3 DEF NetTypeOK, SocketRecord
<1>6. /\ \A g \in Handles : g # l /\ g # h => sk'[<<s, g>>] = sk[<<s, g>>]
      /\ \A u \in Stacks, g \in Handles : u # s => sk'[<<u, g>>] = sk[<<u, g>>]
  BY <1>1, <1>3 DEF NetTypeOK, Sockets
<1>7. sk'[<<s, l>>].ev \subseteq sk[<<s, l>>].ev \cup {"CONN_ACPT"}
  BY <1>5
<1>8. sk'[<<s, l>>].ev # sk[<<s, l>>].ev => sk[<<s, l>>].q > 1
  BY <1>5, Zenon
<1> QED BY <1>1, <1>2, <1>4, <1>6, <1>7, <1>8

\* An accept that raises the event of the server's socket again notifies.
LEMMA AcceptNotifies ==
    ASSUME NetTypeOK, NEW s \in Stacks, NEW l, NEW h, OS_Socket_accept(s, l, h)
    PROVE  /\ signal[s] => signal'[s]
           /\ sk'[<<s, l>>].ev # sk[<<s, l>>].ev => signal'[s]
           /\ \A u \in Stacks : u # s => signal'[u] = signal[u]
<1>1. sk'[<<s, l>>].ev # sk[<<s, l>>].ev => sk[<<s, l>>].q > 1
  BY AcceptOpens
<1> QED BY <1>1 DEF OS_Socket_accept, NetTypeOK

-----------------------------------------------------------------------------
(* The server for the VM: both components keep one, with the socket that   *)
(* listens in ctx["VM"].handle and the connection in ctx["VM"].client.     *)

\* What the helper has still to do for this server.
Unset     == tgt["MAIN"] = "VM" /\ pc["MAIN"] \in {"nw_wait", "create"}
SettingUp == tgt["MAIN"] = "VM" /\ pc["MAIN"] \in {"reg", "bind", "listen"}

\* The events of socket h that are pending or in the hands of the callback.
EventsOf(h) == sk[<<"VM", h>>].ev \cup batch["VM"].mask[h]

\* Only the socket of the server waits for connections, and nothing but this
\* happens to it; all the others are connections.
RoleOK(h) ==
    IF h = ctx["VM"].handle
    THEN /\ sk[<<"VM", h>>].st \in {"free", "created", "bound", "listening"}
         /\ EventsOf(h) \cap DownEvents = {}
    ELSE /\ sk[<<"VM", h>>].st \in {"free", "open", "down"}
         /\ "CONN_ACPT" \notin EventsOf(h)

\* The inductive invariant of the server: the roles of the sockets, that the
\* client is a connection, and that it is alive while conn_init is true.
ServerOK ==
    /\ Unset => /\ ctx["VM"] = InitialContext
                /\ \A h \in Handles : sk[<<"VM", h>>].st = "free" /\ EventsOf(h) = {}
    /\ SettingUp => \A h \in Handles : sk[<<"VM", h>>].st # "listening"
    /\ \A h \in Handles : RoleOK(h)
    /\ ctx["VM"].client \in Handles => ctx["VM"].client # ctx["VM"].handle
    /\ ctx["VM"].conn => InUse("VM", ctx["VM"].client)
    /\ pc["VM"] = "close" => Mask("VM") \cap DownEvents # {}

\* Steps that change no context and no state of a socket and raise no event.
LEMMA ServerKept ==
    ASSUME ServerOK, ctx'["VM"] = ctx["VM"],
           \A h \in Handles : /\ sk'[<<"VM", h>>].st = sk[<<"VM", h>>].st
                              /\ EventsOf(h)' \subseteq EventsOf(h),
           Unset' => Unset, SettingUp' => SettingUp,
           pc'["VM"] = "close" => Mask("VM")' \cap DownEvents # {}
    PROVE  ServerOK'
<1>1. \A h \in Handles : RoleOK(h)'
  BY DEF ServerOK, RoleOK
<1> QED BY <1>1 DEF ServerOK, InUse

\* Steps of the other side.
LEMMA OtherSide ==
    ASSUME ServerOK, ctx'["VM"] = ctx["VM"], batch'["VM"] = batch["VM"], cur'["VM"] = cur["VM"],
           \A h \in Handles : sk'[<<"VM", h>>] = sk[<<"VM", h>>],
           Unset' => Unset, SettingUp' => SettingUp,
           pc'["VM"] = "close" => pc["VM"] = "close"
    PROVE  ServerOK'
<1>1. \A h \in Handles : EventsOf(h)' = EventsOf(h)
  BY DEF EventsOf
<1>2. Mask("VM")' = Mask("VM")
  BY DEF Mask
<1> QED BY <1>1, <1>2, ServerKept DEF ServerOK

\* The boot of a stack, and what the peers do.
LEMMA EnvironmentServer ==
    ASSUME NetTypeOK, ServerOK, (\E s \in Stacks : StackBoot(s)) \/ PeerStep,
           UNCHANGED <<ctx, pc, tgt, loopVars>>
    PROVE  ServerOK'
<1>1. Unset' = Unset /\ SettingUp' = SettingUp
  BY DEF Unset, SettingUp
<1>2. CASE \E s \in Stacks : StackBoot(s)
  BY <1>1, <1>2, OtherSide DEF StackBoot, loopVars
<1>3. CASE PeerStep
  <2>1. PICK s \in Stacks, h \in Handles, r \in SocketRecord :
           /\ Becomes(s, h, r)
           /\ \/ r.st = sk[<<s, h>>].st /\ r.ev = sk[<<s, h>>].ev
              \/ /\ sk[<<s, h>>].st = "listening" /\ r.st = "listening"
                 /\ r.ev = sk[<<s, h>>].ev \cup {"CONN_ACPT"}
              \/ sk[<<s, h>>].st = "connecting" /\ r.st \in {"open", "down"}
              \/ /\ sk[<<s, h>>].st = "open" /\ r.st \in {"open", "down"}
                 /\ r.ev \subseteq sk[<<s, h>>].ev \cup {"READ", "FIN"}
    <3>1. PICK s \in Stacks, h \in Handles, r \in SocketRecord :
             /\ Becomes(s, h, r)
             /\ UNCHANGED armed
             /\ \/ UNCHANGED signal /\ r.st = sk[<<s, h>>].st /\ r.ev = sk[<<s, h>>].ev
                \/ /\ signal' = [signal EXCEPT ![s] = TRUE]
                   /\ \/ /\ sk[<<s, h>>].st = "listening" /\ r.st = "listening"
                         /\ r.ev = sk[<<s, h>>].ev \cup {"CONN_ACPT"}
                      \/ sk[<<s, h>>].st = "connecting" /\ r.st \in {"open", "down"}
                      \/ /\ sk[<<s, h>>].st = "open" /\ r.st \in {"open", "down"}
                         /\ r.ev \subseteq sk[<<s, h>>].ev \cup {"READ", "FIN"}
      BY <1>3, PeerMoves
    <3> QED BY <3>1
  <2>2. CASE s # "VM"
    BY <1>1, <2>1, <2>2, OtherSide DEF Becomes, Sockets, Stacks, loopVars
  <2>3. CASE s = "VM"
    <3>1. /\ sk'[<<"VM", h>>] = r
          /\ \A g \in Handles : g # h => sk'[<<"VM", g>>] = sk[<<"VM", g>>]
      BY <2>1, <2>3 DEF Becomes, Sockets, Stacks
    <3>2. RoleOK(h)
      BY DEF ServerOK
    <3>3. UNCHANGED <<ctx, batch, cur, pc>>
      BY DEF loopVars
    <3>4. CASE r.st = sk[<<s, h>>].st /\ r.ev = sk[<<s, h>>].ev
      <4>1. \A g \in Handles : /\ sk'[<<"VM", g>>].st = sk[<<"VM", g>>].st
                               /\ EventsOf(g)' = EventsOf(g)
        BY <2>3, <3>1, <3>3, <3>4 DEF EventsOf
      <4>2. Mask("VM")' = Mask("VM")
        BY <3>3 DEF Mask
      <4> QED BY <1>1, <3>3, <4>1, <4>2, ServerKept DEF ServerOK
    <3>5. CASE sk[<<s, h>>].st # "free" /\ r.st # "free" /\ RoleOK(h)'
               /\ (r.st = "listening" => sk[<<s, h>>].st = "listening")
      <4>1. ~Unset
        BY <2>3, <3>5 DEF ServerOK
      <4>2. \A g \in Handles : g # h => RoleOK(g)'
        BY <3>1, <3>3 DEF ServerOK, RoleOK, EventsOf
      <4>3. Mask("VM")' = Mask("VM")
        BY <3>3 DEF Mask
      <4>4. SettingUp => \A g \in Handles : sk'[<<"VM", g>>].st # "listening"
        BY <2>3, <3>1, <3>5 DEF ServerOK
      <4>5. ctx["VM"].conn => InUse("VM", ctx["VM"].client)'
        BY <2>3, <3>1, <3>3, <3>5 DEF ServerOK, InUse
      <4> QED BY <1>1, <3>3, <3>5, <4>1, <4>2, <4>3, <4>4, <4>5 DEF ServerOK
    <3>6. CASE /\ sk[<<s, h>>].st = "listening" /\ r.st = "listening"
               /\ r.ev = sk[<<s, h>>].ev \cup {"CONN_ACPT"}
      <4>1. h = ctx["VM"].handle
        BY <2>3, <3>2, <3>6 DEF RoleOK
      <4>2. RoleOK(h)'
        BY <2>3, <3>1, <3>2, <3>3, <3>6, <4>1 DEF RoleOK, EventsOf, DownEvents
      <4> QED BY <3>5, <3>6, <4>2
    <3>7. CASE sk[<<s, h>>].st = "connecting"
      BY <2>3, <3>2, <3>7 DEF RoleOK
    <3>8. CASE /\ sk[<<s, h>>].st = "open" /\ r.st \in {"open", "down"}
               /\ r.ev \subseteq sk[<<s, h>>].ev \cup {"READ", "FIN"}
      <4>1. h # ctx["VM"].handle
        BY <2>3, <3>2, <3>8 DEF RoleOK
      <4>2. RoleOK(h)'
        BY <2>3, <3>1, <3>2, <3>3, <3>8, <4>1 DEF RoleOK, EventsOf, DownEvents
      <4> QED BY <3>5, <3>8, <4>2
    <3> QED BY <2>1, <3>4, <3>6, <3>7, <3>8
  <2> QED BY <2>2, <2>3
<1> QED BY <1>2, <1>3

\* A socket is closed that is not a client in use.
LEMMA ServerClose ==
    ASSUME NetTypeOK, ServerOK, NEW h, NEW ok \in BOOLEAN, OS_Socket_close("VM", h, ok),
           ctx'["VM"].handle = ctx["VM"].handle, ctx'["VM"].client = ctx["VM"].client,
           ctx'["VM"].conn => ctx["VM"].conn /\ h # ctx["VM"].client,
           UNCHANGED <<tgt, loopVars>>, pc'["VM"] = "close" => pc["VM"] = "close",
           Unset' => Unset /\ UNCHANGED ctx, SettingUp' => SettingUp
    PROVE  ServerOK'
<1>1. \A g \in Handles : \/ sk'[<<"VM", g>>] = sk[<<"VM", g>>]
                         \/ g = h /\ sk'[<<"VM", g>>].st = "free" /\ sk'[<<"VM", g>>].ev = {}
  BY CloseFrees DEF Sockets, Stacks, FreeSocket
<1>2. \A g \in Handles : EventsOf(g)' \subseteq EventsOf(g)
  BY <1>1 DEF EventsOf, loopVars
<1>3. \A g \in Handles : RoleOK(g)'
  BY <1>1, <1>2 DEF ServerOK, RoleOK
<1>4. ctx'["VM"].conn => InUse("VM", ctx["VM"].client)'
  BY <1>1 DEF ServerOK, InUse
<1>5. Mask("VM")' = Mask("VM")
  BY DEF Mask, loopVars
<1> QED BY <1>1, <1>2, <1>3, <1>4, <1>5 DEF ServerOK

\* A connection that is accepted becomes the client; the server's socket stays.
LEMMA ServerAccept ==
    ASSUME NetTypeOK, NEW labels, HelperTypeOK(labels), ServerOK, NEW h \in Handles,
           OS_Socket_accept("VM", ctx["VM"].handle, h),
           ctx' = [ctx EXCEPT !["VM"].client = h, !["VM"].conn = TRUE],
           UNCHANGED loopVars, pc'["VM"] # "close",
           Unset' => Unset, SettingUp' => SettingUp
    PROVE  ServerOK'
<1> SUFFICES ASSUME NEW l, l = ctx["VM"].handle, OS_Socket_accept("VM", l, h)
             PROVE  ServerOK'
  OBVIOUS
<1>0. "VM" \in Stacks
  BY DEF Stacks
<1>1. /\ l \in Handles /\ l # h
      /\ sk[<<"VM", l>>].st = "listening" /\ sk[<<"VM", h>>].st = "free"
      /\ sk'[<<"VM", h>>] = Fresh("open")
      /\ sk'[<<"VM", l>>].st = "listening"
      /\ sk'[<<"VM", l>>].ev \subseteq sk[<<"VM", l>>].ev \cup {"CONN_ACPT"}
      /\ \A g \in Handles : g # l /\ g # h => sk'[<<"VM", g>>] = sk[<<"VM", g>>]
  BY <1>0, AcceptOpens
<1>2. sk'[<<"VM", h>>].st = "open" /\ sk'[<<"VM", h>>].ev = {}
  BY <1>1 DEF Fresh, FreeSocket
<1>3. ctx'["VM"].handle = l /\ ctx'["VM"].client = h
  <2>1. ctx["VM"] \in SocketContext
    BY <1>0 DEF HelperTypeOK
  <2>2. ctx' = [ctx EXCEPT !["VM"] = [ctx["VM"] EXCEPT !.client = h, !.conn = TRUE]]
    BY DEF HelperTypeOK
  <2> QED BY <1>0, <2>1, <2>2 DEF HelperTypeOK, SocketContext
<1>4. ~Unset /\ ~SettingUp
  BY <1>1 DEF ServerOK
<1>5. \A g \in Handles : RoleOK(g)'
  <2>1. RoleOK(l) /\ RoleOK(h)
    BY <1>1 DEF ServerOK
  <2>2. RoleOK(l)'
    BY <1>1, <1>3, <2>1 DEF RoleOK, EventsOf, DownEvents, loopVars
  <2>3. RoleOK(h)'
    BY <1>1, <1>2, <1>3, <2>1 DEF RoleOK, EventsOf, loopVars
  <2>4. \A g \in Handles : g # l /\ g # h => RoleOK(g)'
    BY <1>1, <1>3 DEF ServerOK, RoleOK, EventsOf, loopVars
  <2> QED BY <2>2, <2>3, <2>4
<1>6. InUse("VM", h)'
  BY <1>2 DEF InUse
<1> QED BY <1>1, <1>3, <1>4, <1>5, <1>6 DEF ServerOK

\* The helper touches only the side it initialises.
LEMMA InitStepElsewhere ==
    ASSUME NEW labels, NetTypeOK, HelperTypeOK(labels), NEW t \in Threads, InitStep(t),
           NEW u \in Stacks, u # tgt[t]
    PROVE  /\ ctx'[u] = ctx[u]
           /\ \A h \in Handles : sk'[<<u, h>>] = sk[<<u, h>>]
<1>1. tgt[t] \in Stacks
  BY DEF HelperTypeOK
<1>2. ctx'[u] = ctx[u]
  BY <1>1 DEF InitStep, wait_for_nw_stack_init_nb, InitCreate, InitRegCallback, InitBind,
         InitListen, InitConnect, HelperTypeOK
<1>3. ASSUME NEW g, NEW ok \in BOOLEAN, OS_Socket_create(tgt[t], g, ok)
      PROVE  \A h \in Handles : sk'[<<u, h>>] = sk[<<u, h>>]
  BY <1>1, <1>3 DEF OS_Socket_create, NetTypeOK, Sockets
<1>4. ASSUME CloseAndReturn(t)
      PROVE  \A h \in Handles : sk'[<<u, h>>] = sk[<<u, h>>]
  BY <1>1, <1>4 DEF CloseAndReturn, OS_Socket_close, NetTypeOK, Sockets
<1>5. ASSUME NEW call, NEW h, NEW from, NEW to, NEW ok \in BOOLEAN,
             SocketCall(call, tgt[t], h, from, to, ok)
      PROVE  \A g \in Handles : sk'[<<u, g>>] = sk[<<u, g>>]
  BY <1>1, <1>5 DEF SocketCall, NetTypeOK, Sockets
<1>6. CASE wait_for_nw_stack_init_nb(t) \/ InitRegCallback(t)
  BY <1>2, <1>6 DEF wait_for_nw_stack_init_nb, InitRegCallback, OS_Socket_regCallback, netVars
<1>7. CASE InitCreate(t) \/ InitBind(t) \/ InitListen(t) \/ InitConnect(t)
  BY <1>2, <1>3, <1>4, <1>5, <1>7 DEF InitCreate, InitBind, InitListen, InitConnect,
         OS_Socket_bind, OS_Socket_listen, OS_Socket_connect
<1> QED BY <1>6, <1>7 DEF InitStep

\* The helper sets up the server in MAIN, or it sets up something else.
LEMMA InitStepServer ==
    ASSUME NEW labels, NetTypeOK, HelperTypeOK(labels), ServerOK, NEW t \in {"VM", "MAIN"},
           IF t = "MAIN" THEN pc[t] # "connect" ELSE tgt[t] = "PX4",
           InitStep(t), UNCHANGED loopVars
    PROVE  ServerOK'
<1>1. tgt[t] \in Stacks /\ UNCHANGED tgt /\ t \in Threads /\ "MAIN" \in Threads /\ "VM" \in Threads
  BY DEF HelperTypeOK, Threads, Stacks, InitStep, wait_for_nw_stack_init_nb, InitCreate,
         InitRegCallback, InitBind, InitListen, InitConnect
<1>2. /\ \A u \in Threads : u # t => pc'[u] = pc[u]
      /\ pc'[t] # "close"
      /\ pc'[t] \in {"nw_wait", "create"} => pc[t] = "nw_wait"
      /\ pc'[t] = "reg" => pc[t] = "create"
      /\ pc'[t] \in {"bind", "listen"} => pc[t] \in {"reg", "bind"}
  BY <1>1 DEF HelperTypeOK, Goto, InitStep, wait_for_nw_stack_init_nb, InitCreate,
         InitRegCallback, InitBind, InitListen, InitConnect, CloseAndReturn
<1>3. t = "MAIN" /\ Unset' => pc[t] = "nw_wait"
  BY <1>1, <1>2 DEF Unset
<1>4. Unset' => Unset
  BY <1>1, <1>2 DEF Unset
<1>5. pc'["VM"] = "close" => pc["VM"] = "close"
  BY <1>1, <1>2
<1>6. SettingUp' => SettingUp \/ (t = "MAIN" /\ pc[t] = "create")
  BY <1>1, <1>2 DEF SettingUp
<1>7. CASE wait_for_nw_stack_init_nb(t) \/ InitRegCallback(t)
  <2>1. UNCHANGED <<sk, ctx>> /\ pc[t] # "create"
    BY <1>7 DEF wait_for_nw_stack_init_nb, InitRegCallback, OS_Socket_regCallback, netVars
  <2> QED BY <1>4, <1>5, <1>6, <2>1, OtherSide DEF loopVars
<1>8. CASE tgt[t] # "VM" /\ (InitCreate(t) \/ InitBind(t) \/ InitListen(t) \/ InitConnect(t))
  <2>1. ctx'["VM"] = ctx["VM"] /\ \A h \in Handles : sk'[<<"VM", h>>] = sk[<<"VM", h>>]
    <3>1. "VM" \in Stacks
      BY DEF Stacks
    <3> QED BY <1>1, <1>8, <3>1, InitStepElsewhere
  <2>2. SettingUp' => SettingUp
    BY <1>1, <1>2, <1>8 DEF SettingUp
  <2> QED BY <1>4, <1>5, <2>1, <2>2, OtherSide DEF loopVars
<1>9. CASE tgt[t] = "VM" /\ InitCreate(t)
  <2>1. t = "MAIN" /\ Unset /\ ~Unset' /\ pc["VM"] # "close"
    BY <1>1, <1>3, <1>9 DEF InitCreate, Unset, ServerOK, Mask, EventsOf
  <2>2. CASE UNCHANGED <<sk, ctx>> /\ Goto(t, "init_err")
    <3>1. ~SettingUp'
      BY <1>1, <2>1, <2>2 DEF SettingUp, Goto, HelperTypeOK
    <3> QED BY <1>4, <1>5, <2>2, <3>1, OtherSide DEF loopVars
  <2>3. ASSUME NEW h \in Handles, OS_Socket_create("VM", h, TRUE),
               ctx' = [ctx EXCEPT !["VM"].handle = h]
        PROVE  ServerOK'
    <3>1. /\ sk'[<<"VM", h>>].st = "created" /\ sk'[<<"VM", h>>].ev = {}
          /\ \A g \in Handles : g # h => sk'[<<"VM", g>>] = sk[<<"VM", g>>]
      BY <2>3 DEF OS_Socket_create, NetTypeOK, Sockets, Stacks, Fresh, FreeSocket, FreeHandles
    <3>2. /\ ctx'["VM"].handle = h /\ ctx'["VM"].client = NoHandle /\ ~ctx'["VM"].conn
      BY <2>1, <2>3 DEF HelperTypeOK, SocketContext, ServerOK, InitialContext, Stacks
    <3>3. \A g \in Handles : RoleOK(g)'
      BY <2>1, <3>1, <3>2 DEF ServerOK, RoleOK, EventsOf, loopVars
    <3>4. \A g \in Handles : sk'[<<"VM", g>>].st # "listening"
      BY <2>1, <3>1 DEF ServerOK
    <3>5. NoHandle \notin Handles
      BY NetAssumption DEF NoHandle
    <3>6. pc'["VM"] # "close"
      BY <1>5, <2>1
    <3> QED BY <2>1, <3>2, <3>3, <3>4, <3>5, <3>6 DEF ServerOK
  <2> QED BY <1>9, <2>2, <2>3 DEF InitCreate, OS_Socket_create
<1>10. ASSUME tgt[t] = "VM", CloseAndReturn(t), UNCHANGED ctx  PROVE ServerOK'
  <2>1. pc'[t] \in {"init_ok", "init_err"} /\ t = "MAIN"
    BY <1>1, <1>10 DEF CloseAndReturn, Goto, HelperTypeOK
  <2>2. ~Unset' /\ ~SettingUp'
    BY <2>1 DEF Unset, SettingUp
  <2>3. ctx["VM"].conn => ctx["VM"].handle # ctx["VM"].client
    BY DEF ServerOK, InUse
  <2> QED BY <1>1, <1>5, <1>10, <2>2, <2>3, ServerClose DEF CloseAndReturn
<1>11. ASSUME NEW h, NEW to \in {"bound", "listening"}, h = ctx["VM"].handle,
              h \in Handles, sk' = [sk EXCEPT ![<<"VM", h>>].st = to], UNCHANGED ctx,
              sk[<<"VM", h>>].st # "free", pc[t] \in {"bind", "listen"},
              to = "listening" => pc'[t] = "init_ok", t = "MAIN"
       PROVE  ServerOK'
  <2>1. /\ sk'[<<"VM", h>>].st = to /\ sk'[<<"VM", h>>].ev = sk[<<"VM", h>>].ev
        /\ \A g \in Handles : g # h => sk'[<<"VM", g>>] = sk[<<"VM", g>>]
    BY <1>11 DEF NetTypeOK, Sockets, Stacks, SocketRecord
  <2>2. \A g \in Handles : RoleOK(g)'
    <3> SUFFICES ASSUME NEW g \in Handles PROVE RoleOK(g)'
      OBVIOUS
    <3>1. RoleOK(g) /\ RoleOK(h)
      BY <1>11 DEF ServerOK
    <3>2. UNCHANGED <<ctx, batch, cur>>
      BY <1>11 DEF loopVars
    <3>3. CASE g = h
      <4>1. EventsOf(g)' = EventsOf(g)
        BY <2>1, <3>2, <3>3 DEF EventsOf
      <4> QED BY <1>11, <2>1, <3>1, <3>2, <3>3, <4>1 DEF RoleOK
    <3>4. CASE g # h
      <4>1. EventsOf(g)' = EventsOf(g) /\ sk'[<<"VM", g>>] = sk[<<"VM", g>>]
        BY <2>1, <3>2, <3>4 DEF EventsOf
      <4> QED BY <3>1, <3>2, <4>1 DEF RoleOK
    <3> QED BY <3>3, <3>4
  <2>3. ~Unset' /\ (SettingUp' => SettingUp /\ to # "listening")
    BY <1>3, <1>6, <1>11 DEF SettingUp
  <2>4. Mask("VM")' = Mask("VM")
    BY DEF Mask, loopVars
  <2>5. ctx["VM"].conn => InUse("VM", ctx["VM"].client)'
    BY <1>11, <2>1 DEF ServerOK, InUse
  <2> QED BY <1>5, <1>11, <2>1, <2>2, <2>3, <2>4, <2>5 DEF ServerOK
<1>12. CASE tgt[t] = "VM" /\ InitBind(t)
  <2>1. CASE OS_Socket_bind("VM", ctx["VM"].handle, TRUE)
    BY <1>1, <1>11, <1>12, <2>1 DEF InitBind, OS_Socket_bind, SocketCall, IsIn
  <2> QED BY <1>10, <1>12, <2>1 DEF InitBind
<1>13. CASE tgt[t] = "VM" /\ InitListen(t)
  <2>1. CASE OS_Socket_listen("VM", ctx["VM"].handle, TRUE) /\ Goto(t, "init_ok")
    <3>1. pc'[t] = "init_ok"
      BY <1>1, <2>1 DEF Goto, HelperTypeOK
    <3> QED BY <1>1, <1>11, <1>13, <2>1, <3>1 DEF InitListen, OS_Socket_listen, SocketCall, IsIn
  <2> QED BY <1>10, <1>13, <2>1 DEF InitListen
<1>14. ~(tgt[t] = "VM" /\ InitConnect(t))
  BY DEF InitConnect
<1> QED BY <1>7, <1>8, <1>9, <1>12, <1>13, <1>14 DEF InitStep

\* The frame of the callbacks hands events from the sockets to the callback
\* and drops them, and never raises one.
LEMMA LoopStepServer ==
    ASSUME NEW labels, NetTypeOK, HelperTypeOK(labels), LoopTypeOK, ServerOK, NEW t \in Stacks,
           LoopStep(t)
    PROVE  ServerOK'
<1>1. UNCHANGED <<ctx, tgt>> /\ t \in Threads /\ "VM" \in Threads /\ "MAIN" \in Threads /\ t # "MAIN"
  BY DEF LoopStep, Dispatch, Fetch, Lock, Reset, Rearm, Threads, Stacks
<1>2. /\ pc'["MAIN"] = pc["MAIN"]
      /\ t # "VM" => pc'["VM"] = pc["VM"]
  BY <1>1 DEF HelperTypeOK, Goto, LoopStep, Dispatch, Fetch, Lock, Take, Reset, Rearm
<1>3. Unset' = Unset /\ SettingUp' = SettingUp
  BY <1>1, <1>2 DEF Unset, SettingUp
<1>4. \A k \in Sockets : /\ sk'[k].st = sk[k].st
                         /\ sk'[k] # sk[k] => k[1] = t /\ sk'[k].ev = {}
  BY DEF LoopStep, Dispatch, Fetch, Lock, Reset, Rearm, OS_Socket_getPendingEvents,
         OS_Socket_regCallback, netVars, NetTypeOK, SocketRecord
<1>5. CASE t # "VM"
  <2>1. batch'["VM"] = batch["VM"] /\ cur'["VM"] = cur["VM"]
    BY <1>5 DEF LoopTypeOK, LoopStep, Dispatch, Fetch, Lock, Take, Reset, Rearm, loopVars, Stacks
  <2>2. \A h \in Handles : sk'[<<"VM", h>>] = sk[<<"VM", h>>]
    BY <1>4, <1>5 DEF Sockets, Stacks
  <2> QED BY <1>1, <1>2, <1>3, <1>5, <2>1, <2>2, OtherSide
<1>6. CASE t = "VM"
  <2>1. "VM" \in Stacks
    BY <1>6
  <2>2. \A h \in Handles : sk'[<<"VM", h>>].st = sk[<<"VM", h>>].st
    BY <1>4, <2>1 DEF Sockets
  <2>3. ASSUME \A h \in Handles : EventsOf(h)' \subseteq EventsOf(h),
               pc'["VM"] = "close" => Mask("VM")' \cap DownEvents # {}
        PROVE  ServerOK'
    BY <1>1, <1>3, <2>2, <2>3, ServerKept
  <2>4. \A h \in Handles : NoBatch.mask[h] = {}
    BY DEF NoBatch
  <2>5. ASSUME batch' = [batch EXCEPT !["VM"] = NoBatch], UNCHANGED sk, Goto("VM", "idle")
        PROVE  ServerOK'
    <3>1. \A h \in Handles : EventsOf(h)' \subseteq EventsOf(h)
      BY <2>1, <2>4, <2>5 DEF EventsOf, LoopTypeOK
    <3>2. pc'["VM"] # "close"
      BY <1>1, <2>5 DEF Goto, HelperTypeOK
    <3> QED BY <2>3, <3>1, <3>2
  <2>6. CASE Dispatch("VM")
    <3>1. \A h \in Handles : EventsOf(h)' = EventsOf(h)
      BY <2>6 DEF Dispatch, EventsOf, loopVars
    <3>2. pc'["VM"] # "close"
      BY <1>1, <2>6 DEF Dispatch, Goto, HelperTypeOK
    <3> QED BY <2>3, <3>1, <3>2
  <2>7. CASE Fetch("VM")
    <3>1. CASE OS_Socket_getPendingEvents("VM")
               /\ batch' = [batch EXCEPT !["VM"] = [rep |-> Pending("VM"), todo |-> Pending("VM"),
                                           mask |-> [h \in Handles |-> sk[<<"VM", h>>].ev]]]
      <4>1. \A h \in Handles : batch'["VM"].mask[h] = sk[<<"VM", h>>].ev
        BY <2>1, <3>1 DEF LoopTypeOK
      <4>2. \A h \in Handles : sk'[<<"VM", h>>].ev \subseteq sk[<<"VM", h>>].ev
        BY <1>4, <2>1 DEF Sockets
      <4>3. \A h \in Handles : EventsOf(h)' \subseteq EventsOf(h)
        BY <4>1, <4>2 DEF EventsOf
      <4>4. pc'["VM"] # "close"
        BY <1>1, <2>1, <2>7 DEF Fetch, Goto, HelperTypeOK
      <4> QED BY <2>3, <4>3, <4>4
    <3>2. CASE UNCHANGED <<netVars, batch>>
      <4>1. \A h \in Handles : EventsOf(h)' = EventsOf(h)
        BY <3>2 DEF EventsOf, netVars
      <4>2. pc'["VM"] # "close"
        BY <1>1, <2>1, <2>7 DEF Fetch, Goto, HelperTypeOK
      <4> QED BY <2>3, <4>1, <4>2
    <3> QED BY <2>7, <3>1, <3>2 DEF Fetch
  <2>8. CASE Lock("VM")
    <3>1. ASSUME NEW h \in batch["VM"].todo, Take("VM", h), UNCHANGED sk
          PROVE  ServerOK'
      <4>1. h \in Handles /\ cur'["VM"] = h
        BY <2>1, <3>1 DEF LoopTypeOK, Take
      <4>2. batch'["VM"].mask = batch["VM"].mask
        BY <2>1, <3>1 DEF LoopTypeOK, Take
      <4>3. \A g \in Handles : EventsOf(g)' = EventsOf(g)
        BY <3>1, <4>2 DEF EventsOf
      <4>4. pc'["VM"] = "close" => Mask("VM")' \cap DownEvents # {}
        BY <1>1, <3>1, <4>1, <4>2 DEF Take, Goto, HelperTypeOK, Mask
      <4> QED BY <2>3, <4>3, <4>4
    <3> QED BY <2>5, <2>8, <3>1 DEF Lock, netVars
  <2>9. CASE Reset("VM")
    <3>1. CASE batch' = [batch EXCEPT !["VM"] = ClearEntry(@, cur["VM"])] /\ Goto("VM", "next")
      <4>1. \A h \in Handles : batch'["VM"].mask[h] \subseteq batch["VM"].mask[h]
        BY <2>1, <3>1, ClearEntryType DEF LoopTypeOK
      <4>2. \A h \in Handles : EventsOf(h)' \subseteq EventsOf(h)
        BY <2>9, <4>1 DEF EventsOf, Reset, netVars
      <4>3. pc'["VM"] # "close"
        BY <1>1, <3>1 DEF Goto, HelperTypeOK
      <4> QED BY <2>3, <4>2, <4>3
    <3> QED BY <2>5, <2>9, <3>1 DEF Reset, netVars
  <2>10. CASE Rearm("VM")
    BY <2>5, <2>10 DEF Rearm, OS_Socket_regCallback
  <2> QED BY <1>6, <2>6, <2>7, <2>8, <2>9, <2>10 DEF LoopStep
<1> QED BY <1>5, <1>6
-----------------------------------------------------------------------------
(* Attention: no stack has events that nobody will look at.                *)

\* The calls without which the loop cannot go round again.
LoopCallsWork == Faults \cap {"reg", "events", "lock", "unlock"} = {}

\* Somebody waits for the notification of stack s, or is at work.
Woken(s) == armed[s] \/ pc[s] # "idle"

\* Pending events have been notified, or are about to be fetched; and until
\* somebody waits for them, the sockets can have none.
AttentiveTo(s) ==
    /\ Pending(s) # {} => signal[s] \/ pc[s] = "fetch"
    /\ \/ Woken(s)
       \/ \A h \in Handles : sk[<<s, h>>].st \in {"free", "created"} /\ sk[<<s, h>>].ev = {}

\* A socket listens or connects only with the callback of its stack registered.
RegisteredBy(t) == pc[t] \in {"bind", "listen", "connect"} => Woken(tgt[t])

\* A step that raises no event without notifying, and drops no notification.
LEMMA AttentiveKept ==
    ASSUME NEW s, AttentiveTo(s),
           signal[s] \/ pc[s] = "fetch" => signal'[s] \/ pc'[s] = "fetch",
           \A h \in Handles : sk'[<<s, h>>].ev # {} => sk[<<s, h>>].ev # {} \/ signal'[s],
           \/ Woken(s)'
           \/ \A h \in Handles : /\ sk'[<<s, h>>].st \in {"free", "created"}
                                 /\ sk'[<<s, h>>].ev = {}
    PROVE  AttentiveTo(s)'
<1>1. ASSUME Pending(s)' # {}  PROVE signal'[s] \/ pc'[s] = "fetch"
  <2>1. PICK h \in Handles : sk'[<<s, h>>].ev # {}
    BY <1>1 DEF Pending
  <2>2. CASE sk[<<s, h>>].ev # {}
    BY <2>2 DEF AttentiveTo, Pending
  <2>3. CASE signal'[s]
    BY <2>3
  <2> QED BY <2>1, <2>2, <2>3
<1> QED BY <1>1 DEF AttentiveTo

\* A step that does not concern stack s.
LEMMA AttentiveElsewhere ==
    ASSUME NEW s, AttentiveTo(s), signal'[s] = signal[s], pc'[s] = pc[s], armed'[s] = armed[s],
           \A h \in Handles : sk'[<<s, h>>] = sk[<<s, h>>]
    PROVE  AttentiveTo(s)' /\ Woken(s)' = Woken(s)
<1>1. Woken(s)' = Woken(s)
  BY Zenon DEF Woken
<1>2. Pending(s)' = Pending(s)
  BY DEF Pending
<1> QED BY <1>1, <1>2, Zenon DEF AttentiveTo

\* The frame of the callbacks: a report is fetched after its notification was
\* taken, and the callback is registered again before it ends.
LEMMA LoopStepAttentive ==
    ASSUME NEW labels, NetTypeOK, HelperTypeOK(labels), LoopCallsWork,
           NEW t \in Stacks, LoopStep(t), NEW s \in Stacks, AttentiveTo(s)
    PROVE  AttentiveTo(s)' /\ (Woken(s) => Woken(s)')
<1>1. t \in Threads /\ s \in Threads
  BY DEF Threads
<1>2. CASE s # t
  <2>1. pc'[s] = pc[s]
    BY <1>1, <1>2 DEF HelperTypeOK, Goto, LoopStep, Dispatch, Fetch, Lock, Take, Reset, Rearm
  <2>2. signal'[s] = signal[s]
    BY <1>2 DEF NetTypeOK, LoopStep, Dispatch, Fetch, Lock, Reset, Rearm,
       OS_Socket_getPendingEvents, OS_Socket_regCallback, netVars
  <2>3. armed'[s] = armed[s]
    BY <1>2 DEF NetTypeOK, LoopStep, Dispatch, Fetch, Lock, Reset, Rearm,
       OS_Socket_getPendingEvents, OS_Socket_regCallback, netVars
  <2>4. \A h \in Handles : sk'[<<s, h>>] = sk[<<s, h>>]
    BY <1>2 DEF NetTypeOK, Sockets, LoopStep, Dispatch, Fetch, Lock, Reset, Rearm,
       OS_Socket_getPendingEvents, OS_Socket_regCallback, netVars
  <2> QED BY <2>1, <2>2, <2>3, <2>4, AttentiveElsewhere
<1>3. ASSUME NEW label, Goto(s, label)  PROVE pc'[s] = label
  BY <1>1, <1>3 DEF Goto, HelperTypeOK
<1>4. CASE s = t /\ Dispatch(t)
  <2>1. pc'[s] = "fetch" /\ UNCHANGED sk
    BY <1>3, <1>4 DEF Dispatch
  <2> QED BY <2>1, AttentiveKept DEF Woken
<1>5. CASE s = t /\ Fetch(t)
  <2>1. OS_Socket_getPendingEvents(s) /\ Goto(s, "next")
    BY <1>5 DEF Fetch, LoopCallsWork
  <2>2. \A h \in Handles : sk'[<<s, h>>].ev = {}
    BY <2>1 DEF OS_Socket_getPendingEvents, NetTypeOK, Sockets, SocketRecord
  <2>3. Woken(s)' /\ Pending(s)' = {}
    BY <1>3, <2>1, <2>2 DEF Woken, Pending
  <2> QED BY <2>3 DEF AttentiveTo
<1>6. CASE s = t /\ (Lock(t) \/ Reset(t))
  <2>1. UNCHANGED netVars /\ pc[s] # "fetch"
    BY <1>6 DEF Lock, Reset
  <2>2. pc'[s] # "idle"
    BY <1>3, <1>6 DEF Lock, Reset, Take, LoopCallsWork
  <2> QED BY <2>1, <2>2, AttentiveKept DEF Woken, netVars
<1>7. CASE s = t /\ Rearm(t)
  <2>1. UNCHANGED <<sk, signal>> /\ pc[s] # "fetch"
    BY <1>7 DEF Rearm, OS_Socket_regCallback
  <2>2. armed'[s]
    BY <1>7 DEF Rearm, OS_Socket_regCallback, LoopCallsWork, NetTypeOK
  <2> QED BY <2>1, <2>2, AttentiveKept DEF Woken
<1> QED BY <1>2, <1>4, <1>5, <1>6, <1>7 DEF LoopStep

\* The set-up of a server or a client: its socket is fresh until a callback is
\* registered that waits for its events.
LEMMA InitStepAttentive ==
    ASSUME NEW labels, NetTypeOK, HelperTypeOK(labels), LoopCallsWork, NEW t \in Threads,
           RegisteredBy(t), InitStep(t), NEW s \in Stacks, AttentiveTo(s)
    PROVE  AttentiveTo(s)' /\ (Woken(s) => Woken(s)')
<1>1. /\ s \in Threads /\ tgt[t] \in Stacks
      /\ \A h \in Handles : <<s, h>> \in Sockets /\ sk[<<s, h>>] \in SocketRecord
  BY DEF Threads, Stacks, HelperTypeOK, NetTypeOK, Sockets
<1>2. /\ signal'[s] = signal[s]
      /\ pc[s] = "fetch" => pc'[s] = "fetch"
      /\ pc[s] # "idle" => pc'[s] # "idle"
  <2>1. PICK label \in InitLabels : Goto(t, label)
    BY DEF InitStep, wait_for_nw_stack_init_nb, InitCreate, InitRegCallback, InitBind,
           InitListen, InitConnect, CloseAndReturn, InitLabels
  <2>2. pc'[s] = IF s = t THEN label ELSE pc[s]
    BY <1>1, <2>1 DEF Goto, HelperTypeOK
  <2>3. pc[t] \in InitLabels
    BY DEF InitStep, wait_for_nw_stack_init_nb, InitCreate, InitRegCallback, InitBind,
           InitListen, InitConnect, InitLabels
  <2>4. UNCHANGED signal
    BY DEF InitStep, wait_for_nw_stack_init_nb, InitCreate, InitRegCallback, InitBind,
           InitListen, InitConnect, CloseAndReturn, OS_Socket_create, OS_Socket_regCallback,
           OS_Socket_bind, OS_Socket_listen, OS_Socket_connect, SocketCall, OS_Socket_close, netVars
  <2> QED BY <2>2, <2>3, <2>4 DEF InitLabels
<1>3. ASSUME \A h \in Handles : sk'[<<s, h>>].ev \subseteq sk[<<s, h>>].ev,
             Woken(s) => Woken(s)',
             \/ Woken(s)
             \/ \A h \in Handles : sk'[<<s, h>>].st \in {sk[<<s, h>>].st, "free", "created"}
      PROVE  AttentiveTo(s)' /\ (Woken(s) => Woken(s)')
  <2>1. \A h \in Handles : sk'[<<s, h>>].ev # {} => sk[<<s, h>>].ev # {}
    BY <1>3
  <2>2. \/ Woken(s)'
        \/ \A h \in Handles : sk'[<<s, h>>].st \in {"free", "created"} /\ sk'[<<s, h>>].ev = {}
    BY <1>3 DEF AttentiveTo
  <2> QED BY <1>2, <1>3, <2>1, <2>2, AttentiveKept
<1>4. CASE wait_for_nw_stack_init_nb(t) \/ InitRegCallback(t)
  <2>1. UNCHANGED sk /\ (armed[s] => armed'[s])
    BY <1>1, <1>4 DEF wait_for_nw_stack_init_nb, InitRegCallback, OS_Socket_regCallback, netVars,
       NetTypeOK
  <2>2. Woken(s) => Woken(s)'
    BY <1>2, <2>1 DEF Woken
  <2> QED BY <1>3, <2>1, <2>2
<1>5. CASE InitCreate(t)
  <2>1. UNCHANGED armed
    BY <1>5 DEF InitCreate, OS_Socket_create
  <2>2. \A h \in Handles : \/ sk'[<<s, h>>] = sk[<<s, h>>]
                           \/ sk'[<<s, h>>] = Fresh("created")
    BY <1>1, <1>5 DEF InitCreate, OS_Socket_create, NetTypeOK
  <2>3. \A h \in Handles : /\ sk'[<<s, h>>].ev \subseteq sk[<<s, h>>].ev
                           /\ sk'[<<s, h>>].st \in {sk[<<s, h>>].st, "created"}
    BY <2>2 DEF Fresh, FreeSocket
  <2>4. Woken(s) => Woken(s)'
    BY <1>2, <2>1 DEF Woken
  <2> QED BY <1>3, <2>3, <2>4
<1>6. CASE InitBind(t) \/ InitListen(t) \/ InitConnect(t)
  <2>1. UNCHANGED armed
    BY <1>6 DEF InitBind, InitListen, InitConnect, OS_Socket_bind, OS_Socket_listen,
       OS_Socket_connect, SocketCall, CloseAndReturn, OS_Socket_close
  <2>2. Woken(s) => Woken(s)'
    BY <1>2, <2>1 DEF Woken
  <2>3. CASE CloseAndReturn(t)
    <3>1. \A h \in Handles : sk'[<<s, h>>] = sk[<<s, h>>] \/ sk'[<<s, h>>] = FreeSocket
      BY <1>1, <2>3, CloseFrees DEF CloseAndReturn
    <3>2. \A h \in Handles : /\ sk'[<<s, h>>].ev \subseteq sk[<<s, h>>].ev
                             /\ sk'[<<s, h>>].st \in {sk[<<s, h>>].st, "free"}
      BY <3>1 DEF FreeSocket
    <3> QED BY <1>3, <2>2, <3>2
  <2>4. CASE ~CloseAndReturn(t)
    <3>1. PICK call, h, from, to, ok : SocketCall(call, tgt[t], h, from, to, ok)
      BY <1>6, <2>4 DEF InitBind, InitListen, InitConnect, OS_Socket_bind, OS_Socket_listen,
         OS_Socket_connect
    <3>2. /\ \A g \in Handles : sk'[<<s, g>>].ev = sk[<<s, g>>].ev
          /\ s # tgt[t] => \A g \in Handles : sk'[<<s, g>>] = sk[<<s, g>>]
      BY <1>1, <3>1 DEF SocketCall, NetTypeOK, SocketRecord
    <3>3. Woken(tgt[t])
      BY <1>6 DEF RegisteredBy, InitBind, InitListen, InitConnect
    <3> QED BY <1>3, <2>2, <3>2, <3>3
  <2> QED BY <2>3, <2>4
<1> QED BY <1>4, <1>5, <1>6 DEF InitStep

\* The set-up goes on to bind or to connect only once the callback is registered.
LEMMA InitStepRegisters ==
    ASSUME NEW labels, NetTypeOK, HelperTypeOK(labels), LoopCallsWork, NEW t \in Threads,
           RegisteredBy(t), \A s \in Stacks : Woken(s) => Woken(s)', InitStep(t)
    PROVE  RegisteredBy(t)'
<1>1. tgt[t] \in Stacks /\ UNCHANGED tgt
  BY DEF HelperTypeOK, InitStep, wait_for_nw_stack_init_nb, InitCreate, InitRegCallback,
         InitBind, InitListen, InitConnect
<1>2. ASSUME NEW label, Goto(t, label)  PROVE pc'[t] = label
  BY <1>2 DEF Goto, HelperTypeOK
<1>3. CASE InitRegCallback(t)
  <2>1. armed'[tgt[t]]
    BY <1>1, <1>3 DEF InitRegCallback, OS_Socket_regCallback, LoopCallsWork, NetTypeOK
  <2> QED BY <1>1, <2>1 DEF RegisteredBy, Woken
<1>4. CASE InitBind(t)
  BY <1>1, <1>4 DEF RegisteredBy, InitBind
<1>5. CASE ~InitRegCallback(t) /\ ~InitBind(t)
  <2>1. pc'[t] \notin {"bind", "listen", "connect"}
    BY <1>2, <1>5 DEF InitStep, wait_for_nw_stack_init_nb, InitCreate, InitListen, InitConnect,
       CloseAndReturn
  <2> QED BY <2>1 DEF RegisteredBy
<1> QED BY <1>3, <1>4, <1>5

\* Of the sockets only those of stack t change, and an event is raised only
\* together with a notification, which is never taken back.
Raises(t) ==
    /\ UNCHANGED armed
    /\ signal[t] => signal'[t]
    /\ \A u \in Stacks : u # t => signal'[u] = signal[u]
    /\ \A u \in Stacks, h \in Handles : u # t => sk'[<<u, h>>] = sk[<<u, h>>]
    /\ \A h \in Handles : sk'[<<t, h>>].ev # {} => sk[<<t, h>>].ev # {} \/ signal'[t]

\* The calls that the handlers make are of this kind.
LEMMA HandlerRaises ==
    ASSUME NetTypeOK, NEW t \in Stacks,
           \/ \E g : \E ok \in BOOLEAN : OS_Socket_close(t, g, ok)
           \/ \E l, g : OS_Socket_accept(t, l, g)
           \/ \E g : OS_Socket_read(t, g)
           \/ UNCHANGED <<sk, armed, signal>>
    PROVE  Raises(t)
<1>1. ASSUME NEW g, NEW ok \in BOOLEAN, OS_Socket_close(t, g, ok)  PROVE Raises(t)
  <2>1. /\ UNCHANGED <<armed, signal>>
        /\ \A k \in Sockets : sk'[k] = sk[k] \/ (k = <<t, g>> /\ sk'[k] = FreeSocket)
    BY <1>1, CloseFrees
  <2> QED BY <2>1 DEF Raises, Sockets, FreeSocket
<1>2. ASSUME NEW l, NEW g, OS_Socket_accept(t, l, g)
      PROVE  Raises(t)
  <2>1. UNCHANGED armed
    BY <1>2 DEF OS_Socket_accept
  <2>2. \A u \in Stacks, h \in Handles : u # t => sk'[<<u, h>>] = sk[<<u, h>>]
    BY <1>2, AcceptOpens
  <2>3. /\ signal[t] => signal'[t]
        /\ sk'[<<t, l>>].ev # sk[<<t, l>>].ev => signal'[t]
        /\ \A u \in Stacks : u # t => signal'[u] = signal[u]
    BY <1>2, AcceptNotifies
  <2>4. /\ sk'[<<t, g>>].ev = {}
        /\ \A h \in Handles : h # l /\ h # g => sk'[<<t, h>>] = sk[<<t, h>>]
    <3>1. sk'[<<t, g>>] = Fresh("open")
      BY <1>2, AcceptFresh
    <3>2. \A h \in Handles : h # l /\ h # g => sk'[<<t, h>>] = sk[<<t, h>>]
      BY <1>2 DEF OS_Socket_accept, NetTypeOK, Sockets, IsIn, FreeHandles
    <3> QED BY <3>1, <3>2 DEF Fresh, FreeSocket
  <2>5. \A h \in Handles : sk'[<<t, h>>].ev # {} => sk[<<t, h>>].ev # {} \/ signal'[t]
    <3> SUFFICES ASSUME NEW h \in Handles, sk'[<<t, h>>].ev # {}, ~signal'[t]
                 PROVE  sk[<<t, h>>].ev # {}
      OBVIOUS
    <3>1. CASE h = l
      BY <2>3, <3>1
    <3>2. CASE h # l /\ h # g
      BY <2>4, <3>2
    <3> QED BY <2>4, <3>1, <3>2
  <2> QED BY <2>1, <2>2, <2>3, <2>5 DEF Raises
<1>3. ASSUME NEW g, OS_Socket_read(t, g)
      PROVE  Raises(t)
  <2>1. g \in Handles /\ <<t, g>> \in Sockets /\ sk[<<t, g>>] \in SocketRecord
    BY <1>3 DEF OS_Socket_read, Readable, Sockets, NetTypeOK
  <2>2. PICK rest :
          /\ sk' = [sk EXCEPT ![<<t, g>>].in = rest,
                              ![<<t, g>>].ev = IF rest # <<>> THEN @ \cup {"READ"} ELSE @]
          /\ signal' = [signal EXCEPT ![t] = @ \/ rest # <<>>]
    BY <1>3 DEF OS_Socket_read
  <2>3. CASE rest # <<>>
    <3>1. /\ signal'[t]
          /\ \A u \in Stacks : u # t => signal'[u] = signal[u]
      BY <2>2, <2>3 DEF NetTypeOK
    <3>2. \A u \in Stacks, h \in Handles : u # t => sk'[<<u, h>>] = sk[<<u, h>>]
      BY <2>1, <2>2 DEF NetTypeOK, Sockets
    <3> QED BY <1>3, <3>1, <3>2 DEF Raises, OS_Socket_read
  <2>4. CASE rest = <<>>
    <3>1. signal' = signal
      BY <2>2, <2>4 DEF NetTypeOK
    <3>2. /\ \A u \in Stacks, h \in Handles : u # t => sk'[<<u, h>>] = sk[<<u, h>>]
          /\ \A h \in Handles : sk'[<<t, h>>].ev = sk[<<t, h>>].ev
      BY <2>1, <2>2, <2>4 DEF NetTypeOK, Sockets, SocketRecord
    <3> QED BY <1>3, <3>1, <3>2 DEF Raises, OS_Socket_read
  <2> QED BY <2>3, <2>4
<1>4. CASE UNCHANGED <<sk, armed, signal>>
  BY <1>4 DEF Raises
<1> QED BY <1>1, <1>2, <1>3, <1>4

\* So no handler catches a stack asleep: its own is awake, the other untouched.
LEMMA HandlerAttentive ==
    ASSUME NEW t \in Stacks, Raises(t), pc[t] \notin {"idle", "fetch"}, pc'[t] # "idle",
           \A u \in Stacks : u # t => pc'[u] = pc[u],
           NEW s \in Stacks, AttentiveTo(s)
    PROVE  AttentiveTo(s)' /\ (Woken(s) => Woken(s)')
<1> USE DEF Raises
<1>1. CASE s # t
  <2>1. pc'[s] = pc[s] /\ armed'[s] = armed[s]
    BY <1>1
  <2> QED BY <1>1, <2>1, AttentiveElsewhere
<1>2. CASE s = t
  <2>1. Woken(s)' /\ pc[s] # "fetch"
    BY <1>2 DEF Woken
  <2> QED BY <1>2, <2>1, AttentiveKept
<1> QED BY <1>1, <1>2

\* Neither the boot of a stack nor a peer catches a stack asleep.
LEMMA EnvironmentAttentive ==
    ASSUME NetTypeOK, (\E s \in Stacks : StackBoot(s)) \/ PeerStep, UNCHANGED pc,
           NEW s \in Stacks, AttentiveTo(s)
    PROVE  AttentiveTo(s)' /\ Woken(s)' = Woken(s)
<1>1. CASE \E u \in Stacks : StackBoot(u)
  BY <1>1, AttentiveElsewhere DEF StackBoot
<1>2. CASE PeerStep
  <2>1. PICK u \in Stacks, h \in Handles, r \in SocketRecord :
           /\ Becomes(u, h, r)
           /\ UNCHANGED armed
           /\ \/ UNCHANGED signal /\ r.st = sk[<<u, h>>].st /\ r.ev = sk[<<u, h>>].ev
              \/ /\ signal' = [signal EXCEPT ![u] = TRUE]
                 /\ sk[<<u, h>>].st \in {"listening", "connecting", "open"}
    BY <1>2, PeerMoves
  <2>2. \A g \in Handles : u # s => sk'[<<s, g>>] = sk[<<s, g>>]
    BY <2>1 DEF Becomes, Sockets
  <2>3. CASE u # s
    <3>1. signal'[s] = signal[s]
      BY <2>1, <2>3 DEF NetTypeOK
    <3> QED BY <2>1, <2>2, <2>3, <3>1, AttentiveElsewhere
  <2>4. CASE u = s
    <3>1. \A g \in Handles : sk'[<<s, g>>] = IF g = h THEN r ELSE sk[<<s, g>>]
      BY <2>1, <2>4 DEF Becomes, Sockets
    <3>2. Woken(s)' = Woken(s)
      BY <2>1 DEF Woken
    <3>3. CASE UNCHANGED signal /\ r.st = sk[<<u, h>>].st /\ r.ev = sk[<<u, h>>].ev
      <4>1. \A g \in Handles : /\ sk'[<<s, g>>].st = sk[<<s, g>>].st
                               /\ sk'[<<s, g>>].ev = sk[<<s, g>>].ev
        BY <2>4, <3>1, <3>3
      <4>2. Pending(s)' = Pending(s)
        BY <4>1 DEF Pending
      <4> QED BY <3>2, <3>3, <4>1, <4>2 DEF AttentiveTo
    <3>4. CASE /\ signal' = [signal EXCEPT ![u] = TRUE]
               /\ sk[<<u, h>>].st \in {"listening", "connecting", "open"}
      <4>1. signal'[s] /\ Woken(s)
        BY <2>4, <3>4 DEF NetTypeOK, AttentiveTo
      <4> QED BY <3>2, <4>1, AttentiveKept
    <3> QED BY <2>1, <3>3, <3>4
  <2> QED BY <2>3, <2>4
<1> QED BY <1>1, <1>2

-----------------------------------------------------------------------------
(* What waits in the socket of the current client, or of the current handle *)
(* where this component is the client.                                     *)

Waiting(u)   == WaitingOn(u, ctx[u].client)
Answering(u) == WaitingOn(u, ctx[u].handle)

\* Every socket of stack u keeps the data that waits in it or is emptied.
InputKept(u) == \A h \in Handles : sk'[<<u, h>>].in \in {sk[<<u, h>>].in, <<>>}

\* Frames wait.
LEMMA WaitingType ==
    ASSUME NetTypeOK, NEW u \in Stacks
    PROVE  /\ \A h : WaitingOn(u, h) \in Seq(Frame)
           /\ Waiting(u) \in Seq(Frame) /\ Answering(u) \in Seq(Frame)
<1>1. ASSUME NEW h PROVE WaitingOn(u, h) \in Seq(Frame)
  <2>1. CASE h \in Handles
    <3>1. sk[<<u, h>>] \in SocketRecord
      BY <2>1 DEF NetTypeOK, Sockets
    <3> QED BY <2>1, <3>1 DEF WaitingOn, SocketRecord
  <2>2. CASE h \notin Handles
    BY <2>2, EmptySeq DEF WaitingOn
  <2> QED BY <2>1, <2>2
<1> QED BY <1>1 DEF Waiting, Answering

\* What waits for the same client, or on the same handle, is kept or dropped
\* with the data of its socket.
LEMMA WaitingKept ==
    ASSUME NEW u \in Stacks, InputKept(u)
    PROVE  /\ ctx'[u].client = ctx[u].client => Waiting(u)' \in {Waiting(u), <<>>}
           /\ ctx'[u].handle = ctx[u].handle => Answering(u)' \in {Answering(u), <<>>}
  BY DEF Waiting, Answering, WaitingOn, InputKept

\* Closing a socket of either stack empties it, and no other one.
LEMMA CloseInput ==
    ASSUME NetTypeOK, NEW s \in Stacks, NEW h, NEW ok \in BOOLEAN, OS_Socket_close(s, h, ok)
    PROVE  \A u \in Stacks : InputKept(u)
<1>1. \A k \in Sockets : sk'[k] = sk[k] \/ sk'[k] = FreeSocket
  BY CloseFrees
<1>2. \A u \in Stacks, g \in Handles : <<u, g>> \in Sockets
  BY DEF Sockets
<1>3. FreeSocket.in = <<>>
  BY DEF FreeSocket
<1> QED BY <1>1, <1>2, <1>3 DEF InputKept

\* Nothing waits yet in a socket that is accepted.
LEMMA AcceptWaiting ==
    ASSUME NetTypeOK, NEW s \in Stacks, NEW l, NEW h \in Handles, OS_Socket_accept(s, l, h),
           ctx'[s].client = h
    PROVE  Waiting(s)' = <<>>
<1>1. sk'[<<s, h>>] = Fresh("open")
  BY AcceptFresh
<1> QED BY <1>1 DEF Waiting, WaitingOn, Fresh, FreeSocket

\* The initialisation sequences send and deliver nothing; a socket that is
\* created is empty, though its handle may be one a client had before.
LEMMA InitStepInput ==
    ASSUME NEW labels, NetTypeOK, HelperTypeOK(labels), NEW t \in Threads, InitStep(t),
           NEW u \in Stacks
    PROVE  /\ UNCHANGED <<wire, sent>>
           /\ Waiting(u)' \in {Waiting(u), <<>>} /\ Answering(u)' \in {Answering(u), <<>>}
<1>1. tgt[t] \in Stacks
  BY DEF HelperTypeOK
<1>2. UNCHANGED <<wire, sent>>
  BY DEF InitStep, wait_for_nw_stack_init_nb, InitCreate, InitRegCallback, InitBind,
         InitListen, InitConnect, CloseAndReturn, OS_Socket_create, OS_Socket_regCallback,
         OS_Socket_bind, OS_Socket_listen, OS_Socket_connect, SocketCall, OS_Socket_close,
         netVars
<1>3. ctx'[u].client = ctx[u].client
  <2>1. ASSUME NEW h, ctx' = [ctx EXCEPT ![tgt[t]].handle = h]
        PROVE  ctx'[u].client = ctx[u].client
    BY <1>1, <2>1 DEF HelperTypeOK, SocketContext
  <2> QED BY <2>1 DEF InitStep, wait_for_nw_stack_init_nb, InitCreate, InitRegCallback,
         InitBind, InitListen, InitConnect
<1>4. \A g \in Handles : <<u, g>> \in Sockets
  BY DEF Sockets
<1>5. InputKept(u)
  <2>1. ASSUME NEW h, NEW ok \in BOOLEAN, OS_Socket_create(tgt[t], h, ok)
        PROVE  InputKept(u)
    <3>1. Fresh("created").in = <<>>
      BY DEF Fresh, FreeSocket
    <3>2. \A k \in Sockets : sk'[k] \in {sk[k], Fresh("created")}
      BY <2>1 DEF OS_Socket_create, NetTypeOK
    <3> QED BY <1>4, <3>1, <3>2 DEF InputKept
  <2>2. ASSUME NEW call, NEW h, NEW from, NEW to, NEW ok \in BOOLEAN,
               SocketCall(call, tgt[t], h, from, to, ok)
        PROVE  InputKept(u)
    <3>1. \A k \in Sockets : sk[k] \in SocketRecord
      BY DEF NetTypeOK
    <3>2. \A k \in Sockets : sk'[k].in = sk[k].in
      BY <2>2, <3>1 DEF SocketCall, NetTypeOK, SocketRecord
    <3> QED BY <1>4, <3>2 DEF InputKept
  <2>3. CASE UNCHANGED sk
    BY <2>3 DEF InputKept
  <2>4. ASSUME CloseAndReturn(t) PROVE InputKept(u)
    BY <1>1, <2>4, CloseInput DEF CloseAndReturn
  <2>5. CASE wait_for_nw_stack_init_nb(t) \/ InitRegCallback(t)
    BY <2>3, <2>5 DEF wait_for_nw_stack_init_nb, InitRegCallback, OS_Socket_regCallback, netVars
  <2>6. CASE InitCreate(t)
    BY <2>1, <2>6 DEF InitCreate
  <2>7. CASE InitBind(t) \/ InitListen(t) \/ InitConnect(t)
    BY <2>2, <2>4, <2>7 DEF InitBind, InitListen, InitConnect, OS_Socket_bind, OS_Socket_listen,
         OS_Socket_connect
  <2> QED BY <2>5, <2>6, <2>7 DEF InitStep
<1>6. Answering(u)' \in {Answering(u), <<>>}
  <2>1. CASE ctx'[u].handle = ctx[u].handle
    BY <1>5, <2>1, WaitingKept
  <2>2. ASSUME NEW h \in Handles, OS_Socket_create(tgt[t], h, TRUE),
               ctx' = [ctx EXCEPT ![tgt[t]].handle = h], tgt[t] = u
        PROVE  Answering(u)' = <<>>
    <3>1. ctx'[u].handle = h
      BY <2>2 DEF HelperTypeOK, SocketContext
    <3>2. sk'[<<u, h>>] = Fresh("created")
      BY <1>4, <2>2 DEF OS_Socket_create, NetTypeOK
    <3> QED BY <3>1, <3>2 DEF Answering, WaitingOn, Fresh, FreeSocket
  <2>3. ASSUME NEW h \in Handles, ctx' = [ctx EXCEPT ![tgt[t]].handle = h], tgt[t] # u
        PROVE  ctx'[u].handle = ctx[u].handle
    BY <1>1, <2>3 DEF HelperTypeOK
  <2> QED BY <2>1, <2>2, <2>3 DEF InitStep, wait_for_nw_stack_init_nb, InitCreate,
         InitRegCallback, InitBind, InitListen, InitConnect
<1> QED BY <1>2, <1>3, <1>5, <1>6, WaitingKept

\* The frame of the callbacks sends and delivers nothing.
LEMMA LoopStepInput ==
    ASSUME NetTypeOK, NEW t \in Stacks, LoopStep(t), NEW u \in Stacks
    PROVE  /\ UNCHANGED <<wire, sent>>
           /\ Waiting(u)' \in {Waiting(u), <<>>} /\ Answering(u)' \in {Answering(u), <<>>}
<1>1. UNCHANGED <<wire, sent, ctx>>
  BY DEF LoopStep, Dispatch, Fetch, Lock, Reset, Rearm, OS_Socket_getPendingEvents,
         OS_Socket_regCallback, netVars
<1>2. InputKept(u)
  <2>1. CASE UNCHANGED sk
    BY <2>1 DEF InputKept
  <2>2. CASE OS_Socket_getPendingEvents(t)
    <3>1. \A g \in Handles : <<u, g>> \in Sockets
      BY DEF Sockets
    <3>2. \A k \in Sockets : sk[k] \in SocketRecord
      BY DEF NetTypeOK
    <3>3. \A k \in Sockets : sk'[k].in = sk[k].in
      BY <2>2, <3>2 DEF OS_Socket_getPendingEvents, SocketRecord
    <3> QED BY <3>1, <3>3 DEF InputKept
  <2> QED BY <2>1, <2>2 DEF LoopStep, Dispatch, Fetch, Lock, Reset, Rearm,
         OS_Socket_regCallback, netVars
<1> QED BY <1>1, <1>2, WaitingKept

\* Of the stacks and the peers only a peer that sends changes what was sent,
\* and what it sends waits behind the rest on its own socket.
LEMMA PeerInput ==
    ASSUME NetTypeOK, (\E s \in Stacks : StackBoot(s)) \/ PeerStep, NEW u \in Stacks, NEW c
    PROVE  /\ UNCHANGED wire
           /\ \/ sent'[u] = sent[u] /\ WaitingOn(u, c)' = WaitingOn(u, c)
              \/ \E f \in Frames[u] :
                    /\ sent'[u] = Append(sent[u], f)
                    /\ WaitingOn(u, c)' \in {WaitingOn(u, c), Append(WaitingOn(u, c), f)}
<1>1. ASSUME \A h \in Handles : sk'[<<u, h>>].in = sk[<<u, h>>].in
      PROVE  WaitingOn(u, c)' = WaitingOn(u, c)
  <2>1. CASE c \in Handles
    BY <1>1, <2>1 DEF WaitingOn
  <2>2. CASE c \notin Handles
    BY <2>2 DEF WaitingOn
  <2> QED BY <2>1, <2>2
<1>2. \A g \in Handles : <<u, g>> \in Sockets
  BY DEF Sockets
<1>3. CASE \E s \in Stacks : StackBoot(s)
  BY <1>1, <1>3 DEF StackBoot
<1>4. ASSUME NEW s \in Stacks, NEW h \in Handles,
             PeerConnect(s, h) \/ PeerGivesUp(s, h) \/ PeerAnswer(s, h) \/ PeerClose(s, h)
      PROVE  UNCHANGED <<wire, sent>> /\ WaitingOn(u, c)' = WaitingOn(u, c)
  <2>1. UNCHANGED <<wire, sent>>
    BY <1>4 DEF PeerConnect, PeerGivesUp, PeerAnswer, PeerClose
  <2>2. sk[<<s, h>>] \in SocketRecord /\ <<s, h>> \in Sockets
    BY DEF NetTypeOK, Sockets
  <2>3. \A k \in Sockets \ {<<s, h>>} : sk'[k] = sk[k]
    BY <1>4 DEF PeerConnect, PeerGivesUp, PeerAnswer, PeerClose, NetTypeOK
  <2>4. sk'[<<s, h>>].in = sk[<<s, h>>].in
    <3>1. sk \in [Sockets -> SocketRecord]
      BY DEF NetTypeOK
    <3>2. CASE PeerConnect(s, h)
      BY <2>2, <3>1, <3>2 DEF PeerConnect, SocketRecord
    <3>3. CASE PeerGivesUp(s, h)
      BY <2>2, <3>1, <3>3 DEF PeerGivesUp, SocketRecord
    <3>4. CASE PeerAnswer(s, h)
      BY <2>2, <3>1, <3>4 DEF PeerAnswer, SocketRecord
    <3>5. CASE PeerClose(s, h)
      BY <2>2, <3>1, <3>5 DEF PeerClose, SocketRecord
    <3> QED BY <1>4, <3>2, <3>3, <3>4, <3>5
  <2> QED BY <1>1, <1>2, <2>1, <2>3, <2>4
<1>5. ASSUME NEW s \in Stacks, NEW h \in Handles, NEW f \in Frames[s], PeerSend(s, h, f)
      PROVE  /\ UNCHANGED wire
             /\ \/ sent'[u] = sent[u] /\ WaitingOn(u, c)' = WaitingOn(u, c)
                \/ /\ sent'[u] = Append(sent[u], f) /\ f \in Frames[u]
                   /\ WaitingOn(u, c)' \in {WaitingOn(u, c), Append(WaitingOn(u, c), f)}
  <2>1. sk[<<s, h>>] \in SocketRecord /\ <<s, h>> \in Sockets
    BY DEF NetTypeOK, Sockets
  <2>2. /\ \A k \in Sockets \ {<<s, h>>} : sk'[k] = sk[k]
        /\ sk'[<<s, h>>].in = Append(sk[<<s, h>>].in, f)
    BY <1>5, <2>1 DEF PeerSend, NetTypeOK, SocketRecord
  <2>3. wire' = wire /\ sent' = [sent EXCEPT ![s] = Append(@, f)]
    BY <1>5 DEF PeerSend
  <2>4. CASE s # u
    <3>1. sent'[u] = sent[u]
      BY <2>3, <2>4 DEF NetTypeOK
    <3>2. \A g \in Handles : sk'[<<u, g>>].in = sk[<<u, g>>].in
      BY <1>2, <2>2, <2>4
    <3> QED BY <1>1, <2>3, <3>1, <3>2
  <2>5. CASE s = u
    <3>1. sent'[u] = Append(sent[u], f) /\ f \in Frames[u]
      BY <2>3, <2>5 DEF NetTypeOK
    <3>2. CASE c = h
      <4>1. WaitingOn(u, c)' = Append(WaitingOn(u, c), f)
        BY <2>2, <2>5, <3>2 DEF WaitingOn
      <4> QED BY <2>3, <3>1, <4>1
    <3>3. CASE c # h
      <4>1. WaitingOn(u, c)' = WaitingOn(u, c)
        BY <1>2, <2>2, <2>5, <3>3 DEF WaitingOn
      <4> QED BY <2>3, <3>1, <4>1
    <3> QED BY <3>2, <3>3
  <2> QED BY <2>4, <2>5
<1>6. CASE PeerStep
  <2>1. PICK s \in Stacks, h \in Handles :
           \/ PeerConnect(s, h) \/ PeerGivesUp(s, h) \/ PeerAnswer(s, h) \/ PeerClose(s, h)
           \/ \E f \in Frames[s] : PeerSend(s, h, f)
    BY <1>6 DEF PeerStep
  <2> QED BY <1>4, <1>5, <2>1
<1> QED BY <1>3, <1>6

\* So for the current client, and for the current handle.
LEMMA EnvironmentInput ==
    ASSUME NetTypeOK, (\E s \in Stacks : StackBoot(s)) \/ PeerStep, UNCHANGED ctx,
           NEW u \in Stacks
    PROVE  /\ UNCHANGED wire
           /\ \/ sent'[u] = sent[u] /\ Waiting(u)' = Waiting(u)
              \/ \E f \in Frames[u] : /\ sent'[u] = Append(sent[u], f)
                                      /\ Waiting(u)' \in {Waiting(u), Append(Waiting(u), f)}
           /\ \/ sent'[u] = sent[u] /\ Answering(u)' = Answering(u)
              \/ \E f \in Frames[u] : /\ sent'[u] = Append(sent[u], f)
                                      /\ Answering(u)' \in {Answering(u), Append(Answering(u), f)}
<1> DEFINE Sends(now, then) ==
              \/ sent'[u] = sent[u] /\ then = now
              \/ \E f \in Frames[u] : sent'[u] = Append(sent[u], f) /\ then \in {now, Append(now, f)}
<1>1. UNCHANGED wire /\ \A c : Sends(WaitingOn(u, c), WaitingOn(u, c)')
  BY PeerInput
<1>2. /\ Waiting(u)' = IF ctx[u].client \in Handles THEN sk'[<<u, ctx[u].client>>].in ELSE <<>>
      /\ Answering(u)' = IF ctx[u].handle \in Handles THEN sk'[<<u, ctx[u].handle>>].in ELSE <<>>
  BY DEF Waiting, Answering, WaitingOn
<1>3. \A c : WaitingOn(u, c)' = IF c \in Handles THEN sk'[<<u, c>>].in ELSE <<>>
  BY DEF WaitingOn
<1>4. \A c : Sends(WaitingOn(u, c), IF c \in Handles THEN sk'[<<u, c>>].in ELSE <<>>)
  BY <1>1, <1>3
<1> HIDE DEF Sends
<1>5. Sends(Waiting(u), Waiting(u)') /\ Sends(Answering(u), Answering(u)')
  BY <1>2, <1>4 DEF Waiting, Answering
<1> QED BY <1>1, <1>5 DEF Sends

\* A read takes the beginning of what waits on a socket.
LEMMA ReadBeginning ==
    ASSUME NetTypeOK, NEW u \in Stacks, NEW h, OS_Socket_read(u, h)
    PROVE  /\ UNCHANGED <<wire, sent>>
           /\ Arrived(u, h) \in Seq(Frame) /\ WaitingOn(u, h)' \in Seq(Frame)
           /\ WaitingOn(u, h) = Arrived(u, h) \o WaitingOn(u, h)'
<1> DEFINE in == sk[<<u, h>>].in
           n  == ReadLen(u, h)
<1>1. h \in Handles /\ WaitingOn(u, h) = in /\ <<u, h>> \in Sockets /\ Readable(u, h)
  BY DEF OS_Socket_read, Readable, WaitingOn, Sockets
<1>2. n \in 1..Len(in) /\ Arrived(u, h) = SubSeq(in, 1, n)
  BY <1>1, ArrivedType DEF Arrived
<1>3. WaitingOn(u, h)' = SubSeq(in, n + 1, Len(in))
  <2>1. sk[<<u, h>>] \in SocketRecord
    BY <1>1 DEF NetTypeOK
  <2>2. sk'[<<u, h>>].in = SubSeq(in, n + 1, Len(in))
    BY <1>1, <2>1 DEF OS_Socket_read, NetTypeOK, SocketRecord
  <2> QED BY <1>1, <2>2 DEF WaitingOn
<1>4. in \in Seq(Frame) /\ Len(in) \in Nat
  BY <1>1, WaitingType, LenProperties
<1>5. UNCHANGED <<wire, sent>>
  BY DEF OS_Socket_read
<1> HIDE DEF in, n
<1>6. /\ SubSeq(in, 1, n) \in Seq(Frame) /\ SubSeq(in, n + 1, Len(in)) \in Seq(Frame)
      /\ SubSeq(in, 1, n) \o SubSeq(in, n + 1, Len(in)) = in
  <2>1. n \in Nat /\ 1 <= n /\ n <= Len(in)
    BY <1>2, <1>4
  <2> QED BY <1>4, <2>1
<1> QED BY <1>1, <1>2, <1>3, <1>5, <1>6

\* So for the current client, and for the current handle.
LEMMA ReadWaiting ==
    ASSUME NetTypeOK, NEW u \in Stacks, NEW h, OS_Socket_read(u, h), UNCHANGED ctx
    PROVE  /\ UNCHANGED <<wire, sent>> /\ Arrived(u, h) \in Seq(Frame)
           /\ h = ctx[u].client => /\ Waiting(u)' \in Seq(Frame)
                                  /\ Waiting(u) = Arrived(u, h) \o Waiting(u)'
           /\ h = ctx[u].handle => /\ Answering(u)' \in Seq(Frame)
                                  /\ Answering(u) = Arrived(u, h) \o Answering(u)'
<1>1. /\ UNCHANGED <<wire, sent>>
      /\ Arrived(u, h) \in Seq(Frame) /\ WaitingOn(u, h)' \in Seq(Frame)
      /\ WaitingOn(u, h) = Arrived(u, h) \o WaitingOn(u, h)'
  BY ReadBeginning
<1>2. h = ctx[u].client => Waiting(u) = WaitingOn(u, h) /\ Waiting(u)' = WaitingOn(u, h)'
  BY DEF Waiting, WaitingOn
<1>3. h = ctx[u].handle => Answering(u) = WaitingOn(u, h) /\ Answering(u)' = WaitingOn(u, h)'
  BY DEF Answering, WaitingOn
<1> QED BY <1>1, <1>2, <1>3
=============================================================================
