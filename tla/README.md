# TLA+ models of demo_vm_drone_sim

This directory holds TLA+ specifications of the TRENTOS part of the drone demo,
of the mission program and of the JSON library it parses sensor data with, the TLC
configurations that check them on small instances, and theorems about
them that the TLA+ proof system checks. Paths and line numbers refer to the
repository (`src/` stands for its root).

The demo relays MAVLink traffic between a mission program in a Linux VM and a
PX4 flight controller. What must not go wrong: PX4 receives only what the filter
set and the geofence allow; what is allowed arrives unchanged and in order; and
the relay keeps running while peers connect, disconnect and fail. Beside it a
second relay brings simulated sensor data to the mission program, which parses it
as JSON: a position is printed whole and once, however the stream is cut.

Contents: [System](#system), [Modules](#modules), [Runs](#runs),
[Bounds](#bounds), [Fairness](#fairness), [Refinement](#refinement),
[Abstractions](#abstractions), [Proofs](#proofs), [Findings](#findings),
[The JSON library](#the-json-library), [Not modelled](#not-modelled),
[Plan](#plan).

## System

| Component | State it keeps | Operations | Interacts with |
|---|---|---|---|
| SerialFilter (`components/SerialFilter/SerialFilter.c`) | two socket contexts `socket_VM`, `socket_PX4` (handle, client_handle, conn_init), the mutex, per-call buffers | `post_init`, `socket_VM_event_callback`, `socket_PX4_event_callback` | both network stacks through the OS_Socket API; its two callbacks share the contexts |
| Socket helper (`libs/util/socket_helper.c`) | none of its own, fills a `socket_ctx_t` | `init_socket_nb_server`, `init_socket_nb_client`, `wait_for_nw_stack_init_nb` | called by `post_init` and, for the PX4 client, by the VM callback |
| MAVLink filter (`mavlink_filter/mavlink_filter.c`) | the parser state `msg`, `status`, `chan`, global | `filter_mavlink_message` and the rules it calls | called by the VM callback with the bytes of one read |
| Geofence (`mavlink_filter/geofence.c`, `system_config.h`) | none, the polygon is a constant | `inside_geofence` | called by the rules |
| SimCoupler (`components/SimCoupler/SimCoupler.c`) | two socket contexts, both servers, a mutex | `post_init`, two event callbacks | both network stacks |
| Network stacks (TRENTOS, outside the repository) | socket table, pending events, one registered callback per client | OS_Socket API, notifications | the peers: VM, PX4 |
| drone_mission (`Tools/drone_mission/drone_mission.cpp`) | the step `main` has reached, `raw_json_buf` with what was received and not yet printed | connect, arm, take off, fly to two targets, return; print a position between them | SimCoupler over TCP, the vehicle through MAVSDK and SerialFilter |
| JSON library (`Tools/drone_mission/json/json.hpp`, vendored) | a `json` value; inside a parse the lexer's buffer and the stacks of the parser and the DOM builders | `parse`, `accept`, `dump`, readers and writers of five binary formats, pointers, patches, element access and modifiers | called by drone_mission, which uses `parse` and `operator[]` |
| CAmkES assembly, VM overlay | configuration | none | fixes who is connected to whom |
| PX4 patch | configuration | none | PX4's parameters |

A connection is set up in this order. `post_init` opens a listening socket on
nwStack_VM. When the VM connects, the VM callback accepts it and, still holding
`SharedResourceMutex`, creates a PX4 socket and starts to connect. From then on
a READ event of the VM side leads to read, filter, write to PX4, and a READ
event of the PX4 side to read, write to the VM. Each callback takes the mutex
once per event and registers itself again when it has gone through the events.

### What is hard

- **Interleaving.** Each stack has an interface thread, so the two callbacks
  and `post_init` run concurrently; the mutex is taken per event, not per
  callback.
- **One-shot notification.** A callback that returns without registering itself
  is never called again. Events can arrive while it runs.
- **Failure.** Every API call can fail, and each failure has its own early
  return or jump: some release the mutex, some do not.
- **Stale state.** `client_handle`, `handle` and `conn_init` describe the latest
  connection while events of an earlier one may be pending.
- **Reconnection.** Each VM connection creates another PX4 socket.
- **Byte streams.** Messages and reads do not line up, and the parser state is
  global.
- **Float geometry.** The fence test decides on rounded numbers.
- **Messages on a stream.** The mission finds the end of a position by a mark and
  prints one per call, while receives cut the stream anywhere, the first of them
  is thrown away, and a receive that fills the buffer leaves no terminating zero.
- **Two ends of a format.** Each JSON format has a writer and a reader that choose
  widths, signs, lengths and escapes on their own; a DOM builder pushes and pops
  its stacks in different functions; a patch shifts the indices that its later
  operations use.

### What makes each component correct

- SerialFilter: callbacks exclude each other; PX4 gets permitted messages only,
  in order; no event loses its wakeup; callbacks return; handles in use are alive;
  a connection that ends closes its own socket, as long as it is the only one.
- Socket helper: leaves a context that its caller can use, or says it failed.
- MAVLink filter: the result does not depend on how the stream is cut; nothing is
  assembled from two connections; the parser finds its way back after one, unless
  payload bytes that look like a start marker lead it astray again; and `ret_buf` is
  written past its end only by what was carried over from earlier reads.
- Geofence: agrees with exact geometry up to one float step.
- SimCoupler: as SerialFilter, without a filter; the socket that listens for
  the VM survives its clients (the one for the proxy does not, see the hazards).
- drone_mission: every position after the first receive is printed once, whole and
  in order; no exception ends a flight; a flight that began comes to its end, or
  waits for a stream that is open and silent.
- JSON library: a text parses if and only if it is JSON (up to a zero byte, and with
  numbers in the range of a double), so no part of a message parses; what is written is read back, and nothing that was cut off is; a
  callback removes exactly what it rejects; pointers, flatten and patches agree
  with each other.

`PROJECT.json` lists each hazard at the line where it bites, with the property
that covers it or the reason why none does yet.

## Modules

```
NetStack <- SocketHelper <- EventLoop <-+- SimCoupler <- MCSimCoupler
                                        |
                                        +- SerialFilter <- MCSerialFilter
Geofence <- MavlinkFilter <-------------+
   |             +------- MavlinkStream <- MCMavlinkStream
   +------ RayCast <- MCRayCast

FilteredRelay      instantiated by SerialFilter and SimCoupler
DroneMission <-+- MCDroneMission
               +- DroneMissionProofs

JsonBytes <- JsonGrammar
JsonBytes <- JsonLexer <-----+- JsonParser <- JsonCallback
JsonBytes <- JsonValue <-----+
                 +- JsonSerializer <- JsonPointer <- JsonPatch <- JsonOperations
                 +- JsonBinary <- JsonCbor
                            <- JsonMsgpack
                            <- JsonBson                    (and JsonSerializer)
                            <- JsonUbjson <- JsonUbjsonWriter  (and JsonLexer)
JsonOperations <- JsonDocument <- MCJsonDocument

Proofs:
EventLoop <- EventLoopProofs <-+- SerialFilterProofs
                               +- SimCouplerProofs
Subsequence <- SubsequenceProofs <-+- FilteredRelayProofs
                                   +- MavlinkStreamProofs   (and MavlinkStream)
                                   +- SerialFilterProofs
RayCast <- RayCastProofs
```

An arrow points to a module from the one it is extended by, left to right.
SerialFilterProofs and SimCouplerProofs also instantiate FilteredRelayProofs.
MavlinkStream and SerialFilter extend Subsequence. SerialFilter and SimCoupler also instantiate
FilteredRelay, and JsonDocument instantiates JsonCallback, the
four modules of binary formats and JsonGrammar. Module names follow the
components; action and operator names follow the functions and API calls.

- **NetStack** (external) is one component's view of the two stacks and the
  peers behind them: a socket table per stack (`sk`: state, pending events,
  unread frames, waiting connections), whether a callback is registered (`armed`)
  and whether the stack has notified (`signal`). `wire` records what was written
  to the peers, `sent` what the peers sent. Each API call is an operator with its
  outcome `ok`. A call fails when its precondition does not hold, and, if
  its name is in `Faults`, at any time.
- **SocketHelper** has `ctx`, the socket contexts, and one action per API call of
  the initialisation sequences; `pc` says where each thread is.
- **EventLoop** is the frame that the event callbacks of SerialFilter and
  SimCoupler share: `Dispatch` (the one-shot callback is taken off and run),
  `Fetch` (`OS_Socket_getPendingEvents`), `Lock`, `Reset` (label `reset_VM` or
  `reset_PX4`: clear the event entry, unlock), `Rearm`. The clearing is modelled
  as written, `eventBuffer` indexed by the handle.
- **SerialFilter** adds what the two callbacks do between lock and unlock:
  `PX4_Close`, `PX4_ConnEst`, `PX4_Read`, `PX4_Write`, `PX4_Ignore`, and
  `VM_Close`, `VM_Accept`, `VM_AcceptFailed`, `VM_InitDone`, `VM_InitFailed`,
  `VM_Read`, `VM_Filter`, `VM_Filtered`, `VM_Write`, `VM_Ignore`. One action is
  one call that can block, fail or be seen by another thread, with the
  assignments up to the next such call.
- **MavlinkFilter** has the rules: `handle_mavlink_package` is TRUE when a
  message is copied to `ret_buf`. `Permitted` states independently of the
  rules' structure what may pass.
- **Geofence** is `inside_geofence` in units of float steps.
- **MavlinkStream** is `filter_mavlink_message` byte by byte, with reads of any
  length and connections that end anywhere.
- **RayCast** is the loop of `inside_geofence`, one iteration per step, together
  with the geometry it should compute.
- **SimCoupler** is the relay of sensor data: `post_init` starts a server on each
  stack (`SecondServer`, `InitsDone`); both callbacks accept (`PX4_Accept`,
  `VM_Accept`, `PX4_AcceptFailed`, `VM_AcceptFailed`) and close (`PX4_Close`, which
  always takes the listening socket, `VM_Close`, which tells the two apart); only
  the PX4 side reads (`PX4_Read`) and writes to the VM (`PX4_Write`).
- **FilteredRelay** is the abstract specification of one direction of a relay: a
  queue between what was `sent` and what was `delivered`, which may lose any
  message, delivers allowed ones only, and keeps their order.
- **DroneMission** is `main` of the mission program: `Plan` lists the calls that
  can wait, fail or be noticed outside, `step` is the position in it. The
  receiving, slicing and parsing of positions (`first_read`, `recv`,
  `print_current_output`, `SliceAndPrint`) work on a stream whose characters know
  the message they belong to. `Arrive` and `Close` are SimCoupler's, `Land` the
  vehicle's.
- **JsonBytes** has bytes, 64-bit words and decimals; **JsonValue** the values
  of `basic_json`, with `operator==`, SAX events and `json_sax_dom_parser`.
- **JsonLexer** is `lexer` (tokens, escapes, UTF-8, comments, the number
  automaton); **JsonParser** `sax_parse_internal`, `parse` and `accept`;
  **JsonCallback** `json_sax_dom_callback_parser`.
- **JsonSerializer** is `serializer::dump`.
- **JsonBinary** has what all binary formats share; **JsonCbor**,
  **JsonMsgpack**, **JsonBson** hold a reader and a writer each, **JsonUbjson** the
  reader of UBJSON and BJData and **JsonUbjsonWriter** their writer.
- **JsonPointer** is `json_pointer` with `flatten` and `unflatten`, **JsonPatch**
  `patch_inplace`, `diff` and `merge_patch`, **JsonOperations** the members of
  `basic_json` that change a value.
- **JsonDocument** is a program that uses them: text arrives in fragments
  (`Receive`), is loaded when it parses (`Load`), and a document is changed by one
  action per modifier.
- **JsonGrammar** is the reference the parser is compared with: RFC 8259, read as
  ways to split a text, not as a scanner. It models no code.
- **MCSerialFilter**, **MCMavlinkStream**, **MCRayCast**, **MCSimCoupler**,
  **MCDroneMission**, **MCJsonDocument** give the constants their values for TLC.
- **EventLoopProofs** has what both relays' proofs share: what each API call, each
  peer and the frame of the callbacks do to the types, the mutex, the sockets in
  use, the wakeups and the data under way. **SerialFilterProofs** and
  **SimCouplerProofs** have the theorems of each relay and their refinements,
  **FilteredRelayProofs** what the abstract relay promises, **MavlinkStreamProofs** the
  byte loop and the parser, **RayCastProofs** the fence, **DroneMissionProofs** the
  mission.
- **Subsequence** has what is kept of a sequence (`Keep`, `Without`) and what is part of
  one (`InOrder`); **SubsequenceProofs** has the laws, and says with an increasing map of
  places that one sequence is part of another (`Embedded`).

Operators introduced by a comment "Variant of ..." are not part of any
specification. Each is a plausible slip in the definition it names; putting it in
the definition's place makes one property fail, which shows that the property
depends on that code. `PROJECT.json` ("mutants") pairs them.

## Runs

| Run | Instance | What it checks | What it shows |
|---|---|---|---|
| SerialFilter_faults | one connection, every call may fail | `TypeOK`, `MutualExclusion`, `OnlyPermitted`, `RelayInOrder`, `ImplementsRelay` | safety survives any combination of failing calls: callbacks exclude each other, PX4 gets only permitted messages, as a subsequence of what the VM sent; the VM gets one of what PX4 sent, with filler in between; and every step is one of the abstract relay, each way |
| SerialFilter_nominal | one connection, calls fail only with a reason, fair threads | `Responsive`, `CallbacksReturn`, `VMDataServed` | no wakeup is lost, no callback gets stuck, what the VM sends is consumed |
| SerialFilter_reconnect | two VM clients, one after the other or at once, three sockets, accepts that fail | `ClientAlive`, `ClosesOwnConnection` | the handle PX4's data is written to is never a dead or recycled one; whenever the stack knows one connection, FIN closes the socket it came from, also after there were two |
| MavlinkStream | four messages, two broken connections, payload bytes that may look like a start marker | `CutsDoNotMatter`, `NothingSpliced`, `Resynchronises`, `OverrunWithinCarried` | cuts lose nothing; a broken connection forges nothing; behind its last false start the parser loses at most the messages that begin within the longest message; `ret_buf` is overrun, by no more than was carried over |
| RayCast | 28 000 points | `RayCastCorrect`, `ParityIsTheLoop` | the float test agrees with exact geometry off the border; the closed form in Geofence is the loop |
| SimCoupler | one proxy and one VM client, every failure after which a callback goes on, fair threads | `TypeOK`, `MutualExclusion`, `VMClientAlive`, `Responsive`, `ImplementsRelay`, `ServerSurvivesClients`, `CallbacksReturn`, `EachArrivalRead` | sensor data reaches the VM in order and unchanged, is never written to a dead handle; each arrival leads to a read, which may fail; no wakeup is lost; only a failed accept takes the VM's listening socket away |
| DroneMission | seven positions in any pieces, the stream ending anywhere | `TypeOK`, `PrintsEachMessage`, `NeverAborts`, `BufferBounded`, `FlightEnds` | whatever the cuts, positions after the first receive are printed once, whole and in order, the backlog stays in the socket, until a receive fills the buffer; a flight that began ends or waits for a stream that is open and silent |
| JsonDocument | texts of up to five fragments, 128 documents, and 8 drafts changed once in every way | `AcceptsTheGrammar`, `DumpReadsBack`, `CallbackPrunes`, `CborReadsBack`, `MsgpackReadsBack`, `UbjsonReadsBack`, `BsonReadsBack`, `PointersAgree`, `FlattenRestores`, `DiffRestores`, `MergeApplies` | the parser accepts JSON, wherever the text was cut, and nothing else, with two exceptions (a zero byte ends the text, a number out of range is refused); text, CBOR, MessagePack, UBJSON, BJData and BSON read back what was written, and all binary readers but BSON's refuse what ends within its first eleven bytes; pointers, flatten, diff and merge agree with what they should do |
| SerialFilter_mutex | two connection attempts, fair threads | `MutexReleased` is violated | see Findings |
| SerialFilter_close | two clients at a time | `ClosesOwnSocket` is violated | see Findings |
| SerialFilter_padding | one connection | `NothingMadeUp` is violated | see Findings |
| SerialFilter_established | one connection, fair threads | `PX4DataServed` is violated | see Findings |

Deadlock is not checked in these runs: peers need not connect or send, a
callback that gave up is never called again, the mission ends, and a document need
not be changed, so the system really may stop. That it does not stop too early is
the subject of the liveness properties.

## Bounds

- `Handles`: {0, 1} gives each stack a listening socket and one connection, or
  two PX4 sockets, so a full socket table is one step away. {0, 1, 2} is used
  where two clients may be open together: in SerialFilter_reconnect and
  SerialFilter_close. The repository gives each client four sockets
  (vm_drone_sim.camkes:270-280); the theorems hold for any number.
- SerialFilter_reconnect: no data is sent (`NoSends`), as both properties are about
  handles; and accepts fail, also for no reason, which closes the listening socket
  while clients are there.
- `MaxConns`: 1 or 2 connection attempts per stack. A second one is what it takes
  to find state left by the first.
- `MaxSends`: two messages from the VM (a permitted and a refused one in either
  order, or the same twice) and one from PX4. Two are needed for
  order; one of PX4 is enough for repetition on the way back, where nothing is
  filtered, and the theorems hold for any number.
- `MTU` = 2 messages in SerialFilter, so that a read may or may not cover all
  that arrived.
- `Frames`: a takeoff inside the fence and a COMMAND_INT outside, both taken from
  the mission program (`drone_mission.cpp:213`, `218`). All other branches of the
  rules are inputs of MavlinkStream.
- MavlinkStream: messages of 3 and 4 bytes, reads of at most 4, so that a read
  may hold parts of two messages and a message may need several reads; a byte
  misread as a length may stand for 3, 4 or 5. Four messages are enough for a
  cut one, a false start in the next, and one beyond the reach of both; `ret_buf` is
  overrun already by two, of which the first was carried over.
- RayCast: a grid over the fence and its surroundings and every point within 4
  float steps of each vertex, where rounding and ties happen.

- SimCoupler: two handles for each stack, one connection each way and two
  positions, so that one can be in the callback's hands while the next arrives. A
  second proxy is out of these bounds: accepted, it takes the first one's place in
  `client_handle`, and `EachArrivalRead` does not hold for the first any more.
- DroneMission: seven messages, five of one character, one of two, and one
  longer than the receive buffer of four. A receive may hold several messages, a part
  of one, or fill the buffer; one message can be skipped, cut or wait in the backlog at each
  of the mission's steps, and the stream can end before, at and after them.
- JsonDocument, texts: six alphabets of fragments, all sequences of up to three
  to five of them: the structural characters; members and nesting; the
  characters of numbers; numbers on both sides of the largest double; zero bytes
  before, inside and behind values; and inside a string escapes, surrogate pairs, UTF-8 of up
  to four bytes and what looks like it. Since every prefix is a state, every cut is.
- JsonDocument, values: numbers on both sides of each width of each format,
  strings, binaries and containers around the lengths that have a form of their own,
  strings that are not UTF-8, and small documents. `MaxEdits` is 1: the
  differences compared are between a document and what one operation made of it.
- `MaxString` 32: longer strings are not dumped (dump and scan go byte by byte).
  `MaxSize` 10^6: a length read from a binary input is cut there; no input of a run
  is that long, so both mean that the input ends early.

The theorems below hold without these bounds.

## Fairness

`FairSpec` assumes weak fairness of each of the three threads and of the boot of
the stacks: seL4 schedules every thread that can run, and a stack that starts
either runs or reports a fatal error. Nothing is assumed of the peers, and no
strong fairness of the mutex: a callback that waits for it is continuously
enabled only while it is free, and that is enough because a callback that holds it
finishes its event and then has a finite number left.

SimCoupler's `FairSpec` is the same. Its liveness is checked for the failures in
`Survivable`, all after which a callback goes on and registers itself again, a failed
read among them; left out are those of registering, getPendingEvents, lock and
unlock, after which nothing is served (see the hazards). A read that fails consumes its
event, and the data stays in the socket until more arrives: `EachArrivalRead` promises
one read for each arrival that was reported, not that it succeeds.

DroneMission's assumes that the program runs on (`Mission`) and that the drone
comes down once it is on its return (`Land`: in the air for ever is for PX4 to
rule out). Nothing is assumed of the stream: when the proxy disconnects, SimCoupler
closes its own listening socket (SimCoupler.c:107) and the VM's connection stays open,
so a blocking `recv` without a timeout may wait for ever, in flight too. `FlightEnds`
says that this wait (`WaitsInRecv`) is the only thing that can hold the flight up.

## Refinement

`ImplementsRelay` is FilteredRelay under a mapping that is checked step by step;
in SerialFilter it is two of them, `Relay!Spec` and `RelayBack!Spec`, one each way:

| FilteredRelay | SerialFilter, VM to PX4 | SerialFilter, PX4 to VM | SimCoupler, proxy to VM |
|---|---|---|---|
| `sent` | what the VM sent, `sent["VM"]` | what PX4 sent, `sent["PX4"]` | what the proxy sent, `sent["PX4"]` |
| `queue` | `ret_buf`, then `buf["VM"]`, then what waits in the client's socket | `buf["PX4"]`, then what waits in the socket of the current handle | `buf`, then what waits in the client's socket |
| `delivered` | what was written to PX4, `wire["PX4"]` | what was written to the VM, `wire["VM"]`, without filler | what was written to the VM, `wire["VM"]` |
| `Allowed` | messages that `Permitted` describes | any message | any message |

A read, and a message the filter passes, move the boundaries inside `queue` and
are stuttering steps; a dropped message, a failed or short write, a closed socket
and a new socket in the place of an old one lose messages from it; a write delivers
its front. On the way back SerialFilter writes its whole zeroed buffer (line 140),
so the mapping leaves the filler out (`WithoutFiller`): the padding adds filler and
changes nothing else of what arrives. That filler is written at all is the finding
below.

## Abstractions

- In SerialFilter a frame is a whole MAVLink message, and `MTU` counts frames;
  MavlinkStream looks at bytes. Any byte of a message but the first may equal the
  start marker, by a choice made when the parser looks at it. A byte misread as a
  length may stand for any length, and bytes that are not one message from its
  start marker on have no right checksum.
- `ret_buf` has `MTU` bytes (SerialFilter.c:264) and nothing checks what is appended
  (mavlink_filter.c:149). A call that writes past them is undefined behaviour: the
  model reaches that state (`Overrun`) and goes no further in that call, so that the other
  properties of MavlinkStream say what holds until then.
- A callback may start while `post_init` still runs. Whether CAmkES allows this is
  outside the repository; the model includes it, so what holds does not depend on it.
- A connection reset is treated as FIN (both callbacks treat ERROR and FIN alike);
  ERROR itself occurs when PX4 refuses a connection.
- `OS_Socket_regCallback` on an interface that has a callback may fail or succeed;
  the callers do not say which they expect, so both are modelled.
- A socket handle that was never set makes every call on it fail.
- The range test of the event's handle (SerialFilter.c:100, 207) is always passed:
  handles are those the stack gave out.
- Floats are integers in units of their spacing around the fence. All but the
  final sum is exact there, and that sum is rounded as C does. Far away floats are
  coarser, and every such point is outside.
- Log output, the printed address and the copy of HOME_POSITION into a local
  variable that nothing reads are left out.
- DroneMission: the stream is given by where its end marks are (`Mark`), with at
  least one character before each. A character knows its message and its place in it. A piece of one
  position is never JSON by itself, which AcceptsTheGrammar supports for objects (a
  position holds no zero byte, as `+= buf` would end at it); a
  text with characters of several, or from behind the buffer, may parse as
  anything. `recv` of a full buffer appends what lies behind it up to a zero
  (drone_mission.cpp:109): `overrun` marks that, and the properties say what holds
  until then.
- A double of the JSON modules is a decimal of at most 17 digits. `strtod` and
  64-bit arithmetic are external; the digits grisu2 generates are those of the
  decimal, and `Ieee` lists what IEEE 754 makes of the doubles the run uses.
- The lexer scans all tokens of a text before the parser looks at them; the one
  that the source scans for reaches the same tokens one at a time.
- Byte-by-byte cases of the binary readers (`case 0x00: case 0x01: ...`) are ranges.
- Exceptions are results: an error id with the value as it was left.
- `sent` and `arrived` are history variables: no action's guard but the bound on
  messages reads them.

## Proofs

Everything in this section holds for every value of the constants: any set of
handles, any messages, any set of calls that may fail, any number of connections and
of messages, any stream of positions and any size of the receive buffer. Assumed are
only `NetAssumption` (handles are natural numbers, filler is not a message, bounds
are natural numbers), `StreamAssumption` (a message is at least three bytes long and
at most `MaxLength`), `PointsAssumption` (targets have integer coordinates, in float
steps) and `MissionAssumption` (end marks with a message before each, a
buffer of at least one byte). Where a theorem needs more, its statement says so.

| Theorem | SerialFilter | SimCoupler | MavlinkStream | RayCast | DroneMission |
|---|---|---|---|---|---|
| `TypeCorrect` | yes | yes | a lemma | part of `SoFar` | yes |
| `MutualExclusionHolds` | yes | yes | | | |
| `OnlyPermittedHolds` | yes | no filter | | | |
| `ClientAliveHolds`, `VMClientAliveHolds` | yes | yes | | | |
| `ServerSurvivesClientsHolds` | | yes | | | |
| `ResponsiveHolds` | under two hypotheses | under one hypothesis | | | |
| `ClosesOwnConnectionHolds` | yes | | | | |
| `ImplementsRelayHolds` | yes, both ways | yes | | | |
| `RelayInOrderHolds`, `SensorDataInOrder` | yes, both ways | yes | | | |
| `CutsDoNotMatterHolds`, `NothingSplicedHolds`, `ResynchronisesHolds`, `OverrunWithinCarriedHolds` | | | yes | | |
| `RayCastCorrectHolds`, `ParityIsTheLoopHolds` | | | | yes | |
| `PrintsEachMessageHolds`, `NeverAbortsHolds`, `BufferBoundedHolds` | | | | | yes |

The arguments, and the inductive invariant of each:

- **Types.** `TypeOK` is inductive by itself. One lemma per API call says what it keeps
  of the stacks' types, one per action or group of actions combines them.
- **Mutual exclusion** says that a callback inside its critical section owns the
  mutex; since the mutex has one owner the two callbacks exclude each other. It is
  inductive relative to `TypeOK`: only `Lock` enters, and only with the mutex free;
  only `Reset` releases it, and it leaves; every other step keeps the mutex and
  moves a thread that is inside, or one that does not end up inside (`MutexKept`). In
  SerialFilter the critical section includes the initialisation of the PX4 socket,
  which the VM thread runs under the mutex.
- **OnlyPermitted** is not inductive: the write takes its data from `ret_buf`. `Sifted`
  adds that `ret_buf` holds permitted messages only. `FilterSound` shows for every
  message that the rules accept only what `Permitted` describes; a write that is cut
  short keeps a prefix.
- **ClientAlive, VMClientAlive.** A client would die by a close that takes the wrong
  handle, and that a close takes the right one depends on the events: a FIN on the
  listening socket must be impossible, and so must an accept that reuses a
  handle in use. `ServerOK` says so: the server's socket listens and stays apart from
  the client, no down event is pending or in hand for it (`RoleOK`), a client in use is
  open, and `close` is reached only with a down event. SimCoupler's `Served` has
  the same for its set-up, `Unset` in SerialFilter that no client exists before the
  server does.
- **ServerSurvivesClients** is an action property and follows from `Served`: of all
  steps only a failed accept takes the socket that listens away.
- **ClosesOwnConnection** is an action property: whenever the VM's stack knows a single
  connection, ended ones that were not closed included, a callback closes the socket
  whose event it handles. It does not ask that there was never a second one; with
  two at once the wrong one may be closed (`ClosesOwnSocket`, second finding below).
  The callback closes `client_handle` whatever the event's handle is, so it is right
  only if the event's socket is still the client: an event of an ended connection must
  not outlive its socket, or its handle could have gone to the next one. The inductive
  invariant is `Leftover \/ Orderly`. `Orderly`: a socket whose end is pending or still to
  be handled is in use; before the server is set up there are no events and no
  connections; and the socket whose event is being handled is not in the list of those
  to come. `Leftover`: there was a second connection, and one is now known to the stack
  that the callback has lost. Nothing closes that one any more (`OnlyCloseFrees`,
  `LeftoverStays`), so that if only a single connection is known then, it is not
  the one that a callback can close. It rests on `ServerOK` and `SetUp` (the server is
  set up once).
- **Responsive.** `Attentive` is the invariant: pending events have been notified or are
  about to be fetched; and somebody waits for the notification, or is at work, unless
  every socket of that stack is still without events (before the callback is
  registered). It is what fails if a callback returns unregistered. So the theorems
  assume `LoopCallsWork`: `regCallback`, `getPendingEvents`, `lock` and `unlock` do not
  fail; all other calls may. SerialFilter's assumes besides that the VM callback never
  finds the PX4 socket impossible to initialise, `[](pc["VM"] # "init_err")`: it
  would return without registering itself and with the mutex locked, which is the first
  finding below. Behaviours that meet this exist, those of run SerialFilter_nominal
  among them.
- **Refinement and order.** The `queue` of a relay is the sequence of what is under
  way (`UnderWay`, `UnderWayBack`). Each call is shown to be a step of `FilteredRelay` or to leave its three
  variables alone: reads and the filter move messages inside the queue or lose them, a
  write, whole or cut, delivers a front. For that the parts must be filled in turn:
  `HoldsBuf` and `HoldsBack` say that the buffers are empty outside the event that
  fills them. From PX4 to the VM a write is padded, and may be cut inside the data or
  inside the filler: `PaddedWrite` shows that, filler left out, it adds a front of
  the data in either case (`WithoutOfConcat` is the law on sequences behind it). The
  abstract relay's own invariant is `NothingMadeUp`: `delivered \o queue` is embedded in
  `sent`. It is proved once; `RelayInOrderHolds` and `SensorDataInOrder` are its
  consequence through the refinement. `Embedded` names the places in `sent` by an
  increasing function, which can be composed and cut without induction;
  `EmbeddedInOrder` turns it into the subsets of places that `InOrder` counts.
- **The byte stream.** Four invariants that rest on each other. `Measured`: inside a
  message the parser knows how much is to come, rightly if the bytes so far are those
  of one message; it gives `OverrunWithinCarried`, because a byte moves from the read to
  the parser to `ret_buf` or is dropped. `Wired`: what the loop has not reached (`Stream`)
  is the end of what was written over this connection, byte behind byte. `Framed` ties
  the parser to it: in a message of this connection the next byte is the one it waits
  for; with a leftover of an earlier connection, or in a message begun falsely, it holds
  more bytes than it has seen of this connection since then (`Here < astray + status.got`),
  hence loses less than the longest message; outside a message the next byte begins one, unless it belongs to a message that began within
  `Reach`. `Ordered`: messages arrive in the order in which they begin. From these the
  last byte of a permitted message beyond `Reach` completes it (`LastByteCompletes`);
  `Reach` is 0 on a first connection, which makes `CutsDoNotMatter`, and one less than the
  longest message behind the last false start (`astray`) on later ones, which makes
  `Resynchronises`: no byte need differ from the start marker, but each false start moves
  the place from which on nothing is lost. For `NothingSpliced`,
  `Passed` embeds what was passed on in what arrived.
- **The fence.** `SoFar` is the loop's invariant: `c` is the parity of the crossed edges
  among those visited; at the end these are all, which is `ParityIsTheLoop`. The vertices
  are those of the configuration, so each product has a constant factor and the number
  of edges is four.
  `Rounded` bounds what the rounding of a crossing can do, `SideOfCrossing` turns the
  comparison of floats into the side of the edge on which a point farther than a step
  lies. The rest is convexity: the parallel of a point is spanned by two edges or by none, and
  the point is inside if and only if its ray crosses exactly one of the two.
- **The mission.** `KeepsUp` is inductive: types; nothing is printed before the first
  receive (`PrintsLater`); and until a receive overruns the buffer, `InHand`, and main
  has not aborted. `InHand` has three parts. What is in hand is the last piece
  received. What lies before it ends at a boundary of messages, or at the place where
  the first receive cut the stream (`Boundary`), and of what lies before it all whole
  messages were printed. And if a mark is in hand it is the reason for which
  `BufferBounded` holds: everything before the last receive is without a mark, so less
  than one message. `CutOff` is the main lemma: what lies before the first mark of a
  piece that begins at a boundary is a whole message or the rest of the one the first
  receive cut, never parts of two. It rests on lemmas about streams of any length
  (`Marks`, `Places`, `Unmarked`, `Pieces`).

Only model-checked:

- Liveness (`CallbacksReturn`, `VMDataServed`, `EachArrivalRead`, `FlightEnds`): it needs
  fairness and ENABLED, which the prover does not handle.
- The JSON modules are recursive: their eleven properties compare recursive functions on
  trees and texts, which needs recursive operators and induction over the data.

## Findings

- **SerialFilter.c:254** (run SerialFilter_mutex). When the PX4 socket cannot be
  initialised, the VM callback returns without unlocking the mutex and without
  registering itself. A reconnection of the VM is enough: each accept creates one
  more PX4 socket and registers the PX4 callback again, until one of these fails.
- **SerialFilter.c:219** (run SerialFilter_close). The comment above says "Find
  socket handle through socket id"; the code tells the listening socket from all
  others and then closes the latest client. With two clients the end of the first
  closes the second.
- **SerialFilter.c:142** (run SerialFilter_padding). The write to the VM has the
  length of the buffer, not of what was read. `SimCoupler.c:160` has it right.
- **SerialFilter.c:121** (run SerialFilter_established). READ is handled only if
  CONN_EST is not in the same mask; events are reported once, so data that arrives
  with the establishment is not read until PX4 sends again.

## The JSON library

What one learns about `json.hpp` (a vendored release of nlohmann/json) from making
the properties of JsonDocument precise. None contradicts what the library says,
but each is an exception that a property names:

- `==` compares an integer with an unsigned one by a cast: `json(-1)` equals
  `json(2^64 - 1)` (`Equal`).
- The CBOR reader computes -1 - n without a check, so n of 2^63 and more wraps to a
  positive number; a length of eight bytes of ones is taken for "indefinite".
- A callback that rejects a scalar or an array inside an object leaves a
  discarded value there: `end_object` erases at most one, and only after an object.
  `CallbackPrunes` is therefore about callbacks that reject keys and objects.
- The BSON reader does not look at the sizes, nor at the last byte of a string;
  so a cut input is looked for in the other formats only.
- The prefix of a typed BJData container knows no `m`: numbers from 2^31 to
  2^32 - 1 in one do not read back (`HasUint32`). A binary comes back as an array.
- `unflatten` makes an array of an object whose first key is "0" (`HasKeyZero`), and
  flatten turns an empty container into null.
- A patch that removes below a primitive does nothing, silently; one that adds
  below a primitive reaches `JSON_ASSERT(false)`, which its comment excludes.
- `update` and `patch_inplace` leave what they had done when they throw.
- `contains` answers FALSE for most tokens that cannot be an index, but for two of
  them, below an array, it throws as `at` does: 404 for the empty token, and 410 (or 404)
  for an index too large (json.hpp:14344). The errors its comment announces, 106 and
  109, are never thrown. `PointersAgree` says so: where `contains` throws, `at` throws
  the same.
- A zero byte ends the text (json.hpp:8889-8893): what follows it is not looked at, and
  `1`, a zero byte and anything is the number 1. A number that no double holds, 1e400 say,
  is JSON and is refused with error 406 (json.hpp:12370-12375). `JsonGrammar` has both
  (`UpToZero`, `InRange`).

## Not modelled

- The sharing of a stack between SerialFilter and SimCoupler, which are both
  clients of nwStack_VM: each is modelled with its own view of the stacks. How
  the stack divides sockets and events between its clients is not in the repository.
- The MAVLink library, MAVSDK and the vehicle: external; only what the callers rely
  on (a message is returned when its last byte completes a correct checksum; a
  call succeeds or fails).
- CAmkES assembly, build files, VM overlay, PX4 patch: no behaviour of their own.
- Of the JSON library: iterators and the ordering of values, conversions from and to
  C++ types, initializer lists, input and output adapters (files, iterators and
  wide strings among them), `ordered_map`, and how grisu2 finds a double's digits.
  The first four are templates over the caller's types, with no state of their own;
  grisu2 is arithmetic on 64-bit significands that only exhaustive testing of
  doubles would say something about.
- `OS_Socket` handles other than 0, 1, ...: see the hazard on `eventBuffer`.

## Plan

Done: the relay (NetStack, SocketHelper, EventLoop, Geofence, MavlinkFilter,
SerialFilter, MavlinkStream, RayCast), SimCoupler, FilteredRelay, DroneMission and the
JSON library, checked; and proved, every safety property of the relays, the byte
stream, the fence and the mission that a passing run checks, and the three refinements.

What could be added:

1. A run of SerialFilter with three sockets that have events at once, with a property
   that says which events must survive: `memset(&eventBuffer[handle])` then clears an
   entry that was not yet handled.
2. NetStack: what a stack promises its client, as theorems of their own: nothing is read
   that was not sent, and each frame once. The refinements contain this today.
