# MacHoma in TLA+

MacHoma is a user-space implementation of the Homa RPC transport over raw IPv4
(protocol 146), with test fixtures that connect it to the Linux kernel's Homa
module. This directory holds TLA+ models of it, the TLC runs that check them on
small instances, and TLAPS proofs for all instances. Paths are relative to the
repository (`endpoint.go` is `src/endpoint.go` here).

## The system

| Part | State | Operations | Interacts with |
| --- | --- | --- | --- |
| RPC table (`endpoint.go`) | `rpcs`, `stats.BufferedBytes`, `workers`, `cutoffs`, `nextID`, `closed`, all under `Endpoint.mu` | `Call`, cancel, `receive` per packet type, timer tick, handler start and return, `finish`, `shutdown` | callers (the `result` channel), handler goroutines, the queues |
| Queues and loops (`endpoint.go`) | eight bounded queues, the `wake` channel, three goroutines | `send`, `dequeue`, `writeLoop`, `readLoop`, `timerLoop`, `Close` | `PacketIO` without the lock, the table with it |
| Two endpoints | the above twice, packets under way | all of the above, loss, duplication, restart | applications |
| Packet headers (`internal/wire/wire.go`) | none | `Marshal`, `Parse`, `EffectiveOffset`, `ValidateBounds` | `send`, `readLoop` |
| LAN relay (`interop/lanrelay/main.go`) | counters, acks, one Ethernet stream, a guest process, a ready file, a report | `lanToVM`, `vmToLAN`, the polling loop of `run`, its deferred cleanup | raw socket, QEMU, a signal and a deadline |
| Packet adapters (`rawip.go`; `nic` in `interop/vmcheck/main.go`) | one socket or stream, its `IP_TOS`, a shared read buffer, two mutexes | `WritePacket`, `ReadPacket` (with the answer to ARP), `Close` | any goroutines, the loops of an endpoint among them |
| Benchmark server (`cmd/homa-bench`, `serve`) | listener, map of connections, goroutines, context | accept, admit or refuse, echo, `shutdown` (twice), return | benchmark client |
| Programs that call (`homa-bench client`, `homa-echo`, `vmcheck`) | position in the plan of calls, samples, results, output file | open, dial, call and verify, summarize, report | a Homa peer, the benchmark server, the guest |
| Configuration (`endpoint.go`, `api.go`) | none | `defaults` | `New` |
| Linux peer and guest (C), vendored headers | | | not modelled, see below |

What is hard here: one call can be ended by completion, cancellation, expiry, a
write error and shutdown at once; a handler outlives its RPC; a key can be taken
again while packets and handlers of its former RPC are around; bytes are reserved
and released in many places; packets are checked under a lock and written without
it; everything on the network can be lost, repeated and reordered, and the
protocol repairs it with three kinds of packet. `PROJECT.json` lists these hazards
with their lines and the properties that cover them.

What makes each part correct:

* RPC table: every reserved byte belongs to one live RPC and is released with it;
  every worker slot belongs to one running handler; limits hold; every call gets
  exactly one result; a request starts its handler at most once per struct; nothing
  is sent beyond what was granted; a closed endpoint holds nothing.
* Queues and loops: a packet never waits for a sleeping writer; of an RPC that is
  gone at most the packet in the writer's hands is written; a write error ends only the RPC it belongs to; `Close`
  ends, and the loops are quiet after it.
* Two endpoints: the handler gets the request that was sent, once while the server
  keeps its state; an ACK is sent only by a client that has its response; loss is
  repaired.
* Headers: what is marshalled parses to itself; damaged input is refused; segments
  that pass the checks land inside the buffer, and none changes what is there.
* Relay: it reports success only for traffic that crossed in both directions, counts
  what crossed, never interleaves two Ethernet frames, leaves no ready file behind
  and always reports.
* Packet adapters: a packet leaves with its own priority; a datagram goes to one
  reader, unmixed; a frame is not interrupted; `Close` unblocks everybody.
* Benchmark server: at most 16 connections, each known to the map as long as it is
  served; shutdown misses none; `serve` returns, and leaves nothing behind.
* Programs: each latency belongs to the reply of its own call; "passed" means that
  every planned call was verified; the report goes into a file of the program's own,
  and a failed run leaves none.
* Configuration: what `defaults` accepts is what the endpoint relies on.

## Modules

| Module | Models | Extends or instantiates |
| --- | --- | --- |
| `Sums` | sums over the structs of a set | |
| `Endpoint` | RPC table, budget, workers, callers, packet handlers | `Sums` |
| `Outbound` | queues, loops, shutdown and `Close` | |
| `RpcService` | what a client and a server promise together (abstract) | |
| `Calls` | messages, identifiers and keys of the calls between a client and a server | |
| `Exchange` | a client, a server and a network | `Calls`, `Endpoint` twice (through `EndpointContent`), `RpcService` |
| `Config` | `defaults` | |
| `Wire` | headers as bytes, and what is stored of DATA | |
| `PacketIO` | the raw socket and the VM check's adapter | |
| `BenchServer` | `homa-bench serve` | |
| `Latency` | the rank of a percentile | |
| `Programs` | `homa-bench client`, `homa-echo`, the VM check | `BenchServer`, `Latency` |
| `LanRelay` | the relay fixture | `Sums` |
| `EndpointLemmas` (sums, helpers on the table and on one RPC), `EndpointSteps` (actions), `EndpointProofs` (packets, `Config`) | theorems on one endpoint's resources | `Endpoint` |
| `EndpointContent` | lemmas: what one endpoint does with the bytes it sends and receives | `Endpoint` |
| `CallLemmas` | lemmas: two sides and the packets between them, whatever their tables do | `Calls` |
| `ExchangeSteps` (client), `ExchangeProofs` (server, network) | theorems on a client and a server together | `Exchange`, `CallLemmas` |
| `SocketProofs` | theorems on `Outbound`, `PacketIO`, `BenchServer`, `Latency`, `LanRelay` | these |
| `MCEndpoint`, `MCOutbound`, `MCExchange`, `MCWire`, `MCPacketIO`, `MCPrograms`, `MCLanRelay` | instances for TLC | the above |

Operators named in a comment as *Mutant* are faulty forms of the definition that
follows them. None is part of a specification; they show that each property can
fail.

### Endpoint

Everything that happens between `mu.Lock` and `mu.Unlock` is one action: `Call`,
`Abort` (the canceled caller), `Return`, `Receive` per packet type, `Tick`,
`HandlerResponds` and `HandlerFails` (the handler goroutine after the handler),
`WriteFails` (the error branch of `writeLoop`), `Shutdown`. The variable `e` is
the part of the state that the helpers of the code change, so that
`remove`, `finish`, `schedule` and `startHandler` are operators from one value of
`e` to the next (`Remove`, `Finish`, `Schedule`, `StartHandlers`), as in the code.

* A Go pointer to an `rpc` is a member of `Obj`; comparisons by pointer in the code
  are comparisons of objects. A struct is free again when the table, no caller and
  no handler refers to it (garbage collection).
* Time: `DeadlinePasses` sets the flag `expired` of a struct. A tick uses a `now`
  that was read before it got the lock, so it ends any subset of the expired RPCs,
  and retries any subset of the others.
* The order of iteration over a Go map is free: `Starters` and `Rankings` are sets
  of possible outcomes.
* Lengths are kept; a byte is the tag `body` of the message it was cut from.
  Segment boundaries of the two sides may differ.
* Not kept: priorities, statistics other than `BufferedBytes`, the wrap of 64-bit
  identifiers. `WriteFails` may strike any live RPC, which is more than the code
  does.
* Packets handed to `send` go through the parameter `Emit`: dropped in the runs of
  one endpoint, where any packet may arrive, and kept in `Exchange`.

### Outbound

The table is reduced to which struct is under which key. `writeLoop` has one step
per stretch with or without the lock: look and take, wait in `select`, write,
settle. Structs come, expire and go between any two of them. `shutdown` and the
loops' exits are split in the same way. A second `Close` may return before the
first has closed the socket, if the loops ended for another reason; handlers are
not waited for. The history variables `late` and `afterClose` count what goes to the
socket after its RPC has gone, and after shutdown: the check of `writeLoop` is under
the lock and the write is not, so one packet can be late, and `AtMostOneLate` says
that it stays at one.

### Exchange and RpcService

Client and server are two instances of `Endpoint` with one set of packets in each
direction. Delivery takes any packet and removes it; with the fault `duplicate` it
stays, which covers loss as well. The other faults are `cancel`, `write`
(a refused packet), `restart` (the server loses its table and its handlers), and
`fail` (a handler without a response). A deadline that passes ends the RPC at
its side, as a refused packet does, and is no fault of its own. CUTOFFS and BUSY change nothing that is
modelled and are dropped. The history variables `asked`, `input`, `runs`, `ran`
and `got` record what the applications see.

`RpcService` is the promise of `api.go` and the repository's README: a call that
succeeds returns a whole response that a handler gave to its request; a handler may
run more than once. `ServesCalls` states that `Exchange` implements it, for
handlers that answer equal requests alike (or if the server never drops an RPC).

That condition is needed. If the server forgets an RPC (restart, write error,
expiry) and a repeated request runs the handler again with a different response of
the same length, the client can complete its buffer with bytes of both: DATA says
nothing about the execution it comes from. The
repository's README warns of repeated execution after a loss of state;
`ResponseWhole` states what remains true.

### Wire

Fields are triples of name, offset and width, in one table for `Marshal` and one
for `Parse`. A byte is a digit to the base `Base`. The run uses base 32: the 32-bit
sentinel becomes 32^4 - 1, which TLC can count to, while offsets, sizes and type
codes are the real ones.

Accepted DATA goes on to `data`, of which `Wire` has the part that stores bytes: the
buffer and the bitmap of `Width` bits per byte (8 in the code, 2 in the run, so that
messages end on both sides of a boundary), allocated for the length in the first
segment, and the checks of later ones. The RPC exists and its memory is reserved;
`Endpoint` has the rest of `data`, with lengths in place of 32-bit fields. `stored`
is a history variable: the segments that were taken.

### PacketIO

One model for both adapters, chosen by `kind`: they differ in what a write is (a
socket option and a datagram, or a frame in up to `Parts` writes) and in what a
reader does with what it got (the raw socket copies from a buffer that readers
share; `nic` answers ARP itself, through the same mutex as the writers, and skips
other frames). `Class` says what `ReadPacket` makes of an arrival. `sent` and
`returned` record what left and what was returned. One goroutine reads `nic`, as in
the VM check; the raw socket has several readers, which its mutex allows.

### BenchServer and Programs

`BenchServer` has one action per critical section of `mu` and per blocking call.
`accepting` is the accept loop and, after it, the deferred calls of `serve`; `after`
is the goroutine that the context's `AfterFunc` starts. Both go through the three
phases of `shutdown`, at the same time if it comes to that. The limit is `Limit`
(16 in the code).

In `Programs` a program is a list of calls (`Calls`), built as the nested loops of
the source build it, and the same actions walk through each list. The client's TCP
connection is one of `BenchServer`'s, with its frames under way in `up` and `down`;
a frame carries the number of its call as a ghost. A Homa call is answered as
`ServesCalls` states. `file` is the output file, `theirs` if it was there before.
The order of transports within a round, warm-ups, and the sizes at which fewer
samples are taken are the code's.

### Config

`Defaults` is `defaults`, with durations in microseconds. `SoundConfig` is what
`Endpoint` assumes of its constants; `MCEndpoint` evaluates it at the boundaries of
each field, and `DefaultsSound` proves it for every accepted `Config`.

### LanRelay

`path` is where the two packet goroutines are; `nic.write` takes the mutex and
needs up to `FrameParts` writes. `main` is where `run` is, the deferred calls in
their order included. `actual` is a history variable: the frames, acks and
datagrams that really crossed. A report is one step, the snapshot and the console
being monotone.

## Runs

| Run | Question |
| --- | --- |
| `endpoint_server` | budget, slots and stages of two requests of up to three bytes in two segments, one worker, through every packet type, expiry, write errors and shutdown |
| `endpoint_client` | two callers and three calls racing cancel, response, expiry and shutdown |
| `endpoint_both` | the inductive invariant of the proofs (`SInv`) with a call and a request in one table; every `Call` returns, workers do not idle, and `Close` releases everything |
| `endpoint_hosts` | four clients on three hosts at the limit of two RPCs and two cutoffs |
| `outbound` | wakeups, late DATA, scoped errors, `Close`; queues drain and `Close` ends |
| `exchange_restart` | restart and refused packets on a duplicating network: the request is whole, what is still true of the response, and no early ACK |
| `exchange_service` | two calls in a row, canceled or not, implement `RpcService`, and the handler runs once while the call is open |
| `exchange_live` | the loss of any one packet is repaired, and the server forgets what was acknowledged |
| `wire_codec` | every struct with every type, cut at every byte, padded, DATA at its bounds; messages of up to four bytes from segments that overlap, conflict or differ in length |
| `packet_io` | two writers and two readers of either adapter: priorities, frames, datagrams; `Close` unblocks |
| `programs` | the benchmark client against the benchmark server at its limit, and the other programs: connections, shutdown, replies and reports; the server returns |
| `relay` | evidence, counters, frames and ready file of the relay; it always reports |

All runs pass; there is no run that expects a violation. Deadlock is not checked
where bounded identifiers, sends or packets, or a finished program, let the system
stop.

**Bounds.** Messages have one to three bytes in segments of one or two, so that
there are whole and partial segments, unscheduled and granted ones, and gaps.
`MaxRPCs`, `HandlerWorkers`, `Overcommit` and the budgets are so small that each
limit is reached. The number of structs exceeds `MaxRPCs`, so that handlers outlive
their RPCs while the key is in use again. `MaxIds`, `MaxSends`, `MaxCalls`,
`MaxLost`, `MaxLAN`, `MaxVM`, `MaxWrites`, `MaxArrivals`, `MaxPad` and `MaxPieces`
bound what is unbounded; once a buffer exists `Wire` sends only `Segments`, which are
DATA of two lengths. Symmetry is used
for structs and callers in safety runs only. `exchange_live` has a request of
two segments and a response of one; any one packet is lost (`MaxLost` is 1). In `programs` the limit is one connection and there are two, so that the
client may be the one that is refused; two rounds show both orders of transports,
and one warm-up and two samples leave a frame that a failed call could misplace.
Two arrivals and two writes in `packet_io` are enough for any two calls to meet.

**Fairness.** The ticker of `timerLoop` keeps firing, so a tick is weakly fair: one
that sees every passed deadline in `Endpoint`, one that retries every RPC in
`Exchange`. Handlers return (`api.go` asks them to when their context ends), if
only with nothing; a caller that was canceled or has its result goes on; time
passes deadlines (`TimePasses`, a hypothesis of `CallReturns` only). In `Exchange` the network delivers
what stays under way, per kind of packet. In `Outbound` each loop goes on and
`PacketIO.Close` unblocks reads and writes, as `api.go` requires. In `LanRelay` the
context ends within its duration and `run` goes on where it has a deadline; nothing
is assumed of the guest or the packet goroutines. In `PacketIO` a goroutine
that can lock, set the option or copy does, a `Close` that has begun goes on, and a
closed socket fails the reads and writes that wait on it; nothing need be sent or
arrive. In `Programs` the goroutines of the server run, and a closed socket wakes
its reader; nothing is assumed of the client, and frames need not arrive.

## Proofs

TLAPS checks these for all values of the constants that satisfy the named
assumptions of the modules: `ConfigAssumption` and `SetAssumption` (the constraints
of `defaults`, a finite set of structs, an endpoint that is not its own peer),
`QueueAssumption`, `PacketIOAssumption`, `ServerAssumption`, `RelayAssumption` and
`AckAssumption` (finite sets of acknowledged identifiers and service types), and for
two endpoints `SizesAssumption`, `MessagesAssumption` (messages are not empty and
not above `MaxMessageSize`), `StructsAssumption` and `ResultAssumption` (finite sets
of structs; `Nil` is no struct, key or result).
`DefaultsSound` (`EndpointProofs`) discharges `ConfigAssumption`'s arithmetic: it
holds for every `Config` that `defaults` accepts, and DATA of one segment fits an
MTU of 1500.

`EndpointProofs`: `Inductive` proves `Spec => []IInv`. The safety properties are
not inductive. The budget equation sums over live RPCs, and an action that detaches
a struct must know that it holds nothing afterwards and that no handler still
counts for it; hence `IInv` adds `Vacant` (a struct outside the table holds
nothing), `Serving` and `Unstarted` (a struct has a request in a handler or a
response, never both), `Answered` (a call has its result exactly when it left the
table), `Claimed` (callers share no struct) and `Numbered` (identifiers given out
are not above `nextID`, so a new key is vacant). One lemma per action shows that it
preserves `IInv`; the sums and the helpers (`Remove`, `Finish`, `Start`, `Schedule`,
`Open`, `Fill`) have their lemmas in `EndpointLemmas`. From it follow `TypeCorrect`, `BudgetExact`, `SlotsExact`,
`TableBounded`, `CallersAnswered` and `ClosedEmpty`.

`StagesInductive` proves `Spec => []SInv`, where `SInv` adds `Sound` to `IInv`: an
RPC in the table has sent what it was granted, in whole segments (`Paces`), and a
request is in one of its stages (`Staged`); a struct outside the table is as good as
new (`Fresh`), which a struct that is taken for a request relies on. Within one
critical section a request may be between two stages (`SoundBut`, `Ready`): `data`
enters it before it has a buffer. The same lemmas carry a second fact from helper
to helper (`Backs`, `Ran`): a handler that runs after a step ran before it, or its
struct was fresh then. `StagesKept`, `GrantsServed` and the action property
`StartsOnce` follow. `SendNewPaces` is the arithmetic of `sendNew`: rounding up to
whole segments reaches the grant and stops at a boundary or at the end.

`SocketProofs`, the loops: the invariant `LInv` is `LoopsTypeOK`, `NoLostWakeup`,
`Ending` (the order of shutdown) and `InHand`: a struct that has had a late packet is
gone, so the writer takes no other of its packets, and the DATA it has in its hands is
of a struct that has had none. That a struct stays gone (`GoneStays`) needs pointers,
not keys: another RPC may have the key. `LoopsTypeCorrect`, `WriterAwake` and
`LateWritesBounded` follow from it; `ErrorsScoped` and `CloseIsFinal` are action
properties.

`SocketProofs`, the sockets: who writes holds the mutex and has its own priority in `IP_TOS`
(`Serialized`); who is between the read and the copy holds the other mutex and has
its own arrival in the buffer, and no two hold the same arrival (`Exclusive`); what
was returned is gone from the socket, so that it is not returned again
(`Accounted`). From these: `PriorityOwnAlways`, `FramesWholeAlways`,
`DatagramsOnceAlways` and `TypeCorrect`, for any number of readers and writers.

`SocketProofs`, the benchmark server: `BInv` adds to the properties that an open connection is in the map
or in the hand of the accept loop (`Owned`), and how far each run of `shutdown` has
come (`Progressed`): a connection that is admitted after the map was swept would
need a running context, which the `AfterFunc` rules out, or an accept loop that has
left. `ServedAlways`, `SweptAlways` and `ReturnsCleanAlways` hold of the server
alone, for any number of connections and any limit, whatever its clients do; the
run `programs` checks the first two with the client. `RankInRange` proves
that the index `latencySummary` uses is in range and is the nearest rank.

`SocketProofs`, the relay: `RInv` adds what each goroutine has in its hands (`Carried`), that
the mutex belongs to the writer and an unfinished frame to it or to one that gave up
(`Unmixed`), that the evidence of success is kept (`Earned`), and an equation for
the counters: requests by class, less datagrams sent and dropped, are one exactly
while `vmToLAN` has a packet between counting its class and its outcome (`Settled`).
`SuccessEarned`, `CountsMatch`, `StreamStaysWhole`, `ReadyFileOwn` and
`RelayTypeCorrect` follow.

`ExchangeProofs`, a client and a server: `InvHolds` proves `Spec => []Inv`, for any
number of calls and structs, messages of any length, segments of different sizes at
the two sides, a network that loses, reorders and duplicates, and every fault. What
the applications see depends on both tables and on every packet under way, so none
of the properties is inductive. `Inv` has three parts:

* `Client!Content` and `Server!Content` (`EndpointContent`), the same statement for
  either side: under the key k the table has a struct with that key, whose outgoing
  message is one of `Out[k]`, whose buffer has only bytes of messages of `In[k]`, and
  which is complete if it waits for a handler. `Out` and `In` are parameters. For the
  client they are the request it made and the responses its handlers have given so
  far; for the server the other way round.
* `Together` (`CallLemmas`): each packet is for a call that was made and has bytes
  of its request or of one of its responses; an ACK or RPC_UNKNOWN of the client is
  for a call that is over (`FromClient`); the client's table has exactly the open
  calls (`ClientHolds`); a running handler saw the request (`ServerHolds`); a
  handler that was started once is running, or has given at most one response
  (`Single`); and without restarts and write errors the request of an open call
  stays in the server's table once its handler started, marked as being handled
  (`Kept`), which is why nothing starts it again.

The argument has two halves that meet in one interface. `EndpointContent` shows, for
one endpoint and any `Out` and `In`, that every action and every packet the peer may
send (`Brings`) makes a step with `Evolves`: `Content` is preserved, what is sent has
bytes of `Out`, a call that leaves has its result (`Settles`), and a handler that
starts has a complete request and is the first for its RPC (`Starts`). One lemma per
helper carries this through `Remove`, `Finish`, `Schedule`, `StartHandlers`, `Fill`,
`data` and the packet handlers. `CallLemmas` shows that `Together` survives every such
step of either side (`ClientTogether`, `ServerTogether`). It does not look into the
tables. `ExchangeSteps` and `ExchangeProofs` instantiate the first half twice and
feed it to the second, one lemma per action of `Exchange`. From `Inv` follow

* `RequestsWhole`: a handler sees exactly the bytes `Call` was given;
* `ResponsesWhole`: a success has the length of a response of this call's handlers,
  each byte of one of them, and all bytes of the same one if the handler ran once;
* `AcksMeanDone`: an ACK is sent only for a call that is over, so a server that
  forgets a response on it forgets nothing that is needed;
* `RunsOnceWhileOpen`: without restarts and write errors the handler runs at most
  once while the call is open.

`Serves` proves the refinement, `Spec => ServesCalls`: every step of `Exchange` is a
step of `RpcService` or a stutter. The mapping takes the result of a call to the
message that has its bytes (`OutcomeOf`; a message is known by its bytes,
`SameBytes`) or to a failure. Beside `Inv` the proof needs that `ran` has only
replies to the request (`Replied`), and that one step ends at most one call
(`OneEnds`). The hypothesis `Alike` is the condition above: handlers answer equal
requests alike, or the server drops no RPC (no restart, refused packet or expiry
there). In the first case all responses to a call are equal; in the second `Single`
and `Kept` leave one for an open call. Either way the bytes a client has put
together are those of one response (`ExactResponse`).

Only model-checked:

* liveness (fairness and ENABLED are beyond the prover);
* `RoundTrip` and `Assembled` of `Wire`, which are about what recursive
  definitions compute from a sequence of bytes: induction over data is out of reach;
* `OwnReply` and `ReportTrue` of `Programs`, whose plans of calls are built by
  recursion over lists.

## Not modelled

* The system calls below `rawip.go`, opening the socket, and the adapter for
  systems without one (`rawip_unsupported.go`), which only returns errors.
* Command lines: flags, their limits, usage. The server command of `homa-echo` only
  waits for its context. Goodput, platform and wording of reports;
  `scripts/summarize_benchmark.py`, a pure function of them.
* What `WritePacket` checks of its arguments before it locks (a unicast IPv4 address,
  a priority of at most 7, a payload that is not empty or too long): a refused call
  changes nothing. The console log is assumed to stay below its cap of 4 MiB.
* QEMU's command line and the checksums and addresses of the frames `nic` builds.
* `interop/linux_peer.c`, `interop/qemu/guest_init.c`: inside the guest. The relay
  and the VM check depend on its console lines, which `GuestPrints` keeps.
* Priorities: `unsched`, the ranks of `schedule` and the order of `dequeue`. They
  decide when a packet goes, and no guarantee of the code depends on them;
  a request that others are preferred to is ended by its deadline.
* Vendored headers, recorded results.

## Plan

1. Priorities, with three granted requests and peers that go silent.
2. An abstract specification of one endpoint's budget and slots as a resource
   pool, refined by `Endpoint`.
