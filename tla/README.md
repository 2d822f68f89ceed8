# A TLA+ verification of kcptun-rust

kcptun-rust tunnels TCP connections over UDP. A client accepts local TCP
connections, multiplexes them as smux streams over a few KCP sessions, and a
server at the other end opens the target connections. This directory holds the
TLA+ models of the parts of that program whose correctness depends on order:
the KCP state machine and the queues, codes and pacing under it, the tasks
around it, the listener that shares one socket between sessions, the smux
session with its shaper and flow control, the pipe between a socket and a stream
with the layers on the way, the pool of sessions and the scavenger, the fake-TCP
transport with its iptables rules, and the ways out of the process. TLC checks
the models on small instances; for every value of their constants, TLAPS proves
what matters most about both halves of KCP and the link between them, the smux
session and its flow control, the pipe, the pool of sessions, the raw transport
and the exit paths (section 5). `PROJECT.json` is the index: which definition
models which lines, what every run checks, which hazards it answers.

Paths below are relative to `src/crates/`. D29, D31, V05 and so on are the
numbered decisions and deviations of `docs/DECISIONS.md`, which the code's
comments cite.

## 1. Inventory

### How the parts fit

```
 TCP <-> pipe <-> [QPP] <-> smux stream <-> smux session <-> [snappy] <-> KCP session <-> [FEC] <-> UDP or
         (std)              per conn.       recv_loop,                   Kcp behind a             fake TCP
                                            shaper, send_loop,           mutex, updater,          (tcpraw)
                                            keepalive                    tx task, listener
```

Everything runs as tokio tasks on a multi-threaded runtime. Tasks share state
through mutexes held for one short operation, atomics, bounded channels,
cancellation tokens (`die`) and `Notify`. No lock is held across an await. The
hard questions are therefore what another task may do between two such
operations, what a wake-up that was consumed by somebody else means for the
next sleeper, and what a peer or a network may send at that moment.

| Part | State | Operations | Correct if |
|---|---|---|---|
| KCP, sending half (`kcp/src/kcp.rs`) | `snd_queue`, `snd_buf`, `snd_una`, `snd_nxt`, windows, `cwnd`/`ssthresh`/`incr`, probe timer, `flush_scan` | `send`, `input` (una, wnd, ACK), `flush`, `wnd_size`, `nodelay` | `snd_buf` is one contiguous run across the 2^32 wrap; an ACK finds its segment (D31); a skipped scan would have done nothing (D29); `snd_una` never retreats; the congestion window does not close |
| KCP, receiving half (`kcp.rs`, `heap.rs`) | `rcv_nxt`, `rcv_queue`, heap `rcv_buf`, `acklist`, `probe` | `input` (PUSH, WASK), `flush` (ACK, WINS), `recv`, `wnd_size` | order, no duplicates, nothing deliverable is left in the heap, a closed window is reopened |
| KCP link | both halves and the packets between them | loss, duplication, reordering | what is read is what was written; acknowledged means held; no stall |
| Listener (`kcp/src/listener.rs`) | `sessions` by address, `by_conv` (V23), accept queue, read error | monitor (`packet_input`), `accept`, `close_session` | maps lead to live sessions only and to all of them; no acceptor sleeps beside a session |
| Session (`kcp/src/session.rs`) | `Kcp` behind a mutex, two `Notify`, `die`, error slots | `read`, `write_buffers`, `kcp_input`, updater, `close` | no lost wake-up, every write ends, the last flush is sent |
| Transmit pipeline (`kcp/src/tx.rs`) | bounded channel, batch | `run`, `process`, `transmit` | bounded, drains, ends after close |
| smux session (`smux/src/session.rs`) | stream map, token bucket, accept backlog, keepalive flag | `recv_loop`, `open_stream`, `accept_stream`, `return_tokens`, `close_shared`, keepalive, `send_loop` | tokens conserved, `recv_loop` never asleep on tokens |
| smux stream (`smux/src/stream.rs`) | buffer, `fin_event`, `die`, `write_closed`, counters of the v2 window | `read_chunk`/`wait_read`, `write_v2`, `close_write`, `close`, two `Drop`s, `update` | EOF after the data, half-closed streams end, the window is respected, writes end |
| smux shaper (`smux/src/shaper.rs`) | a heap by class and number per stream, a list of streams with a cursor, permits | `write_frame_internal`, push, pop, `send_loop` | a FIN follows its stream's data, permits conserved, every writer answered, streams served in turn |
| Ring buffer, heap (`kcp/src/ringbuffer.rs`, `heap.rs`) | slots and two indices; an array and the numbers in it | push, pop, discard, retain, grow, shrink; sift up and down | a FIFO; the least first |
| FEC (`kcp/src/fec.rs`, `autotune.rs`, `gosort.rs`) | shard sets, numbers that begin anew, a ring of samples | encode, skip parity, decode, discard, sort the samples, tune | what is recovered is what was sent; enough shards suffice; the peer's parameters are found |
| Reed-Solomon (`kcp/src/rs/`) | the encoding matrix, a cache of inverted ones | encode, reconstruct | any `data_shards` shards give the data |
| Rate limiter (`kcp/src/rate.rs`) | tokens, which may be negative (V02) | `set_rate`, `reserve_n`, `wait_n` | the rate is kept, no debt is paid twice |
| Pipe (`std/src/pipe.rs`, `smuxio.rs`) | two directions in one task, clocks | copy, half close, grace, probes, stall rule (V24) | every pipe ends, nobody is cut off early, a clean end is complete, no byte twice |
| QPP (`std/src/qpp.rs`, `qpp/src/qpp.rs`) | staged ciphertext, two generators | `poll_write`, `poll_flush`, `poll_shutdown`, `poll_read` | each byte is masked at its own place |
| Compression (`std/src/comp.rs`) | chunks, two sticky errors | `write_chunks`, `fill`, `read_full`, `read` | what is read is what was written; a cut is never an end |
| Client (`client/src/main.rs`, `listen.rs`) | session slots, scavenger, tasks | accept, dial, expire, hand over, close | no live session is dropped; every connection settles |
| Server (`server/src/main.rs`) | sessions, streams, targets | accept, dial the target, pipe | as the client's |
| Raw TCP (`tcpraw/src/`) | flow table, capture tasks, the kernel's connections | capture, accept, sweep, send, receive, close | nothing from an address that never connected; TTLs are given back |
| Exit paths (`std/src/signal.rs`, `log.rs`, `tcpraw/src/conn.rs`, `iptables.rs`) | iptables rules, `CONN_LIST`, hooks, fallback exit | dial, close, `iptables_reset`, `on_terminate`, fatal errors, abort | rules are removed, foreign ones kept, SIGTERM ends the process |
| buffer pool, ciphers, smux frames, packet connections, CLI | see section 7 | | |

### What is hard here

`PROJECT.json` lists each hazard at its line. They fall into these groups:

* **Wrap-around**: sequence numbers, smux byte counters and the index
  computations built on them are right only within 2^31 of each other, and at
  0 a counter can mean something else (`account_read`).
* **Cached knowledge**: `flush_scan` (D29) and the ring offset (D31) replace a
  search by something remembered; acknowledgements, options, a clock that moves
  during a scan and a transmit queue that fills in the middle of it (V18) can
  make it stale.
* **Check, then sleep**: `accept`, `read`, `write_buffers`, `wait_read` and
  `recv_loop` look, register and wait, while the other side changes state and
  notifies in separate steps.
* **Two structures, two locks**: the listener's maps, the stream map and the
  streams' own flags.
* **Ends that meet**: `close()` against writers and the transmit task; two half
  closes; a session close against a SYN; a reset against a close.
* **Clocks that decide**: the stall rule ends a pipe on the ages of readings
  taken a period apart; the scavenger closes a session on its age while
  connections are handed to it; the fallback exit races the hooks.
* **Work that cannot be cancelled**: a blocking task adds an iptables rule after
  its owner is gone; a write that returned `Pending` has already been staged,
  encrypted or handed to a future.
* **An unreliable network**: loss, duplicates, reordering; only probes and
  updates reopen a closed window, and both can be lost.

## 2. Modules

| Module | Models | Notes |
|---|---|---|
| `KcpSeq` | wrapping u32 arithmetic, `_itimediff` | modulo `M = 2 * Half`; the code has `Half = 2^31` |
| `KcpSend` | the sending half | one action per handler; `input()` is a loop of `InputSegment` and an `InputEnd` or `InputReject`, with nothing in between because the mutex is held |
| `ArqSender` | its abstract specification: a selective-repeat sender | no clock, timers, congestion, skip; `KcpSend` implements it (`ArqSpec`) |
| `KcpRecv` | the receiving half | `rcv_buf` is the set of its segments, least first |
| `ReliableStream` | what a connection promises: output is a prefix of input, and reaches it | |
| `KcpLink` | `ArqSender` + network + `KcpRecv` | implements `ReliableStream` |
| `Facts` | lemmas on sequences, least elements, wrapping numbers and sums over finite sets | section 5 |
| `Transport` | `RingBuffer`, `Limiter`, `Listener` and `Session` side by side | the parts of `MCTransport` that theorems are about |
| `KcpSendProofs`, `KcpRecvProofs`, `KcpLinkProofs` | theorems about the module of the name | section 5 |
| `TransportProofs`, `SmuxProofs`, `ProxyProofs`, `ProcessProofs` | theorems about the parts of `Transport`, `MCSmux`, `MCProxy`, `MCProcess` | section 5 |
| `Fifo` | what a queue promises | |
| `RingBuffer` | the growing ring: slots, `head`, `tail` | implements `Fifo` |
| `Heap` | the sift steps of `rcv_buf` and of the shaper's heaps | what `KcpRecv` and `SmuxSend` assume of a heap |
| `Fec` | encoder, network, decoder with its shard sets | a shard is its number; decoding is `ReedSolomon`'s |
| `AutoTune` | the sampling ring, `find_period`, the tuning branch of `decode()` | |
| `GoSort` | the quicksort of the samples with all its paths: insertion, heapsort, ninther, reversal, equal numbers, pattern breaking by the 64-bit generator | a step is a turn of the loop; the lengths at which the method changes are constants |
| `Galois`, `ReedSolomon` | the field's tables; matrices, `encode`, `reconstruct_data` and its cache | shards of one byte |
| `Limiter` | the token bucket | integers in the unit of the code's durations |
| `TokioNotify` | `tokio::sync::Notify`: one permit, `notify_one` wakes any one registered task, `enable`, hand-over on drop | external; from how the code uses it |
| `Listener` | the monitor, both maps, the accept queue, the listener's half of `close()` | steps end where a lock is released |
| `Session` | one session's tasks and the transmit pipeline | KCP is reduced to queued, in flight, window open, readable |
| `SmuxSession` | `recv_loop`, the token bucket, streams from SYN to `Drop`, keepalive, session close | one step per lock or atomic operation |
| `SmuxSend` | writers, the shaper, `send_loop`, the keepalive's ping | a heap is the set of its requests |
| `SmuxWindow` | version-2 flow control of one stream direction | both ends and the frames between them |
| `Pipe` | two `Transfer`s, `Lifetime` with its rules, `SmuxStream`'s in-flight write, both ends | instants are ages, timers count down |
| `Qpp`, `Comp` | the masking and the compressed framing, with the peer that undoes them | a masked byte carries the random word and the byte of it that masked it, and both ends walk the words as `encrypt_with_prng` does; a chunk is its type, length, checksum and data |
| `Tunnel` | accept loop, slots, scavenger, connection tasks; the server's sessions and streams | a pipe is one state: `Pipe` has its inside |
| `ExitHooks` | rules installed, recorded and removed; every way out of the process | the IPv4 and IPv6 rule of a connection are one |
| `RawConn` | flow table, capture, accept, cleaner, send, receive, close | a step of time is `CLEANER_INTERVAL` |

**MC modules.** `MCKcpSend` instantiates one specification; `KcpLink` is checked as it stands.
`MCTransport` (which extends `Transport`), `MCSmux`, `MCProxy` and `MCProcess` check
several models side by side: the variable `part` says which of them a behaviour is about, the variables
of the others rest at 0, and the specification is the sum of the parts. They do
not interact; one run checks each of them on its own instance. A property
of such a run is a statement about several parts that are correct for the same
reason (`NoLostWakeup`: an acceptor, a reader, `recv_loop`, `send_loop`), and it
has a mutant for every part and every conjunct of weight. `MCListener`,
`MCSession`, `MCSmuxSession`, `MCPause` and `MCExit` serve the runs that end in a
counterexample (section 6).

**State.** Variables have the names of the fields. In `KcpSend` small structs
are records: `wnd`, `cong`, `prb`, `scan`, `inp` (the locals of `input()`).
Payload bytes are gone: `snd_queue` is a count, a smux payload is its length, a
KCP packet between the halves is the fields the other side reads, a FEC shard is
its number. Times in `KcpSend` are unwrapped integers (`_itimediff` is exact for
times less than 2^31 ms apart). The RTT estimator is a free choice of `rx_rto`.

**Peers.** In `KcpSend` and `KcpRecv` the peer is arbitrary: any una, sn, ts,
wnd, in any order. In `KcpLink`, `Fec`, `AutoTune`, `SmuxSession`, `SmuxWindow`,
`Qpp` and `Comp` it follows the protocol, since the properties are about two
correct ends; the network between them loses, repeats and reorders where it is
UDP. In `Pipe` both far sides send, read, finish and vanish as they like.

**Atomicity.** A step is what the code does under one lock, or with one atomic
operation, or between two points where another thread can observe it. `select!`
with `biased` in the transmit task is two polls (`TxRecv`, `TxDie`). The
constants `AtomicSelect` (`Session`) and `AtomicPoll` (`SmuxSession`) make a poll
of a task indivisible, as it is on a runtime of one thread; comparing the two
settings tells which guarantees depend on that. In `Pipe` a step is a piece of
one poll of the task, and the far sides move between any two.

**Choices, not code.** Whether the transmit queue has room at a given test
(`has_room!`), the clock readings during a scan, the network, deadlines that
pass, and the order of two ready branches of an unbiased `select!` are free.
Bounds on counters stand in the guards and are named in the CONSTANTS of each
module (`QueueMax`, `MaxTime`, `MaxWrites`, `MaxMsgs`, `MaxSessions`, `MaxFrames`,
`MaxSent`, `MaxDials`, `LastId`, `MaxFaults`, `MaxBytes`, `HeapMax`...).
`Observe` and `since` in `Limiter`, `mixed`, `got` and `known` in `Fec`, `bypassed` in
`SmuxSend`, `cut` in `Comp`, `dropped` in `Tunnel` and `took`, `fresh` and `over` in
`Pipe` only record what a property speaks about.

## 3. Runs

| Run | Parts | Checks | Instance and why it is enough |
|---|---|---|---|
| `kcp_send` | `KcpSend` | `AckIndexNeverMisses`, `SkipIsNoOp`, `CwndOpen`, `UnaAdvances`, refinement `ArqSpec`, `TypeOK` | numbers modulo 6 starting at 5, two segments in flight, the clock may move once, within a scan or between; any una, sn and echoed ts. All six are proved for every value of the constants (section 5) |
| `kcp_link` | `KcpLink` | `AckSound` (proved), `StreamDelivers` (its safety is proved, its liveness is not) | two segments, receive windows 1 and 2 against an assumed window of 2, so that segments arrive outside the window and the window closes; two packets in the forward network, so that duplicates overtake; one on the way back |
| `transport` | `KcpRecv` | `InOrder`, `NoStall` (both proved) | numbers modulo 8, starting just before the wrap; windows 1 and 2, changed at run time; one- and two-fragment messages; an ack list that is cut in two batches. A window of two is the least in which a gap, a duplicate and an out-of-window segment differ |
| | `RingBuffer` | `IsFifo` (proved), `Typed` (free slots are empty, all views agree) | two values; the ring begins with 3 slots and grows to 9, first by doubling and from `RINGBUFFER_EXP` = 6 on by tenths, and shrinks again |
| | `Heap` | `OrderKept` | six items of two classes, numbers modulo 12 around the wrap: three levels, with one child and with two |
| | `GoSort` | `OrderKept` | every slice of six numbers out of six modulo 16, of which five are ordered and the sixth makes the comparison cyclic; the code's thresholds (12, 8, 50, 50, 5, an eighth) scaled to 2, 4, 5, 4, 2 and a third, and two unbalanced turns fewer, so that heapsort, reversal, equal partition, partial insertion and pattern breaking all happen |
| | `ReedSolomon` | `RecoversRight` | two data and two parity shards over the field of sixteen elements, every pattern of losses in every order, a cache of two matrices, so that it is hit and flushed |
| | `Limiter` | `Paced` (proved) | a burst of 4, batches below and above it, two rates and none, changed while a batch waits |
| | `Fec` | `RecoversRight`, `Typed` (shard sets are bounded) | two data and one parity shard, numbers below 32, which is not a multiple of three; a packet may be eight numbers late, which is beyond the two groups the decoder keeps, so that `discard_shards` decides; two packets in the network at a time; parity is skipped after a silence. That enough packets of a group suffice is claimed of those that come in time (`InTime`); of later ones it is false, in the model as in the code |
| | `Listener` | `Routing`, `NoLostWakeup` (proved) | two addresses, two conversations, three sessions, backlog 2, two acceptors, symmetric. `Collisions = FALSE`: a reset does not meet a close that somebody else has begun, and brings a conversation of its own |
| | `Session` | `NoLostWakeup`, `NothingDropped` (proved) | one writer with three writes, a channel of two and `OUTPUT_ROOM` two, batches of two, delayed writes; a reader beside one write (`ReaderOrWriters`); `close()` at any moment; many threads, and a socket of its own that may fail |
| `smux` | `SmuxSession`, twice | `Conserved`, `NoLostWakeup`, `HalfCloseEnds`, `EofMeansDrained`, `Typed` (all proved) | one stream of either side (`Lone`) on many threads, two frames of one or two units against a bucket of two, which goes negative, with half close, close, drop, keepalive, session close and read errors; and two streams on one bucket and a backlog of one, one thread |
| | `SmuxSend` | `Conserved`, `FinLast`, `NoLostWakeup`, `Typed` (the cursor is in the list; all proved) | two streams that write and finish, one with control frames, two places; numbers from before the wrap; a writer that gives up, a session that ends, a connection that fails |
| `proxy` | `Pipe` | `PipeEnds`, `BytesIntact`; `CleanEndComplete`, `Patience` (proved); `Typed` (an idle direction holds no buffer) | two units each way, buffers of two and one, a grace of one period and a stall limit of two, so that a probe can fall before, at and after each |
| | `SmuxWindow` | `WindowKept` (proved), `WritesEnd` | counters modulo 16, from 0 and from seven places around the wrap; window 4, frames of 2 (a frame is at most half the window, as with kcptun's defaults) |
| | `SmuxSend` | `WritesEnd` | two streams, two places, a session that ends |
| | `Qpp` | `BytesIntact` | slices of one, two and five bytes, seven in all, cut anywhere and read in any pieces, two flushes between; words of four bytes, begun at each of them, so that a slice has the rest of a word, a whole word and a tail; shutdown and failure at any point |
| | `Comp` | `BytesIntact` | blocks of two bytes, writes of one and three, a connection that takes part of a write, ends or fails at any symbol |
| `process` | `Tunnel` | `NoneDropped` (proved), `Settles`, `Typed` (the channel keeps its limit) | two connections, of which one may give up with its SYN queued (`GivenUp`), two dials, one slot with and without expiry, two slots with an immediate scavenger, a channel of one |
| | `ExitHooks` | `RulesOwned` (proved), `TerminationEnds`, `ClosesEnd` | one connection, three exit paths at once, a foreign rule, a deletion that fails, another process at the xtables lock that gives it back |
| | `RawConn` | `FlowsSound` (proved), `ClosesEnd` | two addresses of which one connects, two real connections, dialling and listening, expiry after one step and at once |
| | `Session` | `WritesEnd`, `ClosesEnd` | two writers and a window of one segment, so that one wake-up must serve two sleepers; own socket, which may fail; two-step select |
| | `AutoTune` | `FollowsPeer` | a peer with (2,1) and a decoder with (3,1), numbers below 16, six samples, two faults |
| `listener_race`, `session_owned`, `smux_eof`, `exit_rules`, `exit_stuck`, `pipe_pause` | | violated | section 6 |

The runs `smux`, `proxy` and `process` do not check for deadlock: a closed
session whose streams are freed, a pipe that has ended and a process that has
exited have nothing left to do. Whether they may stop is what `NoLostWakeup`,
`PipeEnds`, `WritesEnd`, `Settles` and `TerminationEnds` are about.

## 4. Fairness

Safety properties assume none. The liveness properties assume:

* `KcpLink`: the updater flushes as long as the session lives and the
  application reads (both strong, because they compete for one mutex, which
  tokio's scheduler does not starve for ever); `input()` ends. A retransmission
  timer and a probe timer fire again and again, and neither their packets nor
  the answers are all lost: strong fairness of the transmission that survives,
  and delivery of each packet that the network has not lost. Nobody has to
  write.
* `Session`: tasks that can run do run (weak). The updater's timer fires until
  `die`; its flush is strongly fair for an open window. The peer acknowledges
  what reaches it and opens its window in the end, which is what `kcp_link`
  shows. No deadline has to pass and nobody has to call `close()`.
* `SmuxWindow`: the tasks run, the connection under smux delivers in order,
  somebody reads. `SmuxSend`: the send task and the writers run; a write to the
  connection returns. Nobody has to give up and the session need not end.
* `Pipe`: the task is polled when it was woken, and time passes. The far sides
  owe nothing: `PipeEnds` is claimed only once the stream's far side has finished
  or gone, or the socket has failed.
* `Tunnel`: time passes; the accept loop and every task run (weak). `Receive`,
  the scavenger's look at its channel, is strongly fair: its `select!` is not
  biased, so that a message is taken in the end although the timer branch is
  ready again and again. A dial is answered, with a session or an error, and a
  pipe that one end has left ends, which is what `PipeEnds` shows; the keepalive
  ends a session whose link is gone.
* `ExitHooks`: threads run and the fallback exit fires once it is armed;
  `TerminationEnds` also assumes that the other process gives the xtables lock
  back (`FairLockSpec`). Without that it is false: `exit_stuck`.
* `RawConn`: the tasks end once they are told to, and a close is carried
  through. Nobody has to connect or to send.
* `AutoTune`: the peer goes on sending and what the network has not lost
  arrives; faults are bounded by `MaxFaults`, so that in the end there are none.

## 5. Proofs

Eight modules hold theorems. Each theorem is for every value of the constants
that the named assumptions allow, and so for every window, queue limit, number of
connections, peer and schedule; TLC evaluates the assumptions in the runs. For
each safety property there is an inductive invariant, kept in the module of the
component, which TLC has checked on the instance of the run before it was
proved. `PROJECT.json` lists the theorems with the properties they state.

### KCP

`KcpSendProofs` (about `KcpSend`):

* `TypeCorrect`: `Spec => []TypeOK`;
* `Contiguity`: `snd_buf` is the run from `snd_una` to `snd_nxt`, below 2^31 long;
* `AckIndexCorrect`: `Spec => []AckIndexNeverMisses` (D31);
* `SkipCorrect`: `Spec => []SkipIsNoOp` (D29), for any clock drift in a scan and
  any stop for lack of room;
* `AckMonotone`: `Spec => UnaAdvances`;
* `CongestionOpen`: `Spec => []CwndOpen`, if no option set turns congestion
  control off. (If `nodelay()` may turn it on during a session, `cwnd` can be 0
  until the next flush; kcptun calls it once per session, which starts with
  congestion control on, so that it can only be turned off.)
* `ImplementsArq`: `Spec => ArqSpec`: the ring, the timers, the congestion window
  and the skipped scans together do what a selective-repeat sender may do.

The inductive invariant is

    IInv == TypeOK /\ SndBufContiguous /\ FlightBounded /\ ScanSound

`AckIndexNeverMisses` and `SkipIsNoOp` are not inductive. The first needs that
the flight is contiguous *and* shorter than 2^31 (`FlightBounded`): otherwise
the signed comparisons of `parse_ack` do not order it. That bound follows from
the admission loop, because `rmt_wnd` is a u16. The second needs what the remembered
summary means for the segments it covers (`ScanSound`): everything not
acknowledged was transmitted, falls due no earlier than `at`, and has no
duplicate acks unless `no_fastack` is off; this must survive ACKs, una, the cut of
`unsent`, admission in ack-only flushes, and a scan that stops half-way.

Layout: what `parse_ack`, `parse_fastack`, `Transmit`, `Congestion` and `Grow`
return; admission (`AdmissionBound`, `AdmissionContiguous`); one scan
(`ScanStep`); a whole flush (`FlushStep`); one segment of a packet (`ShrinkStep`,
`InputStep`); then `NextInvariant` with one case per action. For the refinement,
`AckMarks`, `UnaMoves`, `FlushRefines` and `InputRefines` say what each handler
does to the set of acknowledged numbers, and `StepRefines` puts them together.

`KcpRecvProofs` (about `KcpRecv`): `TypeCorrect`; `DeliveryInOrder`: `rcv_queue`
holds the segments before `rcv_nxt`, in order and each once, and the heap those of
the window after it; `NeverStalls`: nothing deliverable stays in
the heap beside free room, and a reader that makes room asks for a window
announcement. Here `IInv == TypeOK /\ IsFiniteSet(rcv_buf) /\ QueueBounded /\
InOrder /\ NoStall` is little more than the properties. The work is in the loop
that moves segments from the heap to the queue (`MovableCount`, `MoveEffect`,
`MoveKeeps`): how many it moves is the largest number for which all are there.

`KcpLinkProofs` (about `KcpLink`): `NothingForgotten`: what the receiver has
acknowledged it keeps, and nothing else does the sender take for acknowledged
(`AckSound`); `StreamCorrect`: every step is one of `ReliableStream` or a stutter, so
that what is read is always a prefix of what was written, whatever the network
loses, doubles and reorders. The invariant is

    LinkInv == R!IInv /\ EndsInOrder /\ ReadInOrder /\ SentBefore /\ AcksHeld

in positions counted from the first segment (`Pos`): the sender's two ends enclose
`rcv_nxt`, what was read continues into `rcv_queue`, no packet is from the future, and
every acknowledgement in the list, on its way or taken in is for a segment that
the receiver holds for good. The receiver's part is not proved again: its lemmas
are instantiated (`RP == INSTANCE KcpRecvProofs`), and `SameNumbers`, `SamePush`,
`SameMove`... say that the two copies of its definitions agree.

Assumptions: `Half > 1`; the advertised windows are below `Half` (in the code
2^16 against 2^31); `fastack`'s maximum and the MSS are positive,
`IKCP_THRESH_MIN >= 2` as in the code, `rx_rto` is positive; the receive windows fit
the u16 on the wire (`RcvWndsAssumption`); for the link, fewer than `Half` segments
are written in all (`LinkAssumption`). The last one is a bound of the model and not of
the code: packets may be late without limit in `KcpLink`, and a packet that is
2^32 segments old cannot be told from a new one.

### Around KCP: queues, pacing, listener, session

`TransportProofs` (about the parts of `Transport`, which `MCTransport` extends with
other parts):

* `RingIsFifo`: `TransportSpec => IsFifo`: what the ring shows changes as a queue does,
  for every size, growth, wrap and shrink;
* `RateKept`: since any moment no more is sent than a burst and what the rate
  allows, and no batch waits longer than its own bytes take (`Paced`);
* `RoutingSound`: the two maps lead to the sessions whose `close()` is not over, and
  to no other (`Routing`), as long as no peer resets a session that the application
  is closing (`Collisions = FALSE`; there it is false: section 6);
* `WakeupsKept`: no acceptor sleeps on a queued session and the reader on no
  message (`NoLostWakeup`), for any number of acceptors;
* `FlushedKept`: what `flush()` counts as sent the full channel never drops
  (`NothingDropped`, Deviation V18), for any number of writers and sizes of window
  and channel, on many threads and a socket that may fail. It does not say that the
  packets of a final flush leave: they need not (section 6).

    TransportInv == /\ part = "ring" => Ring!TypeOK
                    /\ part = "rate" => RateInv
                    /\ part = "listener" => RouteInv /\ L!AcceptorWoken
                    /\ part = "session" => SessionInv

For the ring the type is enough, and the work is in what `iter()` shows of the slots
(`ContentsAre`, `RebuiltAre`). `RateInv` has a budget (`Budget`: what was sent, what
waits and what is left in the bucket are within the burst and the rate) and that a
batch waits for just the debt it made (`DebtPaid`); `limit * time` is a product of
two variables, about which the lemmas `ProductOrder` and `ProductSum` say the little
that is needed. `RouteInv` says for every step of the monitor what it has read of
the maps and still relies on after it gave the lock back (`MonitorSound`), and that a
session in the middle of `close()` is in one map, in both or in none according to how
far it is. `AcceptorWoken` compares a queue with the number of wake-ups under way,
which is a cardinality (`Weight`): every step of `Notify` changes it by what it gives
or takes. `SessionInv` is the types, `NothingDropped` and that the reader
does not sleep on a message; the work is in a flush, which puts at most as many
packets into the channel as `capacity` found room for.

Assumptions: the ring has at least two slots (`RingAssumption`), batches are not
empty (`RateAssumption`), acceptors are finitely many (`ListenerAssumption`), and one
task reads a session (`SessionAssumption`), as in kcptun. As on the run, a reset does
not meet a close that somebody else began.

### smux

`SmuxProofs` (about the parts of `MCSmux`: any streams, frames and sizes):

* `HalfCloses`: `HalfCloseEnds`: a stream with both FINs leaves the map, or
  somebody is on the way to take it out, in whatever order the two cross;
* `EndsDrained`: `EofMeansDrained`: on one thread a reader is told of the end only
  over an empty buffer (on several, `smux_eof` refutes it);
* `NobodySleepsOn`: `NoLostWakeup`: `recv_loop` does not sleep on tokens, a reader on
  a payload, `send_loop` on a request;
* `TokensKept`: `Conserved`: the bucket, the buffers and what is being returned are
  `max_receive_buffer` together, also while a stream is closed or dropped as a frame
  arrives; the free permits of the shaper and those of tasks and queued requests
  are all there are, whoever gives up when;
* `FinsLast`: `FinLast`: no data of a stream follows its FIN to the connection;
* `SmuxTyped`: `Typed`: the types, the limit of the backlog, and that the list of the
  round robin holds the streams with requests, each once, and the cursor.

`StreamInv` has beside the properties what every stream owes to the frames under way:
`FrameSound` (what `recv_loop` has in hand fits what the peer has sent),
`FinsSent` (`fin_event` only after the peer's FIN), `Unregistered` (a stream that is
not in the map yet has not ended either), `NotAwaited` (away from its check
`recv_loop` waits for nothing) and `WillWake` (a reader that found the buffer empty
will be woken for whatever has come since). `Backlogged` was not expected: a stream in the accept backlog must
have no reader, or `accept_stream` would set up a second one over the first and
the notification given to that one would be lost. `EofInv` has `DiesOfFins` and
`Drained` in place of the wake-ups: a poll is one turn, so that between a reader's look at the buffer and
its look at the end nothing arrives. `AwakeInv` says where `send_loop` is when it
is parked. Lemmas on `Notify` (`Notified`, `RecvNotified`, `SendNotified`) carry
all three.

`TokenInv == TypeOK /\ InHand /\ TokensConserved` goes beside the two. A step
changes the sum over all streams by what it changes of one (`SumChanges` in `Facts`),
and what is in hand belongs to a task that is about to return it (`InHand`): without
that, a second close could overwrite tokens that were not given back. The shaper's is

    ShaperInv == TypeOK /\ AwakeInv /\ RequestsSound /\ Numbered /\ WaitersAdmit
                 /\ CursorInList /\ SlotsConserved /\ FinOrder

The heap's comparison is of wrapping numbers, so that it is an order only while
fewer than `Half` numbers are given between the oldest request and the newest
(`Numbered`; the model does not number a request beyond that, which in the code
is 2^31 requests and out of reach of a request that waits). `FinOrder` follows the FIN from the task that makes it to the wire: it is
made by the task that wrote the data, after it, and a write that was given up
may still be queued then. `WaitersAdmit` was needed for the permits: the semaphore's
queue is fair, and who leaves it must be who waits in it.

`SmuxAssumption` and `ShaperAssumption`: the counts are natural numbers, the streams
are finitely many (their tokens are summed), and the streams with control frames
are among the others.

### Pipe and flow control

`ProxyProofs` (about the parts of `MCProxy`):

* `BytesKept`: every byte arrives once and in order, through the pipe, the QPP layer
  and the compressed framing (`BytesIntact`), however writes are cut up, retried and
  flushed, reads cut up otherwise, and the connection ends or fails;
* `EndsComplete`: a socket closed in order has been given everything
  (`CleanEndComplete`);
* `EndsPatient`: the grace is given in full, and when the stall rule ends a pipe the
  socket's far side has taken nothing for the stall limit less one probe period, but
  for what it took after a watch had lapsed with the end signal on record and before
  the next probe (`Patience`). That the signal has lasted for the limit is not
  claimed: it need not have (section 6, `pipe_pause`);
* `WindowStays`: the writer never exceeds the window, and the check against
  malformed updates never fails on an honest peer (`WindowKept`), for all counters
  modulo `2 * Half` and all places to begin.

`EndsComplete`, `EndsPatient` and the pipe's share of `BytesKept` come from

    PipeInv == TypeOK /\ EndReasoned /\ Accounted /\ GraceRuns /\ ProbesKeepUp /\ TakesShow
               /\ CleanEndComplete /\ StallPatience /\ GraceGiven

`Accounted` is the books of the two directions; `GraceRuns` relates the timer to
the first end; `ProbesKeepUp` and `TakesShow` relate the instants the rule
compares (`moved`, `drained`, `signalled`) to when the reader really took something,
over any number of probes. The window's is

    WindowInv == TypeOK /\ \A w \in Writers : WriterSound(w) /\ Granted(w) /\ ToldInOrder(w) /\ AllUnderWay(w)

Counters are compared by how far they are behind what was handed over
(`Behind`), which is a plain number while the windows are below `Half`:
`ToldInOrder` says that updates under way, the one about to be sent and the one
pending are ordered in that measure, and `AllUnderWay` that no byte is lost
between the two counters. For the layers,

    QppInv == TypeOK /\ Aligned /\ Staged /\ \A i \in DOMAIN plain : plain[i] = i

says that what is staged and what is on the wire follows what has been read, each
byte masked with the byte of its place in the generator's sequence, which the two
ends reach by other cuts; the lemmas about `encrypt_with_prng` are for a rest, whole
words and a tail of any lengths. `CompInv` says that what is on the wire is a piece of
*some* sequence of chunks that hold the bytes in order: the reader is before a chunk or
inside one (`Reads`), and the stream ends behind a chunk unless a write or the
connection has failed (`Ends`). Assumptions: words, blocks and slices are not empty
(`QppAssumption`, `CompAssumption`); the probe period is positive and not longer
than the stall limit (`PipeAssumption`; `MIN_WATCH` and `Timing` in the code);
one task writes to a stream and both windows are below `Half`
(`WindowAssumption`; in the code an i32). With two writers it is false (section 6).

### Process

`ProcessProofs` (about the parts of `MCProcess`):

* `SessionsKept`: no live session is dropped (`NoneDropped`), from `TunnelInv == TypeOK
  /\ LoopSound /\ Kept /\ NoneDropped`: a live session that can expire is in the
  channel, in the scavenger's list, in the sweep or in the hand of the accept loop;
  one that cannot keeps its slot;
* `RulesKept`: every rule in the chain has somebody who will remove it, and foreign
  rules stay (`RulesOwned`), for any connections and exit paths at once, from
  `RuleInv == TypeOK /\ ThreadsSound /\ RecordedLast /\ ForeignLeft /\ ...`:
  a rule is recorded by the step after the one that added it, so what a thread
  holds in its hand counts as well;
* `FlowsStaySound`: nothing is delivered from an address that never completed a real
  connection, and a real connection whose segments are kept on the host is where a
  sweep or a close will find it, but for the two kinds of section 6 (`FlowsSound`), from
  `RawInv == TypeOK /\ Numbered /\ AcceptSound /\ TasksSound /\ OnlyEstablished /\
  TableOwns`. The table itself may hold any address: a captured segment, or a write to
  an address, makes an orphan there.

Assumptions: counts are natural numbers (`TunnelAssumption`), exit paths and
connections are different threads (`ExitAssumption`), who connects is a peer and
real connections are numbered from 1 (`RawAssumption`). The pool is proved for the
three settings of `Configs` (one slot that expires and one that does not, two
slots).

### How

* There is no induction over data in the provers' reach. `LeastNatural` (from the
  library's well-founded order) replaces it: the least number for which a claim
  fails is looked at, and the one before it leads to a contradiction. That proves
  what the recursive `Sum` of `SmuxWindow` returns (`SumsExist`, `SumFacts`), how
  far the receiver's loop goes, and over the cardinality of a finite set what a fold
  over it sums up to in whatever order the elements are chosen (`FoldExists`,
  `SumFolds`, `SumChanges`).
* `Transport`, `MCSmux`, `MCProxy` and `MCProcess` are sums of parts (section 2). An invariant
  `part = "pipe" => P!PipeInv` is inductive in the sum, since a part's own steps
  keep it and all others leave its variables at rest (`PipeHolds`, `StreamHolds`...).
* A step of an invariant with many parts first proves the types, then splits the
  parts by what the action can disturb; actions that change the same variables
  share a lemma (`ReaderKeeps`, `AccountsKept`, `ClocksKept`, `IdleStep`).

### Only model-checked, and why

* All liveness: `PipeEnds`, `WritesEnd`, `Settles`, `TerminationEnds`, `ClosesEnd`,
  `FollowsPeer` and that half of `StreamDelivers`. Fairness and ENABLED are out of
  the prover's reach.
* `OrderKept` and `RecoversRight`: what the recursive functions of `Heap`, `GoSort` and
  `ReedSolomon` compute is an induction over data; the field's tables are bitwise.
  `MCTransport` reaches `Bitwise` and can hold no theorem, so that the theorems about
  its parts are in `KcpRecvProofs` and `TransportProofs`. Its `Typed` has every part in
  it, those of the previous sentence too; the types that the invariants need are
  proved with them.
* `Typed` of `MCProxy` and `MCProcess`, for the parts that only liveness is checked of
  (`SmuxSend` and `Session` on other instances, `AutoTune`): the types of the other
  parts are proved with `PipeInv`, `WindowInv`, `TunnelInv`, `RuleInv` and `RawInv`.

## 6. Where the code and its comments disagree

Six runs end in a counterexample; each quotes the line it contradicts in
`PROJECT.json`.

* **A reset that meets a close** (`listener_race`). `packet_input` closes the old
  session of an address and inserts the new one. If another thread has begun to
  close the old session, `close()` returns at once, and that thread's
  `remove_session(remote)`, which goes by address, takes out the new session:
  live, accepted and unreachable.
* **The final flush on an owned socket** (`session_owned`). `close()` queues the
  final flush, cancels `die` and closes the socket without waiting for the
  transmit task, which then finds the socket closed.
* **EOF over unread data** (`smux_eof`). `read_chunk` looks at the buffer and
  then at `die`, `wait_read` at the buffer and then at `fin_event`; a payload
  and the FIN may both arrive in between.
* **A dial that meets the exit hook** (`exit_rules`). `iptables_reset` closes what
  is in `CONN_LIST` when it looks. A dial on another worker lists itself
  afterwards, its blocking task adds a rule, and the process ends: the rule stays
  in the kernel's table.
* **A lock that is not given back** (`exit_stuck`). `on_terminate` runs the hooks
  before it arms the fallback exit, and the hook waits for the xtables lock
  without a limit.
* **A signal from before the pause** (`pipe_pause`). "A starvation that lifts in
  between starts it again, so a reader that was merely paused is given the full
  limit after the far end stops" (`std/src/pipe.rs:61`) is true from probe to probe
  only. When no direction is parked the probes stop (`pipe.rs:870`), and
  `signalled_at` stays. A starvation that one probe saw, and that lifted in such a
  quiet spell, is then the signal of the next stall: the pipe is ended, and the
  socket reset, one watch period after the direction parked again. The same spell
  keeps `unsent` and `drained_at`: the first probe after it compares the send queue
  with a size from before it, so that a unit the reader took meanwhile may not count
  as a drain. `Patience` excepts those units (`fresh` tells them); the inductive
  invariant would fail without the exception.

Other orders the models show, which no run asserts against:

* `Session` with `own_conn = FALSE`, `AtomicSelect = FALSE` and the other
  constants of `MCSessionOwned.cfg`: `FinalFlushSent` fails. The biased `select!`
  polls an empty channel, the final flush and `die` follow, and the poll of
  `die` ends the task.
* With `write_delay`, a write accepted between the final flush and `die` is only
  queued in KCP.
* `SmuxSession`: `recv_loop` may register a SYN after `close_shared()` took the
  map; that stream is not told of the close.
* `KeepaliveExpiry`: tokens that come back just before the expiry make it close
  a session whose `recv_loop` was blocked for the whole period.
* `SmuxWindow` with `frame_size = 3`, which `verify_config` accepts, and
  `Begins = {12}`: `WriteEnds` fails. An update that falls due exactly when
  `num_read` wraps to 0 reads as "none due".
* `SmuxWindow` with two writers and `Begins = {0}`: `HonestPeer` fails. The
  peer's update can precede the count of the frame it is about. kcptun has one
  writer per stream.
* `SmuxSession`: a stream that nobody reads can spend the bucket, and then no
  frame of any stream is read. `Pipe` shows what ends it: the stall rule, on the
  connection whose socket does not take its data.
* `open_stream()` sends the SYN before it registers the stream, and drops what
  the peer answers in between; a kcptun server speaks only after it has dialled.
* `Tunnel`: a dial happens inside the accept loop (`client/src/main.rs:821`), so
  that a server that does not answer holds up every other connection.
* `RawConn`: a real connection accepted while the listener is being closed, or
  superseded by a later one from the same address, is not found by the close;
  `FlowsSound` and `ClosesEnd` except these two.
* `Tunnel`: an `open_stream()` whose SYN is queued and not written within 30 seconds
  ends the client's connection and leaves the SYN queued ("stays queued",
  `smux/src/session.rs:502`) for a stream that is not registered. The server accepts
  it, dials the target, and gets no FIN: that half of a connection lasts until the
  target hangs up or the session ends. `Settles` says so (`given_up`).
* `SmuxSend` with three streams (`Sids = {"s1", "s2", "s3"}`, `Ctrl = {"s1"}`, `Half = 4`,
  `LastId = 3`, `MAX_SHAPER_SIZE = 4`, `Impatient = {}`, `SessionEnds = FALSE`):
  `RoundRobin` fails. A stream whose heap empties leaves the list and comes back at
  its end, which the cursor has not passed yet: two streams that take turns in this
  way are served again and again before a third that waits at the front.
* `Fec`: a packet from further ahead than `MAX_SHARD_SETS` groups makes the decoder
  give up the groups behind it, also those whose packets are only late.

## 7. Not modelled

In modelled parts: read and write deadlines (they are free choices of a waiting
task to give up), out-of-band messages (`send_oob` enters the channel without
the session mutex and may take the place `flush()` has just seen), statistics,
`set_mtu`, idle shrinking of `Kcp`, trace hooks, `Kcp::update`/`check` (nothing
calls them), a message of more than 255 fragments (`peek_size` adds one to an
8-bit count), the partial read of a message, two readers of one session, the
source filter of the read loop, `Listener::close`, smux protocol errors, `read()`
and `write_to()` beside `read_chunk()`, a decoder that tunes while it holds
shards of the old size, the lengths inside FEC shards, the SIMD kernels (they
compute what the table-driven loop does, byte by byte), the error of a singular
matrix (no selection of rows of these matrices is one), the snappy block format,
padding and skippable chunks (the program writes none), the slab under the shaper's
list, an `iptables` too old for `--wait`, for which the program tries the xtables lock
itself and goes on without it where the model waits (`ExitHooks`), and a second writer
of a stream.

Left out as parts, and why:

* ciphers, hashes and how the permutation pads and random words are derived: byte transformations without
  control state, fixed by vectors; a datagram that fails decryption is one that
  was lost;
* the crafting, parsing and checksums of TCP segments, packet connections, raw
  sockets and batched system calls: I/O against the kernel; what the program
  relies on (a send takes part of a batch, fails, finds the socket closed) is in
  `Session` and `RawConn`;
* smux frame layout, command line, configuration, JSON, time formats, logging,
  statistics and profiling: text and layout;
* the buffer pool: a bounded free list that allocates when it is empty;
* test kits, simulators, fuzzers, interoperability harnesses and benchmarks, which
  are about two thirds of the lines of the repository's Rust code.

So the share of the repository's lines that a model stands for is small, about
a ninth, and cannot become large: what is modelled is most of the code that
keeps state between two events.

## 8. Plan

Theorems:

1. `SetsBounded` and the safety half of `RecoversRight` for `Fec`, over an abstract
   code that recovers from enough shards.
2. The ring's `FreeSlotsEmpty` and `ViewsAgree`.

Models: `Listener::close`; out-of-band messages in `Session`; tuning in `Fec`
while shards are held; `Pipe` over `SmuxSession` instead of an abstract stream.
