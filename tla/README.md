# A verification of hermes-flow-server

hermes-flow-server streams audio graphs (files, mixers, delays) as RTP.  A
client POSTs a graph, gets a session id, connects a WebSocket to it, and the
server plays the graph in 20 ms frames until it ends or is stopped.  These TLA+
modules model the parts of the server that are hard to test: what several
threads, coroutines and requests do to shared state, and what files, disks and
packets do when they are slow, short or lost.  TLC checks them on small
instances; TLAPS proves the most important properties for all instances.

Run from this directory:

    tlc -config Session.cfg MCSession           # any row of the tables of runs
    tlapm Session_proofs.tla                    # any *_proofs module

## The system

| part | state | operations | who else touches it |
|---|---|---|---|
| `ActiveSessions` | the two maps, the queue of WebRTC ports, `mutex_` | create, connect, stop, pause, resume, metrics | every request, on every io_context thread, and every session coroutine at its end |
| `Session` | `is_running_`, `is_paused_`, `resume_channel_`, `timer_`, `observer_` | `start` (the audio loop), `stop`, `pause`, `resume` | requests set the flags while the loop reads them |
| `AudioExecutor`, nodes, graph parser | wiring, current node, frame counters, loop flags | `connect_input`, `prepare`, `get_next_frame`, `advance_to_next_node` | the session's loop |
| `FileInputNode`, `AsyncBufferController`, `DoubleBuffer` | two blocks, read index, ready flag, file handle | `initialize_buffers`, `get_frame`, refills, `close` | refill coroutines run beside the loop |
| downloads (`FileSink`, `PartialFileGuard`, `HttpStreamer`, `S3Session`) | a file on disk | `ensure_file_exists`, `download_from_s3` | every session that plays the same file |
| `RTPPacketizer`, `RTPStreamer` | sequence number, roll-over counter, ring of buffers | `packetize`, `send_frame` | the receiver (`tests/exampleClient.py`) follows the counters |
| `WebSocketSession`, observer | send queue, stream | `send`, `close`, the write loop | sessions send, the registry closes |
| `HttpSession`, `Router`, graph parser | the requests of a connection | read, route, answer, upgrade | clients that pipeline, break off or wait |
| `Listener`, `Server`, `IoContextPool`, `main` | ownership of everything above | accept, start, stop | the signal handler |
| A-law, RTP headers, WAV header, pitch shifter | none, or two pointers | pure functions | the samples and packets of every frame |
| encryption, signing, config | none that outlives a call | pure functions | |

Hard behaviour, each listed with its line under `hazards` in PROJECT.json:
flags set by one thread between two reads of another; a channel that remembers
a stale signal; a check (`is_running()`, `exists()`, `back_buffer_ready_`) whose
answer is old when it is used; a coroutine that runs after what it belongs to
was stopped, closed or removed; a resource returned twice or never; blocks and
counters at their limits.

## The modules

**SessionLifecycle** is the abstract specification: what the registry and a
session agree on.  An id is new, live or gone; a connection looks the session
up, is admitted or refused by `is_running()`, spawns a coroutine, which runs,
ends, and removes the session.  It has no loop, channel, map or port.

**Session** is one session in full.  `pc[c]` is the place of coroutine `c`
between two suspensions or two accesses to an atomic: `loop` and `pausecheck`
are the two tests of `run_main_audio_loop`, `receive`/`blocking`/`sleeping` is
`wait_for_resume`, `settick`/`wait`/`tick`/`ticked`/`aborted` is
`wait_for_next_tick` and what follows, `teardown`/`finalize`/`ended`/`done` the
end of `start()` and of the lambda around it.  `Pause`, `Resume`, `Stop` are the
request handlers; they reach a session only while it is `registered`.  The
channel holds at most one signal and has no lock: `try_send` can come between
the receiver's test and its queueing, which `raced` remembers.
`framesSincePause`, `framesSinceStop` and `restarted` are histories too.
`Sole(c)` says that nobody else has spawned a coroutine.  Session implements
SessionLifecycle through `Phase`.

**ActiveSessions** is the registry for several ids and connections.  Each block
under `mutex_` is one action; a handler that takes the mutex twice is two.
`create[id]` follows one `create_session` call through allocation, insertion and
the destructor of `PortGuard`.  `Start` and `Finish` stand for
`Session::start()`.  For each id it implements SessionLifecycle as well
(`KeepsLifecycle` for one id in the run, `ContractKept` for all).  Pause and
resume only call into the session under the mutex and are actions of Session;
which io_context a session or a coroutine gets is not told apart.  The branch of
`create_session` for a failed `Session::create` is left out: it needs a graph
without a start node, which `parse_graph` does not return.

**FileInput** is one file node: consumer (`Frame`) and coroutines (`tasks`).  A
block is described by the stretch of the file it was read from, so that a
played frame (`heard`) can be compared with the place it should come from.
`setting` is the node and its disk: in a loop or not, the length of the file,
whether opening and reading can fail, and its pace: a read ends before the next
"tick", before the other "block" is played out (about 8 s in the code), or at
"any" time.  While a read is in flight, or when two reads overlap on the one file
handle, a block holds a mixture.  A closed file aborts the read in flight; the
coroutine then waits and retries, possibly in the next round.

**GraphExec** is the way of a request's graph from its edges to its last frame.
`connect_input` adds an edge as the target's kind accepts it, in any order, so
that the model explores every wiring; `EnsureEnds` and `Receive` are the two
ends of `await_all_dynamic`; `initialize_nodes` is the rest of `prepare()`,
which does not suspend for anything another part touches; each `FrameOf...` is
a call of `get_next_frame` on a node of that kind, `advance_to_next_node`
included.  A file is a counter and the state of its buffers.  `disturbed` and
`cut` are histories.  `Walk` follows `next()`; `Leads` is the reference
definition against which `detect_and_flag_loops` is checked.

**AssetStore** is one path on disk and the nodes that ensure a file is there.
A file removed while open lives on for its writers, as on Linux.

**RtpStream** is the way of a packet: the clients, the ring of buffers that
`send_frame` makes packets in, the packetizer's two counters, the sends the
socket has queued (a buffer is read when the socket takes it, not when it is
queued), a path that loses and reorders within `Window`, and the receiver's
estimate of the roll-over counter.  The width of a sequence number is `SeqMod`.

**Alaw, RtpPacket, WavUtils, PitchShifter** are the pure parts as operators,
**MediaTools** runs each of them step by step.  A-law is the arithmetic that
fills the two tables, with its shifts and masks as tables of their own
(`SEGMENT_EDGES`, `PowerOfTwo`, `Toggle`).  RtpPacket writes and reads octets,
`from_buffer` with every length check.  WavUtils lays the chunks of a file out
as RIFF does, with a padding octet behind an odd size, and walks them as
`get_audio_data_offset` does, without it, through the 256 octets that `open()`
reads; behind an odd chunk the walk is astray, and what it finds is a set of
outcomes (`Astray`).  PitchShifter has its write pointer and phase in fixed
point, with the one place where float rounding shows (a phase just below 0
becomes 1.0F).

**GraphParser** is `parse_graph` and the creators of NodeRegistry: the checks of
a JSON document in their order, ports cut to 16 bits, ratios that may be nan.
**Router** is `route_query`: which status answers a request, and what it asks
of the registry.  Both are operators.  A missing value, or one of another
type, is `Bad`.

**HttpSession** is a connection: what the client sent and the server has not
read (`inbox`), what the client waits for (`awaiting`), and where `do_session`
is.  Heads and bodies arrive separately, requests may be pipelined, a client
may close or fall silent at any time, a write may fail.  The body of an OPTIONS
request stays in the stream (`unread`), and the next read takes its octets for a
head: `ReadStray` lets that fail or give any request, which is then routed and
answered, and so does every later read (`adrift`).

**WebSocketSession** is the send queue of a connection that was upgraded:
`posted` are the handlers that `send()` and `close()` posted to its executor,
`send_queue_` the deque, `write` the `async_write` under way, `wire` what the
client got.  Beast's stream (external) writes while it is open, lets a close wait
for the write in flight and aborts later writes.  What it does with a write or a
close that comes during the handshake is left open: nothing in the code depends on
one outcome.

**Server** composes the two with the registry, the sessions' messages, the
Listener and the shutdown.  An operation of the registry is one step here;
its interleavings are ActiveSessions' subject.  `Stop` is the signal handler;
`DestroyServer` and `DestroyMainContext` are the destructors at the end of
`main`, with what each reference still keeps alive.  After the stop no handler
starts, but one in `route_query` goes on, since nobody joins it, until it needs a
registry that is gone: what it does then is undefined and left out.

The `MC*` modules add what TLC needs (symmetry sets, sets of sizes); `*_proofs`
hold the theorems.

## What the runs check

Passing runs:

| run | bounds | shows |
|---|---|---|
| session | 2 coroutines | no lost wake-up, an abort is a stop, the client is told how the session ended; stopped while playing it ends, resumed it plays, paused it sleeps; at most one frame per coroutine after a pause or a stop; refinement |
| registry | 3 ids, 2 connections, 2 ports | ports are not lost, a watched session has an open socket in the map, refinement for each id |
| graph | 2 files, mixer, delay, options, clients; every wiring with at most 2 edges into the mixer | loops flagged and refilled, files played to their end, downloads joined, a graph without a loop ends |
| file | blocks of 2.5 frames; outside a loop files of 0..13 units on a failing disk and of 6 and 13 on a disk of any speed; in a loop a file of 6 on a disk of any speed and files of 1, 3, 4, 5, 8, 9, 12 and 13 on a steady disk (no faults in loops); up to 3 coroutines | every frame from its place in the file while reads are in time, never beyond the block; three attempts, then silence; never backwards; a read that is late is not noticed; every round ends in spite of underruns |
| assets | 3 nodes, 2 pieces | at rest the file is whole or absent |
| rtp_stream | 3-bit sequence numbers, every start, 2 clients of which one has simulated loss, a ring of buffers | indices unique, a queued send finds its packet unless the socket stalls for a turn of the ring, receiver in step |
| media | all 65536 samples; packets with up to 2 sources, with and without extension, every truncation; WAV files of up to three chunks of even and odd sizes; increments of 1/8 and 3/8 up and down | a sample survives coding within its quantum, a packet survives the wire or is refused, the audio behind chunks of even sizes is found, the heads stay off the write pointer and are faint when they jump |
| server | 2 connections, 2 requests unanswered, 1 session, 1 message before the last; about 60 other requests and graphs sent one at a time | answers match requests until an unread body is taken for one, messages arrive in order and the last before the close, with a shutdown at any moment |

Runs that show a disagreement between the code and what it says of itself
(quoted under `findings`):

| run | shows |
|---|---|
| session_stop_paused | `/stop/` of a paused session leaves its coroutine asleep for ever |
| registry_ports | a created session's port goes back to the pool at once |
| file_reuse | a loop starts its next round in the wrong place |
| rtp_receiver | the last packet of a sequence cycle has the wrong index |

Behaviour the models contain and no run is devoted to: a stop before the
coroutine starts is overwritten by `start()` (`restarted`, the condition of
`FramesAfterStop`); two connects can both be admitted, which is why the session
run has two coroutines (`Sole`); a signal sent from another thread can be missed
(`raced`); a WebSocket entered after a stop stays in its
map; the coroutine is spawned on the next io_context of the pool rather than
the session's; `back_buffer_ready_` stays set while the back buffer is refilled;
the last 192 bytes of each block are skipped (`Position`); a failing download
removes a file another node found; a file used in two places of a graph is
empty in the second (`UsedOnce`); a delay shorter than a frame never ends; the
samples -7..-1 decode to -248; a chunk of odd size before the audio of a WAV file
has its padding octet taken for the beginning of the next chunk, so that the audio
is looked for at the default offset (`Astray`; `AudioFound` asks for even sizes); the
body of an OPTIONS request is taken for the next request, and when its octets spell
one that request is routed and answered (`adrift`; `AnswersMatch` says that it takes
such a body); the end of a connection is answered with 400, though
HttpSession.hpp:97 speaks of "false on graceful EOF"; a failed upgrade closes
the connection without an answer; a message sent before the WebSocket handshake
is over may fail and then blocks the queue for ever (`early`); a message that still
waits behind another when the session ends is lost to the close (the condition of
`due`); `~Server` may destroy ActiveSessions while the Listener's coroutine and the
connections still own the Router, though Router.hpp:169-170 says "Server ensures
Router dies before ActiveSessions", and a request in `route_query` at the stop may
then use the registry that is gone, though IoContextPool.hpp:36 says that stop()
"joins all threads" (`DestroyServer`, `LeaveRoute`).

Why the bounds are enough: the session's and the registry's hazards need two
actors on one session, and a second session only to take the port or the id;
the frame histories stop at 2 because the properties tell apart 0, 1 and more;
a graph needs a second file to mix and one node of each other kind to offer
every edge that connect_input can accept or refuse, and lengths of 1 and 2 to
let one input end before another;
13 units are three blocks, so that each block is used for the second time;
3 nodes let one truncate while another fails and a third finds the file;
18 packets of 3-bit numbers roll over twice from every start, and the path's
window of 3 is less than half the number space, as with 16 bits.  The server
needs a second connection to stop a session whose WebSocket is the first, or to
take it over, and a second request to be pipelined behind another; the probes
ask the router and the parser one question each, so they are sent while nothing
else is under way.  The two connections are symmetric.  Three chunks of up to 200
octets put the audio before, at and behind the end of the 256 that are read.

`CHECK_DEADLOCK FALSE` is set throughout: a session that has ended, a file that
was played, a download that is over and a path that reached its bound stop.

## Fairness

Session's `FairSpec` has weak fairness for what an io_context thread runs by
itself: ready handlers and expired timers (`RunStep`).  It has none for the
clients' requests, and none for the end of `prepare()`, whose transfers have no
deadline once the body begins.  FileInput's has weak fairness for each
coroutine (the disk answers, retries are bounded), for frames (the session
ticks) and for the return to a node of a loop (delays pass).  GraphExec's has it
for the tick and for the refills; nothing is assumed of the downloads.  RtpStream,
MediaTools, AssetStore and Server state safety only and assume none.

## What is proved

For every value of the constants, under the named assumptions of the modules.
The bounds that keep TLC finite (`MaxPackets`, `MaxMessages`, `MaxTasks`, ...)
are constants too: the theorems hold for all of them.
Each theorem rests on an inductive invariant; what it adds to the property says
why the code is right.

**Session_proofs**, for any number of coroutines.  `TypeCorrect`.  `PauseBound`
and `StopBound`: the proof adds that a coroutine which has sent its frame is not
past the pause check (`InTick`), and likewise for stop and the loop's test.
`Wakeup`: a coroutine that has the session to itself (`Sole`) misses no resume
unless a try_send ran inside its async_receive (`raced`); it fails without
either condition.  The invariant follows the signal: asleep or about to be, the
channel is empty and the session paused.  `AbortIsStop` and `OutcomeTold`: a
coroutine that is alone is the session's observer from the moment it is spawned
(`OutcomeInv`), so that whatever way `start()` ends, the client it tells is the
right one, and what it tells (complete, error, failed prepare) is how it ended.
`Refinement`: Session implements SessionLifecycle, action by action.
`StuckForEver` is the other side of `session_stop_paused`: a coroutine in the
pause of a session that was removed while paused, with no signal in the channel,
never leaves it, however many coroutines there are.

**ActiveSessions_proofs**, for any ids, connections and ports.  `TypeCorrect`,
`PortsKept`, `SocketsTracked`: the ports need three lemmas about the queue (what
a push, a pop and a removal keep) and an invariant relating `create`, `port` and
`sessions_`.  `ContractKept`: for every id the registry implements
SessionLifecycle, whatever it does for the others.  `OverGone` and
`RunningExecutes` follow from the contract alone (`ContractInv`).
`PoolOnlyGrows` says what `registry_ports` shows one case of: the ports in the
queue and those of create calls under way are as many as at the start, plus one
for every WebRTC session that was removed; the proof counts sets (`Holding`,
`Freed`) with the library's theorems on cardinality.  The ports end
below 65535 (`PortAssumption`): at 65535 the loop that fills the pool does not
end.

**FileInput_proofs**, for every block and frame size, file and disk.
`TypeCorrect` and `FramesInBounds` in and outside loops.  `GivenUpIsSilent` and
`PlaysForward` are about `Steady` settings, which is a condition of the
properties themselves: a file outside a loop, on a disk that may fail, and a
file in a loop whose reads are all in time and do not fail (pace "tick", no
faults) and whose last frame is not the first of a block.  Of failing reads in a
loop nothing is claimed. Then there is at most one coroutine when a frame is
played, it writes to the block that is not being played, and a block holds a
mixture only while a coroutine is at work on it (`TaskInv`); hence
`GivenUpIsSilent`.  `PlaysForward`: what was heard lies before what is still to
be played, and that before the position of the file (`ForwardInv`).
`PlaysTheFile` (from `Spec` and `Steady`): as long as nothing fails, the block
being played is the k-th of the file and the (k+1)-th is there or on its way
(`OrderInv`), so that frame n comes from its place, in every round of a loop.
The condition on the last frame is needed: a last frame that swaps the blocks
spawns a refill right before `close()` spawns the next round's, the two meet on
the file handle, and order is lost (run `file_reuse`; `SwapIsNotLast` is where
the proof uses the condition). `ShortFileNeverEnds`: a file of less than a frame
plays silence for ever. `NeverUnderruns` (`NoUnderrun`): since no swap clears
`back_buffer_ready_`, the test for an underrun never fires outside loops,
however late a read is, nor in loops whose refill is done when the walk comes
back (`ReadyInv`).  It is also why GraphExec lets only an unfilled file
underrun.

**GraphExec_proofs**, for graphs of any size, wiring and lengths.  `WalkOnAudio`
rests on what `connect_input` wires (`WalkInv`).  `PrepareJoins` counts: each
result is under way, in the channel or received, and an error that happened is
in the channel or recorded (`JoinInv`).  `NothingCut`: a mixer's length is the
greatest of its inputs', and every input that is not disturbed is as far as the
mixer or finished (`PlayInv`).  `LoopsAreFlagged`: the walk of
`detect_and_flag_loops` is a lasso or ends; the nodes after the knot are closed
under `next()` and every one of them comes back to itself (`FlagInv`, and the
lemmas around `Lasso`, which compare the walk with the reference definition
`Leads`).  `NobodyStarves`: a file that was closed and is not being refilled
belongs to a node that the walk does not come to again (`FeedInv`); this needs
the flags to be right.  `TypeCorrect` collects what these invariants say of the
variables.  `LeftForGood` is the safety half of `AcyclicEnds`: a node that was
not flagged is left once, and the walk never comes back to it (`Behind`).
`ShortDelayNeverEnds`: a delay rounded down to no frames is never left.

**AssetStore_proofs**, for any number of nodes and any object: `AssetTypes` and
`LeftoverWhole`.  The invariant (`Owned`) describes the file at the path
through whoever truncated it last: everybody else only adds to it, and if
that one fails the path is removed.

**RtpStream_proofs**, for every width of the sequence number, ring and number
of clients (`StreamInv`).  `IndicesUnique`: every index used lies before the
next one, but for the last of a cycle, which is counted in the next cycle and
is not reached again (`UsedInv`); the stream is shorter than the roll-over
counter's range (`LifeAssumption`, 178000 years).  `RingKeeps`: a slot of the
ring is as old as its distance from `ring_index_` (`RingInv`, `PendingInv`).
`InSync`: less than half the sequence numbers away from the newest packet
(`LateAssumption`), the receiver's guess finds the cycle a packet was sent in
(`RocFound`, the heart of the proof), and the newest position it keeps is the
true one (`HeardInv`).  `LastOfCycleMissed` turns the finding of `rtp_receiver`
into an equivalence: the receiver's index differs from the sender's for the last
packet of a cycle, always, and for no other.  `TypeCorrect`.

**MediaTools_proofs**.  `HeadsFollowTheirDelay` and `JumpsAreFaint`, for every
window, speed and resolution of the phase: arithmetic about quotients and
remainders, from the phase's range alone (`ShifterInv`).  `FindsTheAudio`, for
files of any number of chunks, those before the audio of even size: the search
visits the chunks where they start, in order.  `PacketsSurvive`, for packets
with any sources, extension and payload that the fields can hold
(`PacketAssumption`): `Layout` says which octet lies where, `ReadBack` and `Cut`
what `from_buffer` makes of a whole and of a truncated packet.  `ChunkStart`,
`FindData` and `FlattenSeq` are recursive functions; that they compute what
their definitions say is proved by induction over a set of numbers (`Least`,
`Reaches`).  `SamplesSurvive`: segment by segment, a code is a quotient by a
power of two, and its middle is decoded.

**Server_proofs**, for any number of connections, requests, sessions and
messages.  `AnswersInOrder`: as long as no octets of a body were taken for a head,
the heads in the inbox are the last requests that the client waits for (`Aligned`),
a body comes exactly where a head announced one unless an OPTIONS body was left
unread (`Framed`), and an answer to something else has its excuse (`HttpInv`); of
the requests it is assumed that arrays in JSON
are indexed from 1 (`RequestsAssumption`).  `ToldAsSent` and `LastWordWritten`:
wire, queue and posted handlers together are the messages sent, in order
(`SocketsInv`), and the registry and the sessions know only WebSockets that
were accepted, whose connection `do_session` is done with (`LinkInv`).
`MuteForEver`: after the first write that failed a client gets nothing more,
whatever is sent to it.  About the shutdown no theorem and no property is stated:
the order that the code's comments promise is not the one it has.

Only model-checked: the liveness properties (`StopEndsPlaying`,
`ResumedSessionPlays`, `PausedSessionSleeps`, `RoundEnds`, `AcyclicEnds`), since
fairness and ENABLED are out of the prover's reach.  Of a file in a loop that is
not `Steady` (late or failing reads, a last frame that swaps the blocks) only
its types, its bounds and `RoundEnds` are claimed.

## Not modelled

Signing, configuration, response texts, headers and logging keep no state.  (A
success response says `Connection: close` and the server reads on.)  Gain,
mixing and interpolation are floating-point arithmetic on samples.  Encryption
and key derivation are OpenSSL's and Crypto++'s; RtpStream checks the index
they are given.  Opening and binding the listening socket either works or ends
the program.  Which thread of the pool gets a connection or a coroutine is not
told apart: any two interleave.  What pool threads do after `main` has returned
is not modelled (listed as a hazard), nor is a crash of the server: the only
persistent state is the files, and a partial file left by a crash is accepted
as it is (listed as a hazard).  Dead code (`remove_client`,
`build_success_response_with_id`) is left out.

## Plan

Done: SessionLifecycle, Session, ActiveSessions, FileInput, AssetStore,
RtpStream, GraphExec, in this order: first what every request goes through,
then what produces and numbers the audio, then the graph around it; then the
conversions (Alaw, RtpPacket, WavUtils, PitchShifter) and the server's side
(GraphParser, Router, HttpSession, WebSocketSession, Server); then the proofs
of every safety property that a run checks.

Next:

1. FileInput in a loop with failing reads: the invariant about several
   coroutines on one handle that `NoResidue` needs there.
2. `PlayedToTheEnd` and FileInput together: the file that GraphExec counts is
   the node that FileInput models.
