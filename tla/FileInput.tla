------------------------------ MODULE FileInput ------------------------------
(***************************************************************************)
(* FileInputNode with its AsyncBufferController and DoubleBuffer: the      *)
(* executor takes frames from one block while background coroutines read   *)
(* the file into the other.  The coroutines run on the node's io_context;  *)
(* the session runs on the next one of the pool (spawn_session_coroutine), *)
(* another thread, so their steps interleave freely.                       *)
(*                                                                         *)
(* Lengths are in units of which a frame has FrameSize and a block         *)
(* BufferSize.  What a block holds is described by the stretch of the file *)
(* it was read from: position base onwards, len units, then silence.       *)
(***************************************************************************)
EXTENDS Integers, Sequences, SequencesExt

CONSTANTS
    FrameSize,      \* FRAME_SIZE_BYTES (320)
    BufferSize,     \* BUFFER_SIZE (131072)
    Settings,       \* the nodes and disks considered: is_in_loop_, the audio
                    \* units of the file (its WAV header apart), whether open
                    \* and read can fail, and when a read ends: before the
                    \* next "tick", before the other "block" is played out,
                    \* or at "any" time
    MaxTasks,       \* bound on the coroutines in flight
    MaxFrames       \* bound on processed_frames_ while total_frames_ is 0

ASSUME SizeAssumption == /\ FrameSize \in Nat \ {0}
                         /\ BufferSize \in Nat /\ BufferSize >= FrameSize
ASSUME SettingAssumption ==
    Settings \subseteq [in_loop : BOOLEAN, size : Nat, faults : BOOLEAN,
                        pace : {"tick", "block", "any"}]
ASSUME BoundAssumption == MaxTasks \in Nat \ {0} /\ MaxFrames \in Nat

VARIABLES
    read_index_, back_buffer_ready_, blocks_,       \* DoubleBuffer
    in_buffer_processed_frames_,                    \* AsyncBufferController
    file_open, file_pos, file_size,                 \* file_handle_
    processed_frames_, total_frames_,               \* Node
    tasks,          \* fetching coroutines, in the order they were spawned
    current,        \* "preparing", "playing", "away" (in a loop), "finished"
    round,          \* how often close() ran, modulo 2
    heard,          \* the last frame: its round and number, where it came from
    faulted,        \* has an open or a read failed?
    setting         \* one of Settings, never changed

buffer == <<read_index_, back_buffer_ready_, blocks_,
            in_buffer_processed_frames_>>
file == <<file_open, file_pos, file_size>>
node == <<processed_frames_, total_frames_, current, round>>
vars == <<buffer, file, node, tasks, heard, faulted, setting>>

\* fetch_bytes and open() try three times.
max_retries == 3

Torn == -1          \* base of a block holding a mixture
Silence == [base |-> 0, len |-> 0]
Mixture == [base |-> Torn, len |-> BufferSize]

Smaller(m, n) == IF m < n THEN m ELSE n

\* What the frame at this offset of a block holds.
FrameAt(block, offset) ==
    IF offset >= block.len THEN [pos |-> 0, len |-> 0]
    ELSE [pos |-> IF block.base = Torn THEN Torn ELSE block.base + offset,
          len |-> Smaller(FrameSize, block.len - offset)]

Task(kind) == [kind |-> kind, pc |-> "start", dest |-> 0, attempt |-> 0,
               got |-> 0, clash |-> FALSE]
Tasks == [kind : {"refill", "init1", "init2"},
          pc : {"start", "reading", "arrived", "retry"}, dest : {0, 1},
          attempt : 0..max_retries, got : 0..BufferSize, clash : BOOLEAN]

\* prepare() awaits initialize_buffers() before the first frame.
Init ==
    /\ read_index_ = 0
    /\ back_buffer_ready_ = FALSE
    /\ blocks_ = [b \in {0, 1} |-> Silence]
    /\ in_buffer_processed_frames_ = 0
    /\ file_open = FALSE
    /\ file_pos = 0
    /\ setting \in Settings
    /\ file_size = setting.size
    /\ processed_frames_ = 0
    /\ total_frames_ = 0
    /\ tasks = <<Task("init1")>>
    /\ current = "preparing"
    /\ round = 0
    /\ heard = [round |-> 0, n |-> -1, pos |-> 0, len |-> 0]
    /\ faulted = FALSE

-----------------------------------------------------------------------------
(* The fetching coroutines.                                                *)

\* async_read into a span: until it ends the block holds a mixture, and of
\* two reads on one handle nobody knows who gets which part of the file.
StartRead(i, t) ==
    LET clash == \E j \in DOMAIN tasks \ {i} : tasks[j].pc = "reading"
        marked == [j \in DOMAIN tasks |->
                     IF tasks[j].pc = "reading"
                     THEN [tasks[j] EXCEPT !.clash = TRUE] ELSE tasks[j]]
    IN  /\ tasks' = [marked EXCEPT ![i] =
                       [t EXCEPT !.pc = "reading", !.clash = clash]]
        /\ blocks_' = [blocks_ EXCEPT ![t.dest] = Mixture]

\* The coroutine asks for the write span and enters fetch_bytes, which opens
\* a closed file and counts its frames.  Coroutines start in spawning order.
BeginFetch(i) ==
    /\ tasks[i].pc = "start"
    /\ \A j \in 1..(i - 1) : tasks[j].pc # "start"
    /\ LET t == [tasks[i] EXCEPT !.dest = 1 - read_index_]
       IN  \/ /\ file_open
              /\ StartRead(i, t)
              /\ UNCHANGED <<file, total_frames_, faulted>>
           \/ /\ ~file_open
              /\ file_open' = TRUE
              /\ file_pos' = 0
              /\ total_frames_' = file_size \div FrameSize
              /\ StartRead(i, t)
              /\ UNCHANGED <<file_size, faulted>>
           \/ /\ ~file_open
              /\ setting.faults
              /\ faulted' = TRUE
              /\ total_frames_' = 0
              /\ tasks' = [tasks EXCEPT ![i] = [t EXCEPT !.pc = "arrived"]]
              /\ UNCHANGED <<file, blocks_>>
    /\ UNCHANGED <<read_index_, back_buffer_ready_,
                   in_buffer_processed_frames_, processed_frames_, current,
                   round, heard>>

\* The file delivers: the block is full or the file is at its end.
ReadCompletes(i) ==
    /\ tasks[i].pc = "reading"
    /\ LET got == Smaller(BufferSize, file_size - file_pos)
       IN  /\ file_pos' = file_pos + got
           /\ tasks' = [tasks EXCEPT ![i].pc = "arrived", ![i].got = got]
           /\ blocks_' = [blocks_ EXCEPT ![tasks[i].dest] =
                            IF tasks[i].clash THEN Mixture
                            ELSE [base |-> file_pos, len |-> got]]
    /\ UNCHANGED <<read_index_, back_buffer_ready_,
                   in_buffer_processed_frames_, file_open, file_size, node,
                   heard, faulted>>

\* An error part of the way: the file position stays where it got to.
ReadFails(i) ==
    /\ setting.faults
    /\ faulted' = TRUE
    /\ tasks[i].pc = "reading"
    /\ file_pos' \in file_pos..Smaller(file_pos + BufferSize, file_size)
    /\ tasks' = [tasks EXCEPT ![i].pc = "retry", ![i].attempt = @ + 1]
    /\ UNCHANGED <<buffer, file_open, file_size, node, heard>>

\* Mutant: it never gives up.
RetryForever(i) ==
    /\ tasks[i].pc = "retry"
    /\ file_open
    /\ StartRead(i, tasks[i])
    /\ UNCHANGED <<read_index_, back_buffer_ready_,
                   in_buffer_processed_frames_, file, node, heard, faulted>>

\* RETRY_DELAY_MS later: read again into the same span, or give up with 0.
\* A read on a handle that is closed fails at once.
Retry(i) ==
    /\ tasks[i].pc = "retry"
    /\ \/ /\ tasks[i].attempt < max_retries
          /\ file_open
          /\ StartRead(i, tasks[i])
       \/ /\ tasks[i].attempt < max_retries
          /\ ~file_open
          /\ tasks' = [tasks EXCEPT ![i].attempt = @ + 1]
          /\ UNCHANGED blocks_
       \/ /\ tasks[i].attempt = max_retries
          /\ tasks' = [tasks EXCEPT ![i].pc = "arrived"]
          /\ UNCHANGED blocks_
    /\ UNCHANGED <<read_index_, back_buffer_ready_,
                   in_buffer_processed_frames_, file, node, heard, faulted>>

\* Mutant: a read that brought nothing silences nothing.
Unfilled(i) == blocks_

\* The part of the block that was not read is silenced.
Filled(i) == IF tasks[i].got = 0
             THEN [blocks_ EXCEPT ![tasks[i].dest] = Silence]
             ELSE blocks_

\* Mutant: the flag is left to the next swap.
FetchEndsUnready(i) ==
    /\ tasks[i].pc = "arrived"
    /\ blocks_' = Filled(i)
    /\ \/ /\ tasks[i].kind = "init1"
          /\ read_index_' = 1 - read_index_
          /\ tasks' = [tasks EXCEPT ![i] = Task("init2")]
          /\ UNCHANGED current
       \/ /\ tasks[i].kind # "init1"
          /\ current' = IF current = "preparing" THEN "playing" ELSE current
          /\ tasks' = RemoveAt(tasks, i)
          /\ UNCHANGED read_index_
    /\ UNCHANGED <<back_buffer_ready_, in_buffer_processed_frames_, file,
                   processed_frames_, total_frames_, round, heard, faulted>>

\* fetch_bytes returns: the block is ready, and initialize_buffers goes on to
\* the other block after the first.
FetchEnds(i) ==
    /\ tasks[i].pc = "arrived"
    /\ blocks_' = Filled(i)
    /\ back_buffer_ready_' = TRUE
    /\ \/ /\ tasks[i].kind = "init1"
          /\ read_index_' = 1 - read_index_
          /\ tasks' = [tasks EXCEPT ![i] = Task("init2")]
          /\ UNCHANGED current
       \/ /\ tasks[i].kind # "init1"
          /\ current' = IF current = "preparing" THEN "playing" ELSE current
          /\ tasks' = RemoveAt(tasks, i)
          /\ UNCHANGED read_index_
    /\ UNCHANGED <<in_buffer_processed_frames_, file, processed_frames_,
                   total_frames_, round, heard, faulted>>

-----------------------------------------------------------------------------
(* The executor: get_next_frame while this node is the current one.        *)

Hear(frame) == heard' = [round |-> round, n |-> processed_frames_,
                         pos |-> frame.pos, len |-> frame.len]

\* advance_to_next_node: close() the file, which aborts the read in flight,
\* and reset the buffers; a node in a loop refills them at once.  pending are
\* the coroutines in flight.
Close(pending) ==
    LET aborted == [i \in DOMAIN pending |->
                      IF pending[i].pc = "reading"
                      THEN [pending[i] EXCEPT !.pc = "retry", !.attempt = @ + 1]
                      ELSE pending[i]]
    IN  /\ file_open' = FALSE
        /\ processed_frames_' = 0
        /\ read_index_' = 0
        /\ back_buffer_ready_' = FALSE
        /\ blocks_' = [b \in {0, 1} |-> Silence]
        /\ in_buffer_processed_frames_' = 0
        /\ tasks' = IF setting.in_loop THEN Append(aborted, Task("init1"))
                    ELSE aborted
        /\ current' = IF setting.in_loop THEN "away" ELSE "finished"
        /\ round' = 1 - round
        /\ UNCHANGED <<file_pos, file_size, total_frames_, faulted>>

\* total_frames_ was 0 when the file could not be opened, and a later open
\* counted fewer frames than were already played.
EndOfStream ==
    /\ current = "playing"
    /\ total_frames_ > 0 /\ processed_frames_ >= total_frames_
    /\ Hear([pos |-> 0, len |-> 0])
    /\ Close(tasks)

\* Mutant: the test is made for the start of the frame.
NeedsSwapLate == in_buffer_processed_frames_ * FrameSize > BufferSize

\* buffer_offset + FRAME_SIZE_BYTES > current_span.size()
NeedsSwap == (in_buffer_processed_frames_ + 1) * FrameSize > BufferSize

Underrun ==
    /\ current = "playing"
    /\ total_frames_ = 0 \/ processed_frames_ < total_frames_
    /\ NeedsSwap
    /\ ~back_buffer_ready_
    /\ Hear([pos |-> 0, len |-> 0])
    /\ UNCHANGED <<buffer, file, node, tasks, faulted>>

\* process_frame succeeds: a frame from block b at this offset, then either
\* the next one or, when it was the last, the next node.
PlayFrom(b, frames, pending) ==
    /\ processed_frames_ < MaxFrames
    /\ Len(pending) < MaxTasks
    /\ Hear(FrameAt(blocks_[b], frames * FrameSize))
    /\ \/ /\ total_frames_ > 0 /\ processed_frames_ + 1 >= total_frames_
          /\ Close(pending)
       \/ /\ total_frames_ = 0 \/ processed_frames_ + 1 < total_frames_
          /\ processed_frames_' = processed_frames_ + 1
          /\ read_index_' = b
          /\ in_buffer_processed_frames_' = frames + 1
          /\ tasks' = pending
          /\ UNCHANGED <<back_buffer_ready_, blocks_, file, total_frames_,
                         current, round, faulted>>

PlayFrame ==
    /\ current = "playing"
    /\ total_frames_ = 0 \/ processed_frames_ < total_frames_
    /\ ~NeedsSwap
    /\ setting.pace = "tick" => tasks = <<>>
    /\ PlayFrom(read_index_, in_buffer_processed_frames_, tasks)

\* Mutant: the blocks are not swapped.
RefillOnly ==
    /\ current = "playing"
    /\ total_frames_ = 0 \/ processed_frames_ < total_frames_
    /\ NeedsSwap
    /\ back_buffer_ready_
    /\ setting.pace # "any" => tasks = <<>>
    /\ PlayFrom(read_index_, 0, Append(tasks, Task("refill")))

\* swap_and_trigger_refill: back_buffer_ready_ keeps its value.
SwapAndPlay ==
    /\ current = "playing"
    /\ total_frames_ = 0 \/ processed_frames_ < total_frames_
    /\ NeedsSwap
    /\ back_buffer_ready_
    /\ setting.pace # "any" => tasks = <<>>
    /\ PlayFrom(1 - read_index_, 0, Append(tasks, Task("refill")))

\* The loop (through a delay) comes back to this node.
Reenter ==
    /\ current = "away"
    /\ setting.pace # "any" => tasks = <<>>
    /\ current' = "playing"
    /\ UNCHANGED <<buffer, file, processed_frames_, total_frames_, round,
                   tasks, heard, faulted>>

-----------------------------------------------------------------------------
FetchStep(i) ==
    \/ BeginFetch(i)
    \/ ReadCompletes(i)
    \/ ReadFails(i)
    \/ Retry(i)
    \/ FetchEnds(i)

Frame ==
    \/ EndOfStream
    \/ Underrun
    \/ PlayFrame
    \/ SwapAndPlay

Next ==
    /\ \/ \E i \in DOMAIN tasks : FetchStep(i)
       \/ Frame
       \/ Reenter
    /\ UNCHANGED setting

Spec == Init /\ [][Next]_vars

\* The session ticks, the disk answers, and a delay passes.
Fairness ==
    /\ \A i \in 1..MaxTasks : WF_vars(i \in DOMAIN tasks /\ FetchStep(i)
                                        /\ UNCHANGED setting)
    /\ WF_vars(Frame /\ UNCHANGED setting)
    /\ WF_vars(Reenter /\ UNCHANGED setting)

FairSpec == Spec /\ Fairness

-----------------------------------------------------------------------------
\* Every variable has its type.
TypeOK ==
    /\ read_index_ \in {0, 1}
    /\ back_buffer_ready_ \in BOOLEAN
    /\ blocks_ \in [{0, 1} -> [base : Torn..file_size, len : 0..BufferSize]]
    /\ in_buffer_processed_frames_ \in Nat
    /\ file_open \in BOOLEAN
    /\ file_pos \in 0..file_size
    /\ processed_frames_ \in 0..MaxFrames
    /\ total_frames_ \in {0, file_size \div FrameSize}
    /\ tasks \in Seq(Tasks) /\ Len(tasks) <= MaxTasks + 1
    /\ current \in {"preparing", "playing", "away", "finished"}
    /\ round \in {0, 1}
    /\ faulted \in BOOLEAN
    /\ setting \in Settings
    /\ heard.pos \in Torn..file_size

\* get_frame copies each frame from within its block, for a block that is no
\* whole number of frames too: what was copied so far lies in the block.
ReadInBounds == in_buffer_processed_frames_ * FrameSize <= BufferSize

\* Where frame n of a file is expected: blocks follow each other in the file,
\* and the rest of a block that is too short for a frame is not played.
Position(n) ==
    LET perBlock == BufferSize \div FrameSize
    IN  (n \div perBlock) * BufferSize + (n % perBlock) * FrameSize

\* get_frame and the refills never lose, repeat or reorder a block: unless a
\* read failed or came too late, each frame, in every round of a loop, comes
\* from its place in the file, and only places past its end are silent.
PlaysInOrder ==
    ~faulted /\ setting.pace # "any" /\ heard.n >= 0 =>
        LET left == file_size - Position(heard.n)
        IN  \/ left <= 0 /\ heard.len = 0
            \/ /\ left > 0
               /\ heard.pos = Position(heard.n)
               /\ heard.len = Smaller(FrameSize, left)

PerBlock == BufferSize \div FrameSize

\* close() starts a coroutine over in a loop.  It meets no other one when
\* reads end before the next tick, none fails, and the file does not end with
\* the frame that swaps the blocks, which starts a refill.
Steady ==
    setting.in_loop =>
        /\ setting.pace = "tick" /\ ~setting.faults
        /\ LET frames == setting.size \div FrameSize
           IN  frames <= 1 \/ (frames - 1) % PerBlock # 0

InTime == Steady /\ setting.pace # "any"

\* A file is never played backwards: outside loops whatever reads fail and are
\* retried, as long as none comes later than the block it is for, and within
\* each round of a loop in which reads are in time, none fails and no refill
\* is under way at the close (elsewhere two coroutines meet on the file).
NeverReplays ==
    [][InTime /\ heard' # heard /\ heard'.round = heard.round
            /\ heard.len > 0 /\ heard'.len > 0
          => heard'.pos > heard.pos]_vars

\* Outside loops, giving up on a read leaves silence, not what the failed read
\* left behind (reads too late to be told apart leave a mixture); in a loop
\* without failures and late reads no block is left a mixture either.
NoResidue ==
    InTime /\ tasks = <<>> => \A b \in {0, 1} : blocks_[b].base # Torn

\* The refill that close() starts in a loop is done when the walk comes back.
FilledOnReturn == ~setting.in_loop \/ setting.pace # "any"

\* Nothing clears back_buffer_ready_ at a swap, so get_frame's test for an
\* underrun never fires: outside loops however late a read is, and in a loop
\* when the refill of close() is done before the walk comes back.  What a
\* late read has not brought yet is played as it stands.
NoUnderrun == [][FilledOnReturn => ~Underrun]_vars

\* A file of at least one frame is played to its end, and a loop comes
\* round, however slow the disk: underruns do not go on for ever.
RoundEnds ==
    \A r \in {0, 1} :
        (round = r /\ current = "playing" /\ total_frames_ > 0)
            ~> (round # r)
=============================================================================
