--------------------------- MODULE FileInput_proofs --------------------------
(***************************************************************************)
(* The double-buffered file for every block size, frame size and file.     *)
(* Whatever the disk does, get_frame stays inside its block and every      *)
(* variable keeps its type.  For a node outside loops and a disk that      *)
(* reads a block before the other one is played out there is one fetching  *)
(* coroutine at a time (TaskInv), and from that follow: no mixture is left *)
(* behind; failed reads never turn the file back (ForwardInv); and reads   *)
(* that succeed play the file (OrderInv).  In a loop two coroutines may    *)
(* meet, and the order is lost: see the run file_reuse.                    *)
(***************************************************************************)
EXTENDS FileInput, SequenceTheorems, TLAPS

\* ReadInBounds needs to know that it speaks of a natural number.
BoundsInv == in_buffer_processed_frames_ \in Nat /\ ReadInBounds

\* close() resets the controller.
LEMMA CloseStep == ASSUME NEW pending, Close(pending) PROVE BoundsInv'
<1>1. in_buffer_processed_frames_' = 0
  BY DEF Close
<1>2. 0 * FrameSize <= BufferSize
  BY SizeAssumption
<1> QED
  BY <1>1, <1>2 DEF BoundsInv, ReadInBounds

\* A frame taken at `frames' into a block that has room for it.
LEMMA PlayStep ==
    ASSUME NEW b, NEW frames \in Nat, NEW pending,
           (frames + 1) * FrameSize <= BufferSize,
           PlayFrom(b, frames, pending)
    PROVE  BoundsInv'
<1>1. frames + 1 \in Nat
  OBVIOUS
<1>2. CASE Close(pending)
  BY <1>2, CloseStep
<1>3. CASE in_buffer_processed_frames_' = frames + 1
  BY <1>1, <1>3 DEF BoundsInv, ReadInBounds
<1> QED
  BY <1>2, <1>3 DEF PlayFrom

\* Every step keeps the frames taken within the block.
LEMMA BoundsStep == BoundsInv /\ [Next]_vars => BoundsInv'
<1> SUFFICES ASSUME BoundsInv, [Next]_vars PROVE BoundsInv'
  OBVIOUS
<1>1. CASE UNCHANGED in_buffer_processed_frames_
  BY <1>1 DEF BoundsInv, ReadInBounds
<1>2. ASSUME NEW i \in DOMAIN tasks, FetchStep(i)
      PROVE  UNCHANGED in_buffer_processed_frames_
  BY <1>2 DEF FetchStep, BeginFetch, ReadCompletes, ReadFails, Retry,
              FetchEnds, buffer
<1>3. CASE EndOfStream
  BY <1>3, CloseStep DEF EndOfStream
<1>4. CASE Underrun
  BY <1>1, <1>4 DEF Underrun, buffer
<1>5. CASE PlayFrame
  <2>1. in_buffer_processed_frames_ \in Nat
    BY DEF BoundsInv
  <2>2. (in_buffer_processed_frames_ + 1) * FrameSize <= BufferSize
    BY <1>5, <2>1, SizeAssumption DEF PlayFrame, NeedsSwap
  <2> QED
    BY <1>5, <2>1, <2>2, PlayStep DEF PlayFrame
<1>6. CASE SwapAndPlay
  <2>1. (0 + 1) * FrameSize <= BufferSize
    BY SizeAssumption
  <2> QED
    BY <1>6, <2>1, PlayStep DEF SwapAndPlay
<1>7. CASE Reenter
  BY <1>1, <1>7 DEF Reenter, buffer
<1>8. CASE UNCHANGED vars
  BY <1>1, <1>8 DEF vars, buffer
<1> QED
  BY <1>1, <1>2, <1>3, <1>4, <1>5, <1>6, <1>7, <1>8 DEF Next, Frame

\* AsyncBufferController::get_frame never copies from beyond its block.
THEOREM FramesInBounds == Spec => []ReadInBounds
<1>1. Init => BoundsInv
  BY SizeAssumption DEF Init, BoundsInv, ReadInBounds
<1>2. BoundsInv => ReadInBounds
  BY DEF BoundsInv
<1> QED
  BY <1>1, <1>2, BoundsStep, PTL DEF Spec

-----------------------------------------------------------------------------
(* Types.                                                                  *)

\* A read to come or in progress has a try left, a block lies in the file
\* unless it is a mixture, and the executor stops spawning at MaxTasks.
TypeInv ==
    /\ TypeOK
    /\ file_size = setting.size
    /\ heard \in [round : {0, 1}, n : Int, pos : Int, len : Nat]
    /\ Len(tasks) <= MaxTasks
    /\ processed_frames_ > 0 => Len(tasks) < MaxTasks
    /\ \A i \in DOMAIN tasks :
          tasks[i].pc \in {"start", "reading"} => tasks[i].attempt < max_retries
    /\ \A b \in {0, 1} :
          \/ blocks_[b].base = Torn
          \/ blocks_[b].base + blocks_[b].len <= file_size

\* A list of coroutines that keeps its length.
LEMMA SameLength ==
    ASSUME NEW s \in Seq(Tasks), NEW f \in [DOMAIN s -> Tasks]
    PROVE  f \in Seq(Tasks) /\ Len(f) = Len(s) /\ DOMAIN f = DOMAIN s
<1>1. Len(s) \in Nat /\ DOMAIN s = 1..Len(s)
  BY LenProperties
<1>2. f \in [1..Len(s) -> Tasks]
  BY <1>1
<1>3. f \in Seq(Tasks)
  BY <1>1, <1>2, SeqDef
<1>4. Len(f) \in Nat /\ DOMAIN f = 1..Len(f)
  BY <1>3, LenProperties
<1> QED
  BY <1>1, <1>2, <1>3, <1>4

\* One that ends.
LEMMA Removed ==
    ASSUME NEW s \in Seq(Tasks), NEW i \in DOMAIN s
    PROVE  /\ RemoveAt(s, i) \in Seq(Tasks)
           /\ Len(RemoveAt(s, i)) = Len(s) - 1
           /\ \A j \in DOMAIN RemoveAt(s, i) : \E k \in DOMAIN s :
                 RemoveAt(s, i)[j] = s[k]
<1> DEFINE front == SubSeq(s, 1, i - 1)
           back == SubSeq(s, i + 1, Len(s))
<1>1. /\ Len(s) \in Nat /\ DOMAIN s = 1..Len(s) /\ i \in 1..Len(s)
      /\ \A k \in 1..Len(s) : s[k] \in Tasks
  BY LenProperties, ElementOfSeq
<1>2. /\ front \in Seq(Tasks) /\ Len(front) = i - 1
      /\ \A j \in 1..(i - 1) : front[j] = s[j]
  BY <1>1, SubSeqProperties
<1>3. /\ back \in Seq(Tasks) /\ Len(back) = Len(s) - i
      /\ \A j \in 1..(Len(s) - i) : back[j] = s[i + j]
  BY <1>1, SubSeqProperties
<1>4. RemoveAt(s, i) = front \o back
  BY DEF RemoveAt
<1> DEFINE rest == front \o back
<1>5. /\ rest \in Seq(Tasks)
      /\ Len(rest) = Len(front) + Len(back)
      /\ \A j \in 1..(Len(front) + Len(back)) :
            rest[j] = IF j <= Len(front) THEN front[j]
                      ELSE back[j - Len(front)]
  BY <1>2, <1>3, ConcatProperties
<1> HIDE DEF front, back, rest
<1>6. /\ Len(rest) = Len(s) - 1
      /\ \A j \in 1..(Len(s) - 1) :
            rest[j] = IF j <= i - 1 THEN front[j] ELSE back[j - (i - 1)]
  BY <1>1, <1>2, <1>3, <1>5
<1>7. DOMAIN rest = 1..(Len(s) - 1)
  BY <1>5, <1>6, LenProperties
<1>8. ASSUME NEW j \in 1..(Len(s) - 1)
      PROVE  \E k \in DOMAIN s : rest[j] = s[k]
  <2>0. j \in Int /\ i \in Int /\ Len(s) \in Int
    BY <1>1
  <2>1. CASE j <= i - 1
    BY <1>1, <1>2, <1>6, <2>0, <2>1
  <2>2. CASE j > i - 1
    <3>1. /\ j - (i - 1) \in 1..(Len(s) - i) /\ j + 1 \in 1..Len(s)
          /\ i + (j - (i - 1)) = j + 1
      BY <1>1, <2>0, <2>2
    <3>2. rest[j] = back[j - (i - 1)]
      BY <1>6, <2>0, <2>2
    <3>3. back[j - (i - 1)] = s[j + 1]
      BY <1>3, <3>1
    <3> QED
      BY <1>1, <3>1, <3>2, <3>3
  <2> QED
    BY <2>0, <2>1, <2>2
<1> QED
  BY <1>4, <1>5, <1>6, <1>7, <1>8 DEF rest

\* The executor's numbers, and the settings'.
LEMMA Numbers ==
    ASSUME TypeInv
    PROVE  /\ FrameSize \in Nat \ {0} /\ BufferSize \in Nat
           /\ BufferSize >= FrameSize
           /\ file_size \in Nat /\ file_pos \in 0..file_size
           /\ MaxTasks \in Nat \ {0} /\ MaxFrames \in Nat
           /\ tasks \in Seq(Tasks) /\ Len(tasks) \in Nat
           /\ DOMAIN tasks = 1..Len(tasks)
           /\ \A i \in DOMAIN tasks : tasks[i] \in Tasks
<1>1. setting.size \in Nat
  BY SettingAssumption DEF TypeInv, TypeOK
<1>2. tasks \in Seq(Tasks)
  BY DEF TypeInv, TypeOK
<1> QED
  BY <1>1, <1>2, SizeAssumption, BoundAssumption, LenProperties, ElementOfSeq
     DEF TypeInv, TypeOK

\* What a coroutine's step may do to the coroutines and to the blocks.
KeepsTasks(s) ==
    /\ s \in [DOMAIN tasks -> Tasks]
    /\ \A j \in DOMAIN tasks :
          s[j].pc \in {"start", "reading"} => s[j].attempt < max_retries
KeepsBlocks(bs) ==
    /\ bs \in [{0, 1} -> [base : Torn..file_size, len : 0..BufferSize]]
    /\ \A b \in {0, 1} : bs[b].base = Torn \/ bs[b].base + bs[b].len <= file_size

\* A block silenced, or being read into.
LEMMA NewBlock ==
    ASSUME TypeInv, NEW d \in {0, 1}, NEW block \in {Silence, Mixture}
    PROVE  KeepsBlocks([blocks_ EXCEPT ![d] = block])
<1>1. /\ block \in [base : Torn..file_size, len : 0..BufferSize]
      /\ block.base = Torn \/ block.base + block.len <= file_size
  BY Numbers DEF Silence, Mixture, Torn
<1> QED
  BY <1>1 DEF KeepsBlocks, TypeInv, TypeOK

\* A coroutine that moved on.
LEMMA NewTask ==
    ASSUME TypeInv, NEW i \in DOMAIN tasks, NEW t \in Tasks,
           t.pc \in {"start", "reading"} => t.attempt < max_retries
    PROVE  KeepsTasks([tasks EXCEPT ![i] = t])
<1>1. tasks \in [DOMAIN tasks -> Tasks]
  BY Numbers
<1> QED
  BY <1>1 DEF KeepsTasks, TypeInv

\* async_read marks the block, and the reads it clashes with.
LEMMA StartReadKeeps ==
    ASSUME TypeInv, NEW i \in DOMAIN tasks, NEW t \in Tasks,
           t.attempt < max_retries, StartRead(i, t)
    PROVE  KeepsTasks(tasks') /\ KeepsBlocks(blocks_')
<1> DEFINE clash == \E j \in DOMAIN tasks \ {i} : tasks[j].pc = "reading"
           mark(j) == IF tasks[j].pc = "reading"
                      THEN [tasks[j] EXCEPT !.clash = TRUE] ELSE tasks[j]
           marked == [j \in DOMAIN tasks |-> mark(j)]
           new == [t EXCEPT !.pc = "reading", !.clash = clash]
<1>1. /\ tasks' = [marked EXCEPT ![i] = new]
      /\ blocks_' = [blocks_ EXCEPT ![t.dest] = Mixture]
  BY DEF StartRead
<1>2. new \in Tasks /\ new.attempt < max_retries
  <2>1. clash \in BOOLEAN
    OBVIOUS
  <2> HIDE DEF clash
  <2> QED
    BY <2>1 DEF Tasks
<1>3. ASSUME NEW j \in DOMAIN tasks
      PROVE  mark(j) \in Tasks /\ (mark(j).pc \in {"start", "reading"}
                                     => mark(j).attempt < max_retries)
  <2>1. tasks[j] \in Tasks /\ (tasks[j].pc \in {"start", "reading"}
                                 => tasks[j].attempt < max_retries)
    BY Numbers DEF TypeInv
  <2> QED
    BY <2>1 DEF Tasks
<1> HIDE DEF mark, new, clash
<1>4. KeepsTasks(tasks')
  BY <1>1, <1>2, <1>3 DEF KeepsTasks
<1>5. t.dest \in {0, 1}
  BY DEF Tasks
<1> QED
  BY <1>1, <1>4, <1>5, NewBlock

\* A step that changes only these keeps the types.
LEMMA FetchKeeps ==
    ASSUME TypeInv, KeepsTasks(tasks'), KeepsBlocks(blocks_'),
           file_open' \in BOOLEAN, file_pos' \in 0..file_size,
           total_frames_' \in {0, file_size \div FrameSize},
           faulted' \in BOOLEAN,
           UNCHANGED <<read_index_, back_buffer_ready_, file_size,
                       in_buffer_processed_frames_, processed_frames_,
                       current, round, heard, setting>>
    PROVE  TypeInv'
<1>1. /\ tasks' \in Seq(Tasks) /\ Len(tasks') = Len(tasks)
      /\ DOMAIN tasks' = DOMAIN tasks
  BY Numbers, SameLength DEF KeepsTasks
<1> QED
  BY <1>1 DEF TypeInv, TypeOK, KeepsTasks, KeepsBlocks

\* The steps of a fetching coroutine.
LEMMA FetchTypes ==
    ASSUME TypeInv, NEW i \in DOMAIN tasks, FetchStep(i), UNCHANGED setting
    PROVE  TypeInv'
<1>0. /\ tasks[i] \in Tasks /\ tasks[i].dest \in {0, 1}
      /\ tasks[i].attempt \in 0..max_retries
      /\ KeepsTasks(tasks) /\ KeepsBlocks(blocks_)
  <2>1. tasks[i] \in Tasks
    BY Numbers
  <2>2. KeepsTasks(tasks)
    BY Numbers DEF KeepsTasks, TypeInv
  <2>3. KeepsBlocks(blocks_)
    BY DEF KeepsBlocks, TypeInv, TypeOK
  <2> QED
    BY <2>1, <2>2, <2>3 DEF Tasks
<1>1. CASE BeginFetch(i)
  <2> DEFINE t == [tasks[i] EXCEPT !.dest = 1 - read_index_]
             failed == [t EXCEPT !.pc = "arrived"]
  <2>1. tasks[i].attempt < max_retries
    BY <1>1 DEF BeginFetch, TypeInv
  <2>2. 1 - read_index_ \in {0, 1}
    BY DEF TypeInv, TypeOK
  <2>3. t \in Tasks /\ t.attempt < max_retries
    BY <1>0, <2>1, <2>2 DEF Tasks
  <2>4. failed \in Tasks /\ failed.pc = "arrived"
    BY <2>3 DEF Tasks
  <2>5. \/ /\ StartRead(i, t)
           /\ \/ UNCHANGED <<file_open, file_pos, file_size,
                             total_frames_, faulted>>
              \/ /\ file_open' = TRUE /\ file_pos' = 0
                 /\ total_frames_' = file_size \div FrameSize
                 /\ UNCHANGED <<file_size, faulted>>
        \/ /\ tasks' = [tasks EXCEPT ![i] = failed]
           /\ faulted' = TRUE /\ total_frames_' = 0
           /\ UNCHANGED <<file_open, file_pos, file_size, blocks_>>
    BY <1>1 DEF BeginFetch, file
  <2> HIDE DEF t, failed
  <2>6. KeepsTasks(tasks') /\ KeepsBlocks(blocks_')
    <3>1. CASE StartRead(i, t)
      BY <2>3, <3>1, StartReadKeeps
    <3>2. CASE tasks' = [tasks EXCEPT ![i] = failed] /\ UNCHANGED blocks_
      BY <1>0, <2>4, <3>2, NewTask
    <3> QED
      BY <2>5, <3>1, <3>2
  <2>7. /\ file_pos' \in 0..file_size /\ file_size' = file_size
        /\ total_frames_' \in {0, file_size \div FrameSize}
    <3>1. file_size \in Nat /\ file_pos \in 0..file_size
      BY Numbers
    <3>2. 0 \in 0..file_size
      BY <3>1
    <3>3. total_frames_ \in {0, file_size \div FrameSize}
      BY DEF TypeInv, TypeOK
    <3> QED
      BY <2>5, <3>1, <3>2, <3>3
  <2>8. file_open' \in BOOLEAN /\ faulted' \in BOOLEAN
    BY <2>5 DEF TypeInv, TypeOK
  <2> QED
    BY <1>1, <2>6, <2>7, <2>8, FetchKeeps DEF BeginFetch
<1>2. CASE ReadCompletes(i)
  <2> DEFINE got == Smaller(BufferSize, file_size - file_pos)
             new == [[tasks[i] EXCEPT !.pc = "arrived"] EXCEPT !.got = got]
             block == [base |-> file_pos, len |-> got]
  <2>1. got \in 0..BufferSize /\ file_pos + got \in 0..file_size
    BY Numbers DEF Smaller
  <2>2. /\ tasks' = [tasks EXCEPT ![i] = new] /\ file_pos' = file_pos + got
        /\ blocks_' = [blocks_ EXCEPT ![tasks[i].dest] =
                         IF tasks[i].clash THEN Mixture ELSE block]
    BY <1>2 DEF ReadCompletes
  <2>3. new \in Tasks /\ new.pc = "arrived"
    BY <1>0, <2>1 DEF Tasks
  <2>4. KeepsTasks(tasks')
    BY <2>2, <2>3, NewTask
  <2>5. /\ block \in [base : Torn..file_size, len : 0..BufferSize]
        /\ block.base + block.len <= file_size
    BY <2>1, Numbers DEF Torn
  <2> HIDE DEF block, new, got
  <2>6. KeepsBlocks(blocks_')
    BY <1>0, <2>2, <2>5, NewBlock DEF KeepsBlocks
  <2> QED
    BY <1>2, <2>1, <2>2, <2>4, <2>6, FetchKeeps
       DEF ReadCompletes, node, TypeInv, TypeOK
<1>3. CASE ReadFails(i)
  <2> DEFINE new == [[tasks[i] EXCEPT !.pc = "retry"]
                       EXCEPT !.attempt = @ + 1]
  <2>1. tasks' = [tasks EXCEPT ![i] = new]
    BY <1>3 DEF ReadFails
  <2>2. tasks[i].attempt + 1 \in 0..max_retries
    BY <1>0, <1>3 DEF ReadFails, TypeInv, max_retries
  <2>3. new \in Tasks /\ new.pc = "retry"
    BY <1>0, <2>2 DEF Tasks
  <2>4. KeepsTasks(tasks')
    BY <2>1, <2>3, NewTask
  <2>5. file_pos' \in 0..file_size
    BY <1>3, Numbers DEF ReadFails, Smaller
  <2> QED
    BY <1>0, <1>3, <2>4, <2>5, FetchKeeps
       DEF ReadFails, buffer, node, TypeInv, TypeOK
<1>4. CASE Retry(i)
  <2>1. ASSUME StartRead(i, tasks[i]), tasks[i].attempt < max_retries
        PROVE  KeepsTasks(tasks') /\ KeepsBlocks(blocks_')
    BY <1>0, <2>1, StartReadKeeps
  <2>2. ASSUME tasks[i].attempt < max_retries, tasks[i].pc = "retry",
               tasks' = [tasks EXCEPT ![i].attempt = @ + 1]
        PROVE  KeepsTasks(tasks')
    <3> DEFINE new == [tasks[i] EXCEPT !.attempt = @ + 1]
    <3>1. tasks[i].attempt + 1 \in 0..max_retries
      BY <1>0, <2>2 DEF max_retries
    <3>2. new \in Tasks /\ new.pc = "retry"
      BY <1>0, <2>2, <3>1 DEF Tasks
    <3> QED
      BY <2>2, <3>2, NewTask
  <2>3. ASSUME tasks' = [tasks EXCEPT ![i].pc = "arrived"]
        PROVE  KeepsTasks(tasks')
    <3> DEFINE new == [tasks[i] EXCEPT !.pc = "arrived"]
    <3>1. new \in Tasks /\ new.pc = "arrived"
      BY <1>0 DEF Tasks
    <3> QED
      BY <2>3, <3>1, NewTask
  <2>4. KeepsTasks(tasks') /\ KeepsBlocks(blocks_')
    <3>1. CASE StartRead(i, tasks[i]) /\ tasks[i].attempt < max_retries
      BY <2>1, <3>1
    <3>2. CASE UNCHANGED blocks_
      BY <1>0, <1>4, <2>1, <2>2, <2>3, <3>2 DEF Retry
    <3> QED
      BY <1>4, <3>1, <3>2 DEF Retry
  <2> QED
    BY <1>4, <2>4, FetchKeeps DEF Retry, file, node, TypeInv, TypeOK
<1>5. CASE FetchEnds(i)
  <2>1. KeepsBlocks(blocks_')
    BY <1>0, <1>5, NewBlock DEF FetchEnds, Filled
  <2>2. Task("init2") \in Tasks
    BY Numbers DEF Task, Tasks, max_retries
  <2>3. /\ tasks' \in Seq(Tasks) /\ Len(tasks') <= Len(tasks)
        /\ \A j \in DOMAIN tasks' : tasks'[j].pc \in {"start", "reading"}
              => tasks'[j].attempt < max_retries
    <3>1. CASE tasks' = [tasks EXCEPT ![i] = Task("init2")]
      <4>1. Task("init2").attempt < max_retries
        BY DEF Task, max_retries
      <4>2. KeepsTasks(tasks')
        BY <2>2, <3>1, <4>1, NewTask
      <4> QED
        BY <4>2, SameLength, Numbers DEF KeepsTasks
    <3>2. CASE tasks' = RemoveAt(tasks, i)
      <4>1. /\ tasks' \in Seq(Tasks) /\ Len(tasks') = Len(tasks) - 1
            /\ \A j \in DOMAIN tasks' : \E k \in DOMAIN tasks :
                  tasks'[j] = tasks[k]
        BY <3>2, Numbers, Removed, ZenonT(60)
      <4> QED
        BY <4>1, Numbers, SMTT(60) DEF TypeInv
    <3> QED
      BY <1>5, <3>1, <3>2 DEF FetchEnds
  <2>4. Len(tasks') \in Nat
    BY <2>3, LenProperties
  <2>5. /\ read_index_' \in {0, 1} /\ back_buffer_ready_' \in BOOLEAN
        /\ current' \in {"preparing", "playing", "away", "finished"}
    BY <1>5 DEF FetchEnds, TypeInv, TypeOK
  <2>6. UNCHANGED <<in_buffer_processed_frames_, file_open, file_pos,
                    file_size, processed_frames_, total_frames_, round,
                    heard, faulted, setting>>
    BY <1>5 DEF FetchEnds, file
  <2>7. TypeOK'
    <3>1. TypeOK /\ Len(tasks) <= MaxTasks /\ Len(tasks) \in Nat
      BY Numbers DEF TypeInv
    <3>2. MaxTasks \in Nat
      BY Numbers
    <3>3. Len(tasks') <= MaxTasks + 1
      BY <2>3, <2>4, <3>1, <3>2
    <3> QED
      BY <2>1, <2>3, <2>5, <2>6, <3>1, <3>3 DEF TypeOK, KeepsBlocks
  <2> QED
    BY <2>1, <2>3, <2>4, <2>6, <2>7, Numbers, SMTT(60) DEF TypeInv, KeepsBlocks
<1> QED
  BY <1>1, <1>2, <1>3, <1>4, <1>5 DEF FetchStep

\* close() aborts the read in flight and leaves two silent blocks.
LEMMA CloseTypes ==
    ASSUME TypeInv, NEW pending \in Seq(Tasks), Len(pending) < MaxTasks,
           \A i \in DOMAIN pending : pending[i].pc \in {"start", "reading"}
              => pending[i].attempt < max_retries,
           Close(pending), UNCHANGED setting,
           heard' \in [round : {0, 1}, n : Int, pos : Torn..file_size,
                       len : Nat]
    PROVE  TypeInv'
<1> DEFINE abort(i) == IF pending[i].pc = "reading"
                       THEN [pending[i] EXCEPT !.pc = "retry",
                                               !.attempt = @ + 1]
                       ELSE pending[i]
           aborted == [i \in DOMAIN pending |-> abort(i)]
           new == Task("init1")
<1>0. Len(pending) \in Nat /\ DOMAIN pending = 1..Len(pending)
  BY LenProperties
<1>1. ASSUME NEW i \in DOMAIN pending
      PROVE  abort(i) \in Tasks /\ (abort(i).pc \in {"start", "reading"}
                                       => abort(i).attempt < max_retries)
  <2>1. pending[i] \in Tasks
    BY <1>0, ElementOfSeq
  <2>2. CASE pending[i].pc = "reading"
    <3>1. pending[i].attempt + 1 \in 0..max_retries
      BY <2>1, <2>2, SMTT(60) DEF Tasks, max_retries
    <3> QED
      BY <2>1, <2>2, <3>1 DEF Tasks
  <2> QED
    BY <2>1, <2>2
<1>2. new \in Tasks /\ new.attempt < max_retries
  BY Numbers DEF Task, Tasks, max_retries
<1>3. tasks' = IF setting.in_loop THEN Append(aborted, new) ELSE aborted
  BY DEF Close
<1> HIDE DEF abort, new
<1>4. /\ aborted \in Seq(Tasks) /\ Len(aborted) = Len(pending)
      /\ DOMAIN aborted = DOMAIN pending
  BY <1>1, SameLength
<1>5. \A i \in DOMAIN aborted : aborted[i] = abort(i)
  BY <1>4
<1> HIDE DEF aborted
<1>6. /\ tasks' \in Seq(Tasks) /\ Len(tasks') \in Nat
      /\ Len(tasks') <= MaxTasks
      /\ \A i \in DOMAIN tasks' : tasks'[i].pc \in {"start", "reading"}
            => tasks'[i].attempt < max_retries
  <2>1. CASE ~setting.in_loop
    BY <1>0, <1>1, <1>3, <1>4, <1>5, <2>1, Numbers
  <2>2. CASE setting.in_loop
    <3>1. /\ tasks' \in Seq(Tasks) /\ Len(tasks') = Len(pending) + 1
          /\ \A i \in 1..Len(pending) : tasks'[i] = aborted[i]
          /\ tasks'[Len(pending) + 1] = new
      BY <1>2, <1>3, <1>4, <2>2, AppendProperties
    <3>2. DOMAIN tasks' = 1..(Len(pending) + 1)
      BY <3>1, LenProperties
    <3>3. ASSUME NEW i \in DOMAIN tasks'
          PROVE  tasks'[i].pc \in {"start", "reading"}
                   => tasks'[i].attempt < max_retries
      <4>1. CASE i = Len(pending) + 1
        BY <1>2, <3>1, <4>1
      <4>2. CASE i \in 1..Len(pending)
        BY <1>0, <1>1, <1>4, <1>5, <3>1, <4>2
      <4> QED
        BY <1>0, <3>2, <4>1, <4>2
    <3> QED
      BY <1>0, <3>1, <3>3, Numbers
  <2> QED
    BY <2>1, <2>2
<1>7. KeepsBlocks(blocks_')
  <2>1. /\ Silence \in [base : Torn..file_size, len : 0..BufferSize]
        /\ Silence.base + Silence.len <= file_size
    BY Numbers DEF Silence, Torn
  <2> QED
    BY <2>1 DEF Close, KeepsBlocks
<1>8. /\ read_index_' = 0 /\ back_buffer_ready_' = FALSE
      /\ in_buffer_processed_frames_' = 0 /\ processed_frames_' = 0
      /\ file_open' = FALSE /\ round' = 1 - round
      /\ current' \in {"away", "finished"}
      /\ UNCHANGED <<file_pos, file_size, total_frames_, faulted>>
  BY DEF Close
<1>9. TypeOK'
  <2>1. TypeOK /\ 0 \in 0..MaxFrames /\ heard'.pos \in Torn..file_size
    BY Numbers DEF TypeInv
  <2>2. Len(tasks') <= MaxTasks + 1
    BY <1>6, Numbers
  <2>3. round' \in {0, 1}
    BY <1>8, <2>1 DEF TypeOK
  <2> QED
    BY <1>6, <1>7, <1>8, <2>1, <2>2, <2>3 DEF TypeOK, KeepsBlocks
<1>10. heard' \in [round : {0, 1}, n : Int, pos : Int, len : Nat]
  BY Numbers DEF Torn
<1> QED
  BY <1>6, <1>7, <1>8, <1>9, <1>10, Numbers DEF TypeInv, KeepsBlocks

\* A frame is taken from within the file, or is silent, or torn.
LEMMA FrameTypes ==
    ASSUME TypeInv, NEW b \in {0, 1}, NEW offset \in Nat
    PROVE  /\ FrameAt(blocks_[b], offset).pos \in Torn..file_size
           /\ FrameAt(blocks_[b], offset).len \in Nat
<1> DEFINE block == blocks_[b]
<1>1. /\ block.base \in Torn..file_size /\ block.len \in 0..BufferSize
      /\ block.base = Torn \/ block.base + block.len <= file_size
  BY DEF TypeInv, TypeOK
<1> HIDE DEF block
<1>2. FrameSize \in Nat /\ BufferSize \in Nat /\ file_size \in Nat
  BY Numbers
<1>3. /\ FrameAt(block, offset).pos \in Torn..file_size
      /\ FrameAt(block, offset).len \in Nat
  <2>1. CASE offset >= block.len
    BY <1>2, <2>1 DEF FrameAt, Torn
  <2>2. CASE ~(offset >= block.len)
    <3>1. FrameAt(block, offset) =
            [pos |-> IF block.base = Torn THEN Torn ELSE block.base + offset,
             len |-> Smaller(FrameSize, block.len - offset)]
      BY <2>2 DEF FrameAt
    <3>2. Smaller(FrameSize, block.len - offset) \in Nat
      BY <1>1, <1>2, <2>2 DEF Smaller
    <3> QED
      BY <1>1, <1>2, <2>2, <3>1, <3>2 DEF Torn
  <2> QED
    BY <2>1, <2>2
<1> QED
  BY <1>3 DEF block

\* process_frame, with or without the end of the file.
LEMMA PlayTypes ==
    ASSUME TypeInv, NEW b \in {0, 1}, NEW frames \in Nat,
           NEW pending \in Seq(Tasks),
           \A i \in DOMAIN pending : pending[i].pc \in {"start", "reading"}
              => pending[i].attempt < max_retries,
           PlayFrom(b, frames, pending), UNCHANGED setting
    PROVE  TypeInv'
<1>0. /\ Len(pending) \in Nat /\ Len(pending) < MaxTasks
      /\ processed_frames_ \in 0..MaxFrames /\ processed_frames_ < MaxFrames
      /\ round \in {0, 1}
  BY LenProperties DEF PlayFrom, TypeInv, TypeOK
<1>1. heard' \in [round : {0, 1}, n : Int, pos : Torn..file_size, len : Nat]
  <2>1. frames * FrameSize \in Nat
    BY Numbers
  <2> DEFINE frame == FrameAt(blocks_[b], frames * FrameSize)
  <2>2. frame.pos \in Torn..file_size /\ frame.len \in Nat
    BY <2>1, FrameTypes
  <2>3. heard' = [round |-> round, n |-> processed_frames_,
                  pos |-> frame.pos, len |-> frame.len]
    BY DEF PlayFrom, Hear
  <2> HIDE DEF frame
  <2> QED
    BY <1>0, <2>2, <2>3
<1>2. CASE Close(pending)
  BY <1>0, <1>1, <1>2, CloseTypes
<1>3. CASE /\ processed_frames_' = processed_frames_ + 1
           /\ read_index_' = b
           /\ in_buffer_processed_frames_' = frames + 1
           /\ tasks' = pending
           /\ UNCHANGED <<back_buffer_ready_, blocks_, file, total_frames_,
                          current, round, faulted>>
  <2>1. UNCHANGED <<file_open, file_pos, file_size>>
    BY <1>3 DEF file
  <2>2. /\ processed_frames_' \in 0..MaxFrames /\ frames + 1 \in Nat
        /\ Len(pending) <= MaxTasks + 1 /\ Len(pending) <= MaxTasks
    BY <1>0, <1>3, Numbers
  <2>3. heard'.pos \in Torn..file_size
    BY <1>1
  <2>4. TypeOK'
    <3>1. TypeOK
      BY DEF TypeInv
    <3> QED
      BY <1>3, <2>1, <2>2, <2>3, <3>1 DEF TypeOK
  <2>5. heard' \in [round : {0, 1}, n : Int, pos : Int, len : Nat]
    BY <1>1, Numbers DEF Torn
  <2> QED
    BY <1>0, <1>3, <2>1, <2>2, <2>4, <2>5 DEF TypeInv
<1> QED
  BY <1>2, <1>3 DEF PlayFrom

\* Every step keeps the types.
LEMMA TypeStep == TypeInv /\ [Next]_vars => TypeInv'
<1> SUFFICES ASSUME TypeInv, [Next]_vars PROVE TypeInv'
  OBVIOUS
<1>1. ASSUME NEW i \in DOMAIN tasks, FetchStep(i), UNCHANGED setting
      PROVE  TypeInv'
  BY <1>1, FetchTypes
<1>2. CASE EndOfStream /\ UNCHANGED setting
  <2>1. Len(tasks) < MaxTasks
    BY <1>2, Numbers DEF EndOfStream, TypeInv, TypeOK
  <2>2. heard' \in [round : {0, 1}, n : Int, pos : Torn..file_size, len : Nat]
    BY <1>2, Numbers, SMTT(60) DEF EndOfStream, Hear, TypeInv, TypeOK, Torn
  <2> QED
    BY <1>2, <2>1, <2>2, CloseTypes, Numbers DEF EndOfStream, TypeInv
<1>3. CASE Underrun /\ UNCHANGED setting
  <2>1. UNCHANGED <<read_index_, back_buffer_ready_, blocks_,
                    in_buffer_processed_frames_, file_open, file_pos,
                    file_size, processed_frames_, total_frames_, current,
                    round, tasks, faulted, setting>>
    BY <1>3 DEF Underrun, buffer, file, node
  <2>2. /\ heard' \in [round : {0, 1}, n : Int, pos : Int, len : Nat]
        /\ heard'.pos \in Torn..file_size
    BY <1>3, Numbers, SMTT(60) DEF Underrun, Hear, TypeInv, TypeOK, Torn
  <2> QED
    BY <2>1, <2>2 DEF TypeInv, TypeOK
<1>4. CASE PlayFrame /\ UNCHANGED setting
  BY <1>4, PlayTypes, Numbers DEF PlayFrame, TypeInv, TypeOK
<1>5. CASE SwapAndPlay /\ UNCHANGED setting
  <2> DEFINE new == Task("refill")
             pending == Append(tasks, new)
  <2>1. new \in Tasks /\ new.attempt < max_retries
    BY Numbers DEF Task, Tasks, max_retries
  <2>2. PlayFrom(1 - read_index_, 0, pending) /\ 1 - read_index_ \in {0, 1}
    BY <1>5 DEF SwapAndPlay, TypeInv, TypeOK
  <2> HIDE DEF new
  <2>3. /\ pending \in Seq(Tasks) /\ Len(pending) = Len(tasks) + 1
        /\ \A i \in 1..Len(tasks) : pending[i] = tasks[i]
        /\ pending[Len(tasks) + 1] = new
    BY <2>1, Numbers, AppendProperties
  <2> HIDE DEF pending
  <2>4. DOMAIN pending = 1..(Len(tasks) + 1)
    BY <2>3, LenProperties
  <2>5. ASSUME NEW i \in DOMAIN pending
        PROVE  pending[i].pc \in {"start", "reading"}
                 => pending[i].attempt < max_retries
    <3>1. CASE i = Len(tasks) + 1
      BY <2>1, <2>3, <3>1
    <3>2. CASE i \in 1..Len(tasks)
      BY <2>3, <3>2, Numbers DEF TypeInv
    <3>3. i \in 1..(Len(tasks) + 1) /\ Len(tasks) \in Nat
      BY <2>4, Numbers
    <3> QED
      BY <3>1, <3>2, <3>3
  <2> QED
    BY <1>5, <2>2, <2>3, <2>5, PlayTypes
<1>6. CASE Reenter /\ UNCHANGED setting
  BY <1>6 DEF Reenter, buffer, file, TypeInv, TypeOK
<1>7. CASE UNCHANGED vars
  BY <1>7 DEF vars, buffer, file, node, TypeInv, TypeOK
<1> QED
  BY <1>1, <1>2, <1>3, <1>4, <1>5, <1>6, <1>7 DEF Next, Frame

\* They hold before prepare().
LEMMA TypeStart == Init => TypeInv
<1> SUFFICES ASSUME Init PROVE TypeInv
  OBVIOUS
<1>1. setting.size \in Nat
  BY SettingAssumption DEF Init
<1>2. Task("init1") \in Tasks /\ Task("init1").attempt < max_retries
  BY SizeAssumption DEF Task, Tasks, max_retries
<1>3. Silence \in [base : Torn..file_size, len : 0..BufferSize]
      /\ Silence.base + Silence.len <= file_size
  BY <1>1, SizeAssumption DEF Init, Silence, Torn
<1>4. /\ tasks \in Seq(Tasks) /\ Len(tasks) = 1
      /\ \A i \in DOMAIN tasks : tasks[i] = Task("init1")
  BY <1>2 DEF Init
<1>5. TypeOK
  <2>1. /\ file_pos \in 0..file_size /\ processed_frames_ \in 0..MaxFrames
        /\ in_buffer_processed_frames_ \in Nat /\ Len(tasks) <= MaxTasks + 1
        /\ heard.pos \in Torn..file_size
    BY <1>1, <1>4, BoundAssumption DEF Init, Torn
  <2>2. blocks_ \in [{0, 1} -> [base : Torn..file_size, len : 0..BufferSize]]
    BY <1>3 DEF Init
  <2>3. /\ back_buffer_ready_ \in BOOLEAN /\ file_open \in BOOLEAN
        /\ faulted \in BOOLEAN
    BY DEF Init
  <2> QED
    BY <1>4, <2>1, <2>2, <2>3 DEF Init, TypeOK
<1> QED
  BY <1>2, <1>3, <1>4, <1>5, BoundAssumption DEF Init, TypeInv

\* Every variable keeps its type: in particular a position in a block or a
\* file is never beyond it, and no read is tried more than max_retries times.
THEOREM TypeCorrect == Spec => []TypeOK
<1>1. TypeInv => TypeOK
  BY DEF TypeInv
<1> QED
  BY <1>1, TypeStart, TypeStep, PTL DEF Spec

-----------------------------------------------------------------------------
(* A file of less than a frame.                                            *)

Endless == setting.size < FrameSize /\ current \in {"preparing", "playing"}

\* open() counts 0 frames of a file shorter than one, and process_frame ends a
\* node only when it has counted some: such a file plays silence for ever, and
\* the walk of the executor never gets past it.
THEOREM ShortFileNeverEnds ==
    Spec /\ setting.size < FrameSize
       => [](current \in {"preparing", "playing"} /\ total_frames_ = 0)
<1>1. TypeInv /\ Endless => total_frames_ = 0
  <2> SUFFICES ASSUME TypeInv, Endless PROVE total_frames_ = 0
    OBVIOUS
  <2>1. /\ file_size \in Nat /\ FrameSize \in Nat \ {0}
        /\ file_size < FrameSize
    BY Numbers DEF TypeInv, Endless
  <2>2. file_size \div FrameSize = 0
    BY <2>1
  <2> QED
    BY <2>2 DEF TypeInv, TypeOK
<1>2. TypeInv /\ Endless /\ [Next]_vars => Endless'
  <2> SUFFICES ASSUME TypeInv, Endless, [Next]_vars PROVE Endless'
    OBVIOUS
  <2>1. total_frames_ = 0 /\ UNCHANGED setting
    BY <1>1 DEF Next, vars
  <2>2. ASSUME NEW i \in DOMAIN tasks, FetchStep(i) PROVE Endless'
    <3>1. current' \in {current, "playing"}
      BY <2>2 DEF FetchStep, BeginFetch, ReadCompletes, ReadFails, Retry,
         FetchEnds, node
    <3> QED
      BY <2>1, <3>1 DEF Endless
  <2>3. ~EndOfStream /\ ~Reenter
    BY <2>1 DEF EndOfStream, Reenter, Endless
  <2>4. ASSUME NEW b, NEW frames, NEW pending, PlayFrom(b, frames, pending)
        PROVE  UNCHANGED current
    BY <2>1, <2>4 DEF PlayFrom
  <2>5. CASE Underrun \/ PlayFrame \/ SwapAndPlay \/ UNCHANGED vars
    <3>1. UNCHANGED current
      BY <2>4, <2>5 DEF Underrun, PlayFrame, SwapAndPlay, node, vars
    <3> QED
      BY <2>1, <3>1 DEF Endless
  <2> QED
    BY <2>2, <2>3, <2>5 DEF Next, Frame
<1>3. Init /\ setting.size < FrameSize => Endless
  BY DEF Init, Endless
<1>4. Endless => current \in {"preparing", "playing"}
  BY DEF Endless
<1> QED
  BY <1>1, <1>2, <1>3, <1>4, TypeStart, TypeStep, PTL DEF Spec

-----------------------------------------------------------------------------
(* A read that is late.                                                    *)

ReadyInv ==
    /\ FilledOnReturn
    /\ current = "playing" => back_buffer_ready_
    /\ current = "away" => /\ setting.in_loop
                           /\ back_buffer_ready_ \/ tasks # <<>>

\* Nothing clears back_buffer_ready_ at a swap, so get_frame's test for an
\* underrun never fires: outside loops however late a read is, and in a loop
\* when the refill of close() is done before the walk comes back.  What a
\* late read has not brought yet is played as it stands.
THEOREM NeverUnderruns == Spec => NoUnderrun
<1>1. TypeInv /\ ReadyInv /\ [Next]_vars => ReadyInv'
  <2> SUFFICES ASSUME TypeInv, ReadyInv, [Next]_vars PROVE ReadyInv'
    OBVIOUS
  <2>1. UNCHANGED setting /\ FilledOnReturn'
    BY DEF Next, vars, ReadyInv, FilledOnReturn
  <2>2. ASSUME NEW i \in DOMAIN tasks, FetchStep(i) PROVE ReadyInv'
    <3>1. CASE FetchEnds(i)
      <4>1. /\ back_buffer_ready_'
            /\ current' = current \/ current' = "playing"
        BY <3>1 DEF FetchEnds
      <4> QED
        BY <2>1, <4>1 DEF ReadyInv
    <3>2. CASE ~FetchEnds(i)
      <4>1. UNCHANGED <<current, back_buffer_ready_>>
        BY <2>2, <3>2 DEF FetchStep, BeginFetch, ReadCompletes, ReadFails,
           Retry, node, buffer
      <4>2. DOMAIN tasks' = DOMAIN tasks
        BY <2>2, <3>2 DEF FetchStep, BeginFetch, ReadCompletes, ReadFails,
           Retry, StartRead
      <4>3. tasks' # <<>>
        BY <4>2
      <4> QED
        BY <2>1, <4>1, <4>3 DEF ReadyInv
    <3> QED
      BY <3>1, <3>2
  <2>3. ASSUME NEW pending \in Seq(Tasks), Close(pending) PROVE ReadyInv'
    <3>1. CASE setting.in_loop
      <4> DEFINE aborted == [i \in DOMAIN pending |->
                   IF pending[i].pc = "reading"
                   THEN [pending[i] EXCEPT !.pc = "retry", !.attempt = @ + 1]
                   ELSE pending[i]]
      <4>1. tasks' = Append(aborted, Task("init1")) /\ current' = "away"
        BY <2>3, <3>1 DEF Close
      <4>2. DOMAIN aborted = 1..Len(pending) /\ Len(pending) \in Nat
        BY <2>3, LenProperties
      <4> HIDE DEF aborted
      <4>3. tasks' # <<>>
        BY <4>1, <4>2
      <4> QED
        BY <2>1, <3>1, <4>1, <4>3 DEF ReadyInv
    <3>2. CASE ~setting.in_loop
      <4>1. current' = "finished"
        BY <2>3, <3>2 DEF Close
      <4> QED
        BY <2>1, <4>1 DEF ReadyInv
    <3> QED
      BY <3>1, <3>2
  <2>4. tasks \in Seq(Tasks)
    BY DEF TypeInv, TypeOK
  <2>5. CASE EndOfStream
    BY <2>3, <2>4, <2>5 DEF EndOfStream
  <2>6. ASSUME NEW b, NEW frames, NEW pending \in Seq(Tasks),
               current = "playing", PlayFrom(b, frames, pending)
        PROVE  ReadyInv'
    <3>1. CASE Close(pending)
      BY <2>3, <3>1
    <3>2. CASE UNCHANGED <<back_buffer_ready_, current>>
      BY <2>1, <2>6, <3>2 DEF ReadyInv
    <3> QED
      BY <2>6, <3>1, <3>2 DEF PlayFrom
  <2>7. CASE PlayFrame
    BY <2>4, <2>6, <2>7 DEF PlayFrame
  <2>8. CASE SwapAndPlay
    <3>1. Task("refill") \in Tasks
      BY Numbers DEF Task, Tasks, max_retries
    <3>2. Append(tasks, Task("refill")) \in Seq(Tasks)
      BY <2>4, <3>1, AppendProperties
    <3> QED
      BY <2>6, <2>8, <3>2 DEF SwapAndPlay
  <2>9. CASE Underrun \/ UNCHANGED vars
    BY <2>1, <2>9 DEF Underrun, buffer, node, vars, ReadyInv
  <2>10. CASE Reenter
    <3>1. setting.pace # "any" /\ tasks = <<>>
      BY <2>10 DEF Reenter, ReadyInv, FilledOnReturn
    <3>2. back_buffer_ready_' /\ current' = "playing"
      BY <2>10, <3>1 DEF Reenter, ReadyInv, buffer
    <3> QED
      BY <2>1, <3>2 DEF ReadyInv
  <2> QED
    BY <2>2, <2>5, <2>7, <2>8, <2>9, <2>10 DEF Next, Frame
<1>2. Init /\ FilledOnReturn => ReadyInv
  BY DEF Init, ReadyInv
<1>3. ReadyInv => ~Underrun
  BY DEF ReadyInv, Underrun
<1>4. Spec /\ FilledOnReturn => [][FilledOnReturn => ~Underrun]_vars
  BY <1>1, <1>2, <1>3, TypeStart, TypeStep, PTL DEF Spec
<1>5. ~FilledOnReturn /\ [Next]_vars => ~FilledOnReturn'
  BY DEF Next, vars, FilledOnReturn
<1>6. Spec /\ ~FilledOnReturn => [][FilledOnReturn => ~Underrun]_vars
  BY <1>5, PTL DEF Spec
<1> QED
  BY <1>4, <1>6 DEF NoUnderrun

-----------------------------------------------------------------------------
(* Frames and blocks, as numbers.                                          *)

\* Multiples and quotients.
LEMMA Multiples ==
    ASSUME NEW m \in Nat, NEW k \in Int
    PROVE  /\ k * m \in Int /\ 0 * m = 0
           /\ (k + 1) * m = k * m + m
           /\ (k + 2) * m = k * m + m + m
           /\ k >= 0 => k * m >= 0
  OBVIOUS

\* A number in blocks and the rest.
LEMMA Quotient ==
    ASSUME NEW m \in Nat \ {0}, NEW k \in Nat, NEW j \in 0..(m - 1)
    PROVE  (k * m + j) \div m = k /\ (k * m + j) % m = j
  OBVIOUS

\* The whole frames of a block.
LEMMA Whole ==
    ASSUME NEW m \in Nat \ {0}, NEW n \in Nat, n >= m
    PROVE  /\ n \div m \in Nat \ {0}
           /\ (n \div m) * m <= n /\ n < (n \div m) * m + m
  OBVIOUS

\* Multiples are ordered as what they are multiples of.
LEMMA Ordered ==
    ASSUME NEW m \in Nat \ {0}, NEW a \in Int, NEW b \in Int
    PROVE  a <= b <=> a * m <= b * m
  OBVIOUS

\* A swap is due after the last whole frame of the block, and not before.
LEMMA PerBlockFacts ==
    /\ PerBlock \in Nat \ {0}
    /\ \A j \in Nat : (j + 1) * FrameSize <= BufferSize => j < PerBlock
    /\ \A j \in Nat : /\ j * FrameSize <= BufferSize
                      /\ (j + 1) * FrameSize > BufferSize
                      => j = PerBlock
<1>0. /\ FrameSize \in Nat \ {0} /\ BufferSize \in Nat
      /\ BufferSize >= FrameSize
  BY SizeAssumption
<1>1. /\ PerBlock \in Nat \ {0} /\ PerBlock * FrameSize <= BufferSize
      /\ BufferSize < PerBlock * FrameSize + FrameSize
  BY <1>0, Whole DEF PerBlock
<1>2. (PerBlock + 1) * FrameSize = PerBlock * FrameSize + FrameSize
  BY <1>0, <1>1, Multiples
<1>3. ASSUME NEW j \in Nat
      PROVE  /\ (j + 1) * FrameSize \in Int /\ j * FrameSize \in Int
             /\ (PerBlock + 1) * FrameSize \in Int
             /\ PerBlock + 1 <= j + 1
                  => (PerBlock + 1) * FrameSize <= (j + 1) * FrameSize
             /\ j + 1 <= PerBlock
                  => (j + 1) * FrameSize <= PerBlock * FrameSize
             /\ PerBlock + 1 <= j
                  => (PerBlock + 1) * FrameSize <= j * FrameSize
  <2>1. j \in Int /\ j + 1 \in Int /\ PerBlock \in Int /\ PerBlock + 1 \in Int
    BY <1>1
  <2>2. FrameSize \in Nat \ {0} /\ FrameSize \in Nat
    BY <1>0
  <2> QED
    BY <2>1, <2>2, Multiples, Ordered
<1>4. PerBlock * FrameSize \in Int
  BY <1>0, <1>1, Multiples
<1> QED
  BY <1>0, <1>1, <1>2, <1>3, <1>4

-----------------------------------------------------------------------------
(* A disk that reads a block before the other one is played out.           *)

\* If InTime there is one coroutine at a time, it writes the block that is not
\* being played, and a mixture is found only where it has something to do.
TaskInv ==
    /\ InTime
    /\ current \in {"preparing", "playing", "away", "finished"}
    /\ setting.in_loop => current # "finished" /\ ~faulted
    /\ ~setting.in_loop => current # "away"
    /\ Len(tasks) <= 1
    /\ current = "preparing" => Len(tasks) = 1
    /\ \A i \in DOMAIN tasks :
          /\ ~tasks[i].clash
          /\ tasks[i].kind = "refill" <=> current \notin {"preparing", "away"}
          /\ tasks[i].pc # "arrived" => tasks[i].got = 0
          /\ current # "finished" /\ tasks[i].pc # "start"
                => tasks[i].dest = 1 - read_index_
    /\ \A b \in {0, 1} : blocks_[b].base = Torn =>
          \E i \in DOMAIN tasks : /\ tasks[i].pc # "start"
                                  /\ tasks[i].dest = b
                                  /\ tasks[i].got = 0

\* The k-th stretch of the file that fills a block, and where it starts.
StretchLen(k) == IF file_size <= k * BufferSize THEN 0
                 ELSE Smaller(BufferSize, file_size - k * BufferSize)
Holds(block, k) == /\ block.len = StretchLen(k)
                   /\ block.len > 0 => block.base = k * BufferSize
Reached(k) == Smaller(k * BufferSize, file_size)

\* The block being played is the k-th of the file (none yet when k is -1),
\* and the one after it is there or on its way.
BlocksInv(k) ==
    LET back == 1 - read_index_ IN
    /\ k >= 0 => file_open /\ Holds(blocks_[read_index_], k)
    /\ tasks = <<>> => /\ Holds(blocks_[back], k + 1)
                       /\ file_pos = Reached(k + 2)
    /\ \A i \in DOMAIN tasks :
          /\ tasks[i].pc \in {"start", "reading", "arrived"}
          /\ tasks[i].pc = "start" => ~file_open \/ file_pos = Reached(k + 1)
          /\ tasks[i].pc = "reading" => /\ file_open
                                        /\ file_pos = Reached(k + 1)
          /\ tasks[i].pc = "arrived" => /\ file_open
                                        /\ file_pos = Reached(k + 2)
                                        /\ Holds(blocks_[back], k + 1)
                                        /\ tasks[i].got = StretchLen(k + 1)
          /\ tasks[i].kind = "init1" <=> k = -1
          /\ tasks[i].kind = "init2" => k = 0

OrderInv ==
    ~faulted =>
        /\ PlaysInOrder
        /\ current = "preparing" =>
              /\ processed_frames_ = 0 /\ in_buffer_processed_frames_ = 0
              /\ heard.n = -1
              /\ \E k \in {-1, 0} : BlocksInv(k)
        /\ current = "away" =>
              /\ processed_frames_ = 0 /\ in_buffer_processed_frames_ = 0
              /\ \E k \in {-1, 0} :
                    /\ BlocksInv(k)
                    /\ tasks = <<>> => k = 0 /\ back_buffer_ready_
        /\ current = "playing" =>
              /\ back_buffer_ready_
              /\ \E k \in Nat :
                    /\ BlocksInv(k)
                    /\ processed_frames_ = k * PerBlock
                                             + in_buffer_processed_frames_
        /\ current # "finished" /\ file_open =>
              /\ total_frames_ = file_size \div FrameSize
              /\ total_frames_ > 0 => processed_frames_ < total_frames_

\* The block after the one being played is there, and holds something.
Ahead ==
    /\ \A i \in DOMAIN tasks : tasks[i].pc = "arrived"
    /\ blocks_[1 - read_index_].base # Torn
    /\ blocks_[1 - read_index_].len > 0

\* What was heard lies before what is still to be played, and that before the
\* position of the file, whichever reads have failed.
ForwardInv ==
    current # "finished" =>
        LET front == blocks_[read_index_]
            back == blocks_[1 - read_index_]
        IN  /\ \A i \in DOMAIN tasks : tasks[i].pc \in {"reading", "retry"}
                  => file_open /\ back.base = Torn
            /\ ~file_open => /\ heard.len = 0
                             /\ \A b \in {0, 1} : blocks_[b].len = 0
            /\ front.len > 0 => front.base + front.len <= file_pos
            /\ Ahead => back.base + back.len <= file_pos
            /\ Ahead /\ front.len > 0 => front.base + front.len <= back.base
            /\ heard.len > 0 =>
                  /\ heard.pos < file_pos
                  /\ Ahead => heard.pos < back.base
                  /\ front.len > 0 =>
                        heard.pos < front.base
                                      + in_buffer_processed_frames_ * FrameSize

\* The list s holds one coroutine, with these fields.
One(s, kind, label, dest, got) ==
    /\ Len(s) = 1 /\ DOMAIN s = {1}
    /\ s[1].kind = kind /\ s[1].pc = label /\ s[1].dest = dest
    /\ s[1].got = got /\ s[1].clash = FALSE

\* How each step of the only coroutine looks.
OneBegins ==
    /\ tasks[1].pc = "start"
    /\ \/ /\ One(tasks', tasks[1].kind, "reading", 1 - read_index_, 0)
          /\ blocks_' = [blocks_ EXCEPT ![1 - read_index_] = Mixture]
          /\ file_open' = TRUE /\ faulted' = faulted
          /\ \/ file_open /\ UNCHANGED <<file_pos, total_frames_>>
             \/ /\ ~file_open /\ file_pos' = 0
                /\ total_frames_' = file_size \div FrameSize
       \/ /\ One(tasks', tasks[1].kind, "arrived", 1 - read_index_, 0)
          /\ ~file_open /\ faulted' = TRUE
          /\ UNCHANGED <<blocks_, file_open, file_pos>>
    /\ UNCHANGED <<read_index_, back_buffer_ready_, current, heard>>

OneReads ==
    LET got == Smaller(BufferSize, file_size - file_pos) IN
    /\ tasks[1].pc = "reading"
    /\ One(tasks', tasks[1].kind, "arrived", tasks[1].dest, got)
    /\ blocks_' = [blocks_ EXCEPT ![tasks[1].dest] =
                     [base |-> file_pos, len |-> got]]
    /\ file_pos' = file_pos + got
    /\ UNCHANGED <<file_open, total_frames_, faulted, read_index_,
                   back_buffer_ready_, current, heard>>

OneFails ==
    /\ tasks[1].pc = "reading"
    /\ One(tasks', tasks[1].kind, "retry", tasks[1].dest, 0)
    /\ faulted' = TRUE
    /\ file_pos' \in Nat /\ file_pos' >= file_pos
    /\ UNCHANGED <<blocks_, file_open, total_frames_, read_index_,
                   back_buffer_ready_, current, heard>>

OneRetries ==
    /\ tasks[1].pc = "retry"
    /\ \/ /\ One(tasks', tasks[1].kind, "reading", tasks[1].dest, 0)
          /\ blocks_' = [blocks_ EXCEPT ![tasks[1].dest] = Mixture]
          /\ file_open
       \/ /\ \E label \in {"retry", "arrived"} :
                One(tasks', tasks[1].kind, label, tasks[1].dest, 0)
          /\ UNCHANGED blocks_
    /\ UNCHANGED <<file_open, file_pos, total_frames_, faulted, read_index_,
                   back_buffer_ready_, current, heard>>

OneEnds ==
    /\ tasks[1].pc = "arrived"
    /\ blocks_' = IF tasks[1].got = 0
                  THEN [blocks_ EXCEPT ![tasks[1].dest] = Silence]
                  ELSE blocks_
    /\ back_buffer_ready_' = TRUE
    /\ \/ /\ tasks[1].kind = "init1"
          /\ read_index_' = 1 - read_index_
          /\ One(tasks', "init2", "start", 0, 0)
          /\ UNCHANGED current
       \/ /\ tasks[1].kind # "init1"
          /\ current' = IF current = "preparing" THEN "playing" ELSE current
          /\ tasks' = <<>>
          /\ UNCHANGED read_index_
    /\ UNCHANGED <<file_open, file_pos, total_frames_, faulted, heard>>

\* In time a coroutine is the only one, and the first of the list.
LEMMA OnlyOne ==
    ASSUME TypeInv, TaskInv, NEW i \in DOMAIN tasks
    PROVE  /\ i = 1 /\ Len(tasks) = 1 /\ DOMAIN tasks = {1}
           /\ tasks[1] \in Tasks /\ tasks \in [{1} -> Tasks]
           /\ tasks[1].clash = FALSE
           /\ tasks[1].dest \in {0, 1} /\ tasks[1].got \in 0..BufferSize
<1>1. /\ Len(tasks) \in Nat /\ DOMAIN tasks = 1..Len(tasks)
      /\ Len(tasks) <= 1 /\ tasks \in Seq(Tasks)
  BY Numbers DEF TaskInv
<1>2. i = 1 /\ Len(tasks) = 1
  BY <1>1
<1>3. DOMAIN tasks = {1}
  BY <1>1, <1>2
<1>4. tasks[1] \in Tasks
  BY <1>3, Numbers
<1>5. tasks \in [{1} -> Tasks]
  BY <1>1, <1>2, <1>3, LenProperties
<1>6. tasks[1].clash = FALSE
  BY <1>3, <1>4 DEF TaskInv, Tasks
<1> QED
  BY <1>2, <1>3, <1>4, <1>5, <1>6 DEF Tasks

\* The list after one of its entries is replaced.
LEMMA Replaced ==
    ASSUME TypeInv, TaskInv, 1 \in DOMAIN tasks, NEW t,
           tasks' = [tasks EXCEPT ![1] = t]
    PROVE  Len(tasks') = 1 /\ DOMAIN tasks' = {1} /\ tasks'[1] = t
<1>1. /\ tasks \in [{1} -> Tasks] /\ DOMAIN tasks = {1}
  BY OnlyOne
<1>2. DOMAIN tasks' = {1} /\ tasks'[1] = t
  BY <1>1
<1>3. tasks' \in [1..1 -> {t}]
  BY <1>1
<1>4. tasks' \in Seq({t})
  BY <1>3, SeqDef, ZenonT(60)
<1>5. Len(tasks') \in Nat /\ DOMAIN tasks' = 1..Len(tasks')
  BY <1>4, LenProperties
<1> QED
  BY <1>2, <1>5

\* Its read meets no other.
LEMMA OneStarts ==
    ASSUME TypeInv, TaskInv, 1 \in DOMAIN tasks, NEW t \in Tasks, t.got = 0,
           StartRead(1, t)
    PROVE  /\ One(tasks', t.kind, "reading", t.dest, 0)
           /\ blocks_' = [blocks_ EXCEPT ![t.dest] = Mixture]
<1> DEFINE clash == \E j \in DOMAIN tasks \ {1} : tasks[j].pc = "reading"
           mark(j) == IF tasks[j].pc = "reading"
                      THEN [tasks[j] EXCEPT !.clash = TRUE] ELSE tasks[j]
           marked == [j \in DOMAIN tasks |-> mark(j)]
           new == [t EXCEPT !.pc = "reading", !.clash = clash]
<1>1. /\ tasks' = [marked EXCEPT ![1] = new]
      /\ blocks_' = [blocks_ EXCEPT ![t.dest] = Mixture]
  BY DEF StartRead
<1>2. tasks \in [{1} -> Tasks] /\ DOMAIN tasks = {1}
  BY OnlyOne
<1>3. clash = FALSE
  BY <1>2
<1>4. /\ new.kind = t.kind /\ new.pc = "reading" /\ new.dest = t.dest
      /\ new.got = 0 /\ new.clash = FALSE
  BY <1>3 DEF Tasks
<1>5. tasks' = [tasks EXCEPT ![1] = new]
  BY <1>1, <1>2
<1> HIDE DEF new
<1>6. Len(tasks') = 1 /\ DOMAIN tasks' = {1} /\ tasks'[1] = new
  BY <1>5, Replaced
<1> QED
  BY <1>1, <1>4, <1>6 DEF One

\* In time these are all the steps of a coroutine.
LEMMA FetchOne ==
    ASSUME TypeInv, TaskInv, NEW i \in DOMAIN tasks, FetchStep(i)
    PROVE  /\ OneBegins \/ OneReads \/ OneFails \/ OneRetries \/ OneEnds
           /\ UNCHANGED <<file_size, in_buffer_processed_frames_,
                          processed_frames_, round>>
<1>0. /\ i = 1 /\ 1 \in DOMAIN tasks /\ tasks[1] \in Tasks
      /\ DOMAIN tasks = {1} /\ tasks[1].clash = FALSE
      /\ tasks[1].dest \in {0, 1} /\ Len(tasks) = 1
      /\ (tasks[1].pc # "arrived" => tasks[1].got = 0)
  BY OnlyOne DEF TaskInv
<1>1. UNCHANGED <<file_size, in_buffer_processed_frames_, processed_frames_,
                  round>>
  BY DEF FetchStep, BeginFetch, ReadCompletes, ReadFails, Retry, FetchEnds,
         file, node, buffer
<1>2. CASE BeginFetch(i)
  <2> DEFINE t == [tasks[1] EXCEPT !.dest = 1 - read_index_]
             failed == [t EXCEPT !.pc = "arrived"]
  <2>1. tasks[1].pc = "start" /\ tasks[1].got = 0
    BY <1>0, <1>2 DEF BeginFetch
  <2>2. 1 - read_index_ \in {0, 1}
    BY DEF TypeInv, TypeOK
  <2>3. t \in Tasks /\ t.got = 0 /\ t.dest = 1 - read_index_
          /\ t.kind = tasks[1].kind /\ t.clash = FALSE
    BY <1>0, <2>1, <2>2 DEF Tasks
  <2>4. /\ failed.got = 0 /\ failed.dest = 1 - read_index_
        /\ failed.kind = tasks[1].kind /\ failed.clash = FALSE
        /\ failed.pc = "arrived"
    BY <2>3 DEF Tasks
  <2>5. \/ /\ StartRead(1, t)
           /\ \/ /\ file_open
                 /\ UNCHANGED <<file_open, file_pos, total_frames_, faulted>>
              \/ /\ ~file_open /\ file_open' = TRUE /\ file_pos' = 0
                 /\ total_frames_' = file_size \div FrameSize
                 /\ UNCHANGED faulted
        \/ /\ tasks' = [tasks EXCEPT ![1] = failed]
           /\ ~file_open /\ faulted' = TRUE
           /\ UNCHANGED <<file_open, file_pos, blocks_>>
    BY <1>0, <1>2 DEF BeginFetch, file
  <2>6. UNCHANGED <<read_index_, back_buffer_ready_, current, heard>>
    BY <1>2 DEF BeginFetch
  <2> HIDE DEF t, failed
  <2>7. StartRead(1, t) =>
          /\ One(tasks', tasks[1].kind, "reading", 1 - read_index_, 0)
          /\ blocks_' = [blocks_ EXCEPT ![1 - read_index_] = Mixture]
    BY <1>0, <2>3, OneStarts
  <2>8. tasks' = [tasks EXCEPT ![1] = failed] =>
          One(tasks', tasks[1].kind, "arrived", 1 - read_index_, 0)
    BY <1>0, <2>4, Replaced DEF One
  <2>9. file_open \in BOOLEAN
    BY DEF TypeInv, TypeOK
  <2>10. OneBegins
    BY <2>1, <2>5, <2>6, <2>7, <2>8, <2>9 DEF OneBegins
  <2> QED
    BY <1>1, <2>10
<1>3. CASE ReadCompletes(i)
  <2> DEFINE got == Smaller(BufferSize, file_size - file_pos)
             new == [[tasks[1] EXCEPT !.pc = "arrived"] EXCEPT !.got = got]
  <2>1. /\ tasks[1].pc = "reading" /\ tasks' = [tasks EXCEPT ![1] = new]
        /\ blocks_' = [blocks_ EXCEPT ![tasks[1].dest] =
                         [base |-> file_pos, len |-> got]]
        /\ file_pos' = file_pos + got
        /\ UNCHANGED <<file_open, total_frames_, faulted, read_index_,
                       back_buffer_ready_, current, heard>>
    BY <1>0, <1>3 DEF ReadCompletes, node
  <2>2. /\ new.kind = tasks[1].kind /\ new.pc = "arrived" /\ new.got = got
        /\ new.dest = tasks[1].dest /\ new.clash = FALSE
    BY <1>0 DEF Tasks
  <2> HIDE DEF new
  <2>3. One(tasks', tasks[1].kind, "arrived", tasks[1].dest, got)
    BY <1>0, <2>1, <2>2, Replaced DEF One
  <2> QED
    BY <1>1, <2>1, <2>3 DEF OneReads
<1>4. CASE ReadFails(i)
  <2> DEFINE new == [[tasks[1] EXCEPT !.pc = "retry"]
                       EXCEPT !.attempt = @ + 1]
  <2>1. /\ tasks[1].pc = "reading" /\ tasks' = [tasks EXCEPT ![1] = new]
        /\ faulted' = TRUE
        /\ UNCHANGED <<blocks_, file_open, total_frames_, read_index_,
                       back_buffer_ready_, current, heard>>
    BY <1>0, <1>4, ZenonT(60) DEF ReadFails, node, buffer
  <2>2. /\ new.kind = tasks[1].kind /\ new.pc = "retry" /\ new.got = 0
        /\ new.dest = tasks[1].dest /\ new.clash = FALSE
    BY <1>0, <2>1 DEF Tasks
  <2> HIDE DEF new
  <2>3. One(tasks', tasks[1].kind, "retry", tasks[1].dest, 0)
    BY <1>0, <2>1, <2>2, Replaced DEF One
  <2>4. file_pos' \in Nat /\ file_pos' >= file_pos
    BY <1>4, Numbers DEF ReadFails, Smaller
  <2> QED
    BY <1>1, <2>1, <2>3, <2>4 DEF OneFails
<1>5. CASE Retry(i)
  <2>0. /\ tasks[1].pc = "retry" /\ tasks[1].got = 0
        /\ UNCHANGED <<file_open, file_pos, total_frames_, faulted,
                       read_index_, back_buffer_ready_, current, heard>>
    BY <1>0, <1>5 DEF Retry, file, node
  <2>1. CASE StartRead(1, tasks[1]) /\ file_open
    BY <1>0, <1>1, <2>0, <2>1, OneStarts DEF OneRetries
  <2>2. CASE tasks' = [tasks EXCEPT ![1].attempt = @ + 1] /\ UNCHANGED blocks_
    <3> DEFINE new == [tasks[1] EXCEPT !.attempt = @ + 1]
    <3>1. /\ new.kind = tasks[1].kind /\ new.pc = "retry" /\ new.got = 0
          /\ new.dest = tasks[1].dest /\ new.clash = FALSE
      BY <1>0, <2>0 DEF Tasks
    <3>2. tasks' = [tasks EXCEPT ![1] = new]
      BY <2>2
    <3> HIDE DEF new
    <3>3. One(tasks', tasks[1].kind, "retry", tasks[1].dest, 0)
      BY <1>0, <3>1, <3>2, Replaced DEF One
    <3> QED
      BY <1>1, <2>0, <2>2, <3>3 DEF OneRetries
  <2>3. CASE tasks' = [tasks EXCEPT ![1].pc = "arrived"] /\ UNCHANGED blocks_
    <3> DEFINE new == [tasks[1] EXCEPT !.pc = "arrived"]
    <3>1. /\ new.kind = tasks[1].kind /\ new.pc = "arrived" /\ new.got = 0
          /\ new.dest = tasks[1].dest /\ new.clash = FALSE
      BY <1>0, <2>0 DEF Tasks
    <3>2. tasks' = [tasks EXCEPT ![1] = new]
      BY <2>3
    <3> HIDE DEF new
    <3>3. One(tasks', tasks[1].kind, "arrived", tasks[1].dest, 0)
      BY <1>0, <3>1, <3>2, Replaced DEF One
    <3> QED
      BY <1>1, <2>0, <2>3, <3>3 DEF OneRetries
  <2> QED
    BY <1>0, <1>5, <2>1, <2>2, <2>3 DEF Retry
<1>6. CASE FetchEnds(i)
  <2>1. /\ tasks[1].pc = "arrived" /\ back_buffer_ready_' = TRUE
        /\ blocks_' = IF tasks[1].got = 0
                      THEN [blocks_ EXCEPT ![tasks[1].dest] = Silence]
                      ELSE blocks_
        /\ UNCHANGED <<file_open, file_pos, total_frames_, faulted, heard>>
    BY <1>0, <1>6 DEF FetchEnds, Filled, file
  <2>2. CASE /\ tasks[1].kind = "init1"
             /\ read_index_' = 1 - read_index_
             /\ tasks' = [tasks EXCEPT ![1] = Task("init2")]
             /\ UNCHANGED current
    <3>1. One(tasks', "init2", "start", 0, 0)
      <4> DEFINE new == Task("init2")
      <4>1. /\ new.kind = "init2" /\ new.pc = "start" /\ new.got = 0
            /\ new.dest = 0 /\ new.clash = FALSE
        BY DEF Task
      <4> HIDE DEF new
      <4>2. tasks' = [tasks EXCEPT ![1] = new]
        BY <2>2 DEF new
      <4> QED
        BY <1>0, <4>1, <4>2, Replaced DEF One
    <3> QED
      BY <1>1, <2>1, <2>2, <3>1 DEF OneEnds
  <2>3. CASE /\ tasks[1].kind # "init1"
             /\ current' = IF current = "preparing" THEN "playing" ELSE current
             /\ tasks' = RemoveAt(tasks, 1)
             /\ UNCHANGED read_index_
    <3>1. tasks' \in Seq(Tasks) /\ Len(tasks') = 0
      BY <1>0, <2>3, Removed, Numbers, SMTT(60)
    <3>2. tasks' = <<>>
      BY <3>1, EmptySeq
    <3> QED
      BY <1>1, <2>1, <2>3, <3>2 DEF OneEnds
  <2> QED
    BY <1>0, <1>6, <2>2, <2>3 DEF FetchEnds
<1> QED
  BY <1>2, <1>3, <1>4, <1>5, <1>6 DEF FetchStep

\* The coroutines that close() may find.
Closable(pending) ==
    /\ pending \in Seq(Tasks) /\ Len(pending) <= 1
    /\ \A i \in DOMAIN pending :
          /\ ~pending[i].clash
          /\ pending[i].kind = "refill"
          /\ pending[i].pc # "arrived" => pending[i].got = 0

\* close() keeps the coroutine and silences both blocks.
LEMMA CloseTask ==
    ASSUME InTime, ~setting.in_loop, NEW pending, Closable(pending),
           Close(pending), UNCHANGED setting
    PROVE  TaskInv' /\ current' = "finished"
<1> DEFINE abort(i) == IF pending[i].pc = "reading"
                       THEN [pending[i] EXCEPT !.pc = "retry",
                                               !.attempt = @ + 1]
                       ELSE pending[i]
           aborted == [i \in DOMAIN pending |-> abort(i)]
<1>1. /\ tasks' = aborted /\ current' = "finished"
      /\ blocks_' = [b \in {0, 1} |-> Silence]
  BY DEF Close
<1>2. Len(pending) \in Nat /\ DOMAIN pending = 1..Len(pending)
  BY LenProperties DEF Closable
<1>3. ASSUME NEW i \in DOMAIN pending
      PROVE  /\ ~abort(i).clash
             /\ abort(i).kind = "refill"
             /\ abort(i).pc # "arrived" => abort(i).got = 0
  <2>1. pending[i] \in Tasks
    BY <1>2, ElementOfSeq, SMTT(60) DEF Closable
  <2> QED
    BY <2>1 DEF Closable, Tasks
<1>4. Len(aborted) = Len(pending)
  <2> DEFINE S == {abort(i) : i \in DOMAIN pending}
  <2>1. aborted \in [1..Len(pending) -> S]
    BY <1>2, ZenonT(60)
  <2>2. aborted \in Seq(S)
    BY <1>2, <2>1, SeqDef, ZenonT(60)
  <2>3. Len(aborted) \in Nat /\ DOMAIN aborted = 1..Len(aborted)
    BY <2>2, LenProperties
  <2>4. DOMAIN aborted = 1..Len(pending)
    BY <1>2
  <2>5. \A m, n \in Nat : 1..m = 1..n => m = n
    OBVIOUS
  <2> HIDE DEF aborted
  <2> QED
    BY <1>2, <2>3, <2>4, <2>5, ZenonT(60)
<1>5. \A b \in {0, 1} : blocks_'[b].base # Torn
  <2>1. Silence.base # Torn
    BY DEF Silence, Torn
  <2> QED
    BY <1>1, <2>1
<1>6. InTime' /\ ~setting'.in_loop
  BY DEF InTime, Steady
<1>7. /\ DOMAIN aborted = DOMAIN pending
      /\ \A i \in DOMAIN pending : aborted[i] = abort(i)
  OBVIOUS
<1> HIDE DEF abort, aborted
<1> QED
  BY <1>1, <1>3, <1>4, <1>5, <1>6, <1>7 DEF TaskInv, Closable

\* A coroutine that is started when there is none is the only one.
LEMMA Spawned ==
    ASSUME NEW s, s = <<>>, NEW kind \in {"refill", "init1"}
    PROVE  /\ One(Append(s, Task(kind)), kind, "start", 0, 0)
           /\ Append(s, Task(kind)) \in Seq(Tasks)
<1> DEFINE new == Task(kind)
<1>1. /\ new \in Tasks /\ new.kind = kind /\ new.pc = "start"
      /\ new.got = 0 /\ new.dest = 0 /\ new.clash = FALSE
  BY SizeAssumption DEF Task, Tasks, max_retries
<1> HIDE DEF new
<1>2. /\ Append(s, new) \in Seq(Tasks) /\ Len(Append(s, new)) = 1
      /\ Append(s, new)[1] = new
  BY <1>1, EmptySeq, AppendProperties
<1>3. DOMAIN Append(s, new) = {1}
  BY <1>2, LenProperties
<1> QED
  BY <1>1, <1>2, <1>3 DEF One, new

\* In a loop close() finds no coroutine and leaves the first of the next round.
LEMMA CloseInLoop ==
    ASSUME InTime, setting.in_loop, ~faulted, NEW pending, pending = <<>>,
           Close(pending), UNCHANGED setting
    PROVE  /\ TaskInv' /\ current' = "away"
           /\ One(tasks', "init1", "start", 0, 0)
           /\ ~file_open' /\ ~faulted' /\ UNCHANGED file_size
           /\ processed_frames_' = 0 /\ in_buffer_processed_frames_' = 0
           /\ round' = 1 - round
<1> DEFINE abort(i) == IF pending[i].pc = "reading"
                       THEN [pending[i] EXCEPT !.pc = "retry",
                                               !.attempt = @ + 1]
                       ELSE pending[i]
           aborted == [i \in DOMAIN pending |-> abort(i)]
<1>1. /\ tasks' = Append(aborted, Task("init1")) /\ current' = "away"
      /\ blocks_' = [b \in {0, 1} |-> Silence]
      /\ ~file_open' /\ ~faulted' /\ UNCHANGED file_size
      /\ processed_frames_' = 0 /\ in_buffer_processed_frames_' = 0
      /\ round' = 1 - round
  BY DEF Close
<1>2. aborted = <<>>
  <2>1. pending \in Seq(Tasks) /\ Len(pending) = 0
    BY EmptySeq
  <2>2. DOMAIN pending = 1..Len(pending) /\ Len(pending) \in Nat
    BY <2>1, LenProperties
  <2> DEFINE S == {abort(i) : i \in DOMAIN pending}
  <2>3. aborted \in [1..Len(pending) -> S] /\ DOMAIN aborted = 1..Len(pending)
    BY <2>2, ZenonT(60)
  <2> HIDE DEF aborted, S
  <2>4. aborted \in Seq(S)
    BY <2>2, <2>3, SeqDef, ZenonT(60)
  <2>5. Len(aborted) \in Nat /\ DOMAIN aborted = 1..Len(aborted)
    BY <2>4, LenProperties
  <2>6. Len(aborted) = 0
    BY <2>1, <2>3, <2>5
  <2> QED
    BY <2>4, <2>6, EmptySeq
<1> HIDE DEF abort, aborted
<1>3. One(tasks', "init1", "start", 0, 0)
  BY <1>1, <1>2, Spawned
<1>4. \A b \in {0, 1} : blocks_'[b].base # Torn
  <2>1. Silence.base # Torn
    BY DEF Silence, Torn
  <2> QED
    BY <1>1, <2>1
<1>5. InTime' /\ setting'.in_loop
  BY DEF InTime, Steady
<1>6. TaskInv'
  BY <1>1, <1>3, <1>4, <1>5 DEF TaskInv, One
<1> QED
  BY <1>1, <1>3, <1>6

\* process_frame counts the last frame.
LastFrame == total_frames_ > 0 /\ processed_frames_ + 1 >= total_frames_

\* A frame leaves the coroutine alone or starts the refill.
LEMMA PlayTask ==
    ASSUME TypeInv, TaskInv, current = "playing", UNCHANGED setting,
           NEW b \in {0, 1}, NEW frames, NEW pending,
           PlayFrom(b, frames, pending), Closable(pending),
           \/ b = read_index_ /\ pending = tasks
           \/ tasks = <<>> /\ One(pending, "refill", "start", 0, 0),
           setting.in_loop => \/ pending = <<>>
                              \/ ~LastFrame
    PROVE  TaskInv'
<1>1. CASE Close(pending) /\ LastFrame
  <2>1. CASE setting.in_loop
    BY <1>1, <2>1, CloseInLoop DEF TaskInv
  <2>2. CASE ~setting.in_loop
    BY <1>1, <2>2, CloseTask DEF TaskInv
  <2> QED
    BY <2>1, <2>2
<1>2. CASE /\ read_index_' = b
           /\ tasks' = pending
           /\ UNCHANGED <<blocks_, current, faulted>>
  <2>1. InTime' /\ setting' = setting
    BY DEF InTime, Steady, TaskInv
  <2>2. CASE b = read_index_ /\ pending = tasks
    BY <1>2, <2>1, <2>2 DEF TaskInv
  <2>3. CASE tasks = <<>> /\ One(pending, "refill", "start", 0, 0)
    <3>1. \A a \in {0, 1} : blocks_[a].base # Torn
      BY <2>3 DEF TaskInv
    <3> QED
      BY <1>2, <2>1, <2>3, <3>1 DEF TaskInv, One
  <2> QED
    BY <2>2, <2>3
<1> QED
  BY <1>1, <1>2 DEF PlayFrom, LastFrame

\* A step of the executor, as the proofs below see it.
PlaysOn ==
    /\ current = "playing"
    /\ \/ /\ ~NeedsSwap /\ (setting.in_loop => tasks = <<>>)
          /\ PlayFrom(read_index_, in_buffer_processed_frames_, tasks)
       \/ /\ NeedsSwap /\ tasks = <<>>
          /\ PlayFrom(1 - read_index_, 0, Append(tasks, Task("refill")))

\* In time these are all the steps of the node.
LEMMA FrameSteps ==
    ASSUME TypeInv, TaskInv, [Next]_vars
    PROVE  /\ UNCHANGED setting
           /\ \/ \E i \in DOMAIN tasks : FetchStep(i)
              \/ EndOfStream
              \/ Underrun
              \/ PlaysOn
              \/ Reenter /\ tasks = <<>>
              \/ UNCHANGED vars
<1>1. UNCHANGED setting
  BY DEF Next, vars
<1>2. PlayFrame => PlaysOn
  BY DEF PlayFrame, PlaysOn, TaskInv, InTime, Steady
<1>3. SwapAndPlay => PlaysOn
  BY DEF SwapAndPlay, PlaysOn, TaskInv, InTime
<1>4. Reenter => tasks = <<>>
  BY DEF Reenter, TaskInv, InTime
<1> QED
  BY <1>1, <1>2, <1>3, <1>4 DEF Next, Frame

\* While nothing fails there is a frame at every tick.
LEMMA NoGap ==
    ASSUME TypeInv, OrderInv, current = "playing", ~faulted
    PROVE  ~EndOfStream /\ ~Underrun
<1>1. PICK k \in Nat : BlocksInv(k)
  BY DEF OrderInv
<1>2. file_open
  BY <1>1 DEF BlocksInv
<1>3. total_frames_ > 0 => processed_frames_ < total_frames_
  BY <1>2 DEF OrderInv
<1>4. processed_frames_ \in Int /\ total_frames_ \in Int
  <2>1. file_size \div FrameSize \in Int /\ MaxFrames \in Nat
    BY Numbers
  <2> QED
    BY <2>1 DEF TypeInv, TypeOK
<1>5. back_buffer_ready_
  BY DEF OrderInv
<1> QED
  BY <1>3, <1>4, <1>5 DEF EndOfStream, Underrun

\* In a steady loop the frame that swaps the blocks is not the last.
LEMMA SwapIsNotLast ==
    ASSUME TypeInv, BoundsInv, TaskInv, OrderInv, current = "playing",
           setting.in_loop, NeedsSwap
    PROVE  ~LastFrame
<1> DEFINE frames == setting.size \div FrameSize
<1>1. PICK k \in Nat : /\ BlocksInv(k)
                       /\ processed_frames_ = k * PerBlock
                             + in_buffer_processed_frames_
  BY DEF OrderInv, TaskInv
<1>2. /\ in_buffer_processed_frames_ = PerBlock
      /\ PerBlock \in Nat \ {0}
  BY PerBlockFacts DEF BoundsInv, ReadInBounds, NeedsSwap
<1>3. /\ (k + 1) * PerBlock = k * PerBlock + PerBlock
      /\ k * PerBlock \in Nat
  <2>1. k \in Int /\ k >= 0 /\ PerBlock \in Nat
    BY <1>2
  <2> QED
    BY <2>1, Multiples
<1>4. processed_frames_ = (k + 1) * PerBlock + 0
  BY <1>1, <1>2, <1>3
<1>5. file_open /\ total_frames_ = frames /\ frames \in Int
      /\ (total_frames_ > 0 => processed_frames_ < total_frames_)
  <2>1. file_open
    BY <1>1 DEF BlocksInv
  <2>2. file_size \div FrameSize \in Int /\ file_size = setting.size
    BY Numbers DEF TypeInv
  <2> QED
    BY <2>1, <2>2 DEF OrderInv, TaskInv
<1>6. frames <= 1 \/ (frames - 1) % PerBlock # 0
  BY DEF TaskInv, InTime, Steady
<1> HIDE DEF frames
<1> SUFFICES ASSUME LastFrame PROVE FALSE
  OBVIOUS
<1>7. frames - 1 = processed_frames_ /\ processed_frames_ >= 1
  BY <1>2, <1>3, <1>4, <1>5 DEF LastFrame
<1>8. ((k + 1) * PerBlock + 0) % PerBlock = 0
  <2>1. k + 1 \in Nat /\ 0 \in 0..(PerBlock - 1)
    BY <1>2
  <2> QED
    BY <1>2, <2>1, Quotient
<1> QED
  BY <1>4, <1>5, <1>6, <1>7, <1>8

\* Every step keeps the coroutine the only one.
LEMMA TaskStep ==
    TypeInv /\ BoundsInv /\ TaskInv /\ OrderInv /\ [Next]_vars => TaskInv'
<1> SUFFICES ASSUME TypeInv, BoundsInv, TaskInv, OrderInv, [Next]_vars
             PROVE  TaskInv'
  OBVIOUS
<1>0. UNCHANGED setting /\ InTime /\ InTime'
  BY FrameSteps DEF InTime, Steady, TaskInv
<1>1. ASSUME NEW i \in DOMAIN tasks, FetchStep(i) PROVE TaskInv'
  <2>0. /\ 1 \in DOMAIN tasks /\ DOMAIN tasks = {1}
        /\ tasks[1].dest \in {0, 1} /\ read_index_ \in {0, 1}
        /\ blocks_ \in [{0, 1} -> [base : Torn..file_size,
                                   len : 0..BufferSize]]
        /\ file_pos \in Nat
    <3>1. 1 \in DOMAIN tasks /\ DOMAIN tasks = {1} /\ tasks[1].dest \in {0, 1}
      BY <1>1, OnlyOne
    <3>2. file_pos \in Nat
      BY Numbers
    <3> QED
      BY <3>1, <3>2 DEF TypeInv, TypeOK
  <2>f. setting.in_loop => ~faulted' /\ current # "finished"
    BY <1>0, <1>1 DEF TaskInv, InTime, Steady, FetchStep, BeginFetch,
       ReadCompletes, ReadFails, Retry, FetchEnds
  <2>1. CASE OneBegins
    <3>1. \E label \in {"reading", "arrived"} :
            One(tasks', tasks[1].kind, label, 1 - read_index_, 0)
      BY <2>1 DEF OneBegins
    <3>2. \A b \in {0, 1} : blocks_'[b].base = Torn => b = 1 - read_index_
      BY <2>0, <2>1 DEF OneBegins, TaskInv
    <3>3. UNCHANGED <<current, read_index_>>
      BY <2>1 DEF OneBegins
    <3> QED
      BY <1>0, <2>0, <2>f, <3>1, <3>2, <3>3 DEF TaskInv, One
  <2>2. CASE OneReads
    <3> DEFINE got == Smaller(BufferSize, file_size - file_pos)
    <3>1. /\ One(tasks', tasks[1].kind, "arrived", tasks[1].dest, got)
          /\ UNCHANGED <<current, read_index_>>
          /\ tasks[1].pc = "reading"
      BY <2>2 DEF OneReads
    <3>2. \A b \in {0, 1} : blocks_'[b].base # Torn
      BY <2>0, <2>2 DEF OneReads, TaskInv, Torn
    <3> HIDE DEF got
    <3> QED
      BY <1>0, <2>0, <2>f, <3>1, <3>2 DEF TaskInv, One
  <2>3. CASE OneFails
    BY <1>0, <2>0, <2>f, <2>3 DEF OneFails, TaskInv, One
  <2>4. CASE OneRetries
    <3>1. \E label \in {"reading", "retry", "arrived"} :
            One(tasks', tasks[1].kind, label, tasks[1].dest, 0)
      BY <2>4 DEF OneRetries
    <3>2. /\ tasks[1].pc = "retry" /\ UNCHANGED <<current, read_index_>>
          /\ \A b \in {0, 1} : blocks_'[b].base = Torn => b = tasks[1].dest
      BY <2>0, <2>4 DEF OneRetries, TaskInv
    <3> QED
      BY <1>0, <2>0, <2>f, <3>1, <3>2 DEF TaskInv, One
  <2>5. CASE OneEnds
    <3>1. \A b \in {0, 1} : blocks_'[b].base # Torn
      BY <2>0, <2>5 DEF OneEnds, TaskInv, Silence, Torn
    <3>2. CASE One(tasks', "init2", "start", 0, 0) /\ UNCHANGED current
               /\ tasks[1].kind = "init1"
      BY <1>0, <2>0, <2>f, <3>1, <3>2 DEF TaskInv, One
    <3>3. CASE /\ tasks' = <<>>
               /\ current' = IF current = "preparing" THEN "playing"
                             ELSE current
      BY <1>0, <2>f, <3>1, <3>3 DEF TaskInv
    <3> QED
      BY <2>5, <3>2, <3>3 DEF OneEnds
  <2> QED
    BY <1>1, <2>1, <2>2, <2>3, <2>4, <2>5, FetchOne
<1>2. ASSUME current = "playing" PROVE Closable(tasks)
  BY <1>2, Numbers DEF TaskInv, Closable
<1>3. CASE EndOfStream
  <2>1. current = "playing" /\ Close(tasks)
    BY <1>3 DEF EndOfStream
  <2>2. ~setting.in_loop
    BY <1>3, <2>1, NoGap DEF TaskInv
  <2> QED
    BY <1>0, <1>2, <2>1, <2>2, CloseTask
<1>4. CASE Underrun
  BY <1>0, <1>4 DEF Underrun, buffer, node, TaskInv
<1>5. CASE PlaysOn
  <2>1. CASE /\ setting.in_loop => tasks = <<>>
             /\ PlayFrom(read_index_, in_buffer_processed_frames_, tasks)
    BY <1>0, <1>2, <1>5, <2>1, PlayTask DEF PlaysOn, TypeInv, TypeOK
  <2>2. CASE /\ NeedsSwap /\ tasks = <<>>
             /\ PlayFrom(1 - read_index_, 0, Append(tasks, Task("refill")))
    <3> DEFINE pending == Append(tasks, Task("refill"))
    <3>1. One(pending, "refill", "start", 0, 0) /\ pending \in Seq(Tasks)
      BY <2>2, Spawned
    <3>2. Closable(pending)
      BY <3>1 DEF One, Closable
    <3>3. 1 - read_index_ \in {0, 1}
      BY DEF TypeInv, TypeOK
    <3>4. PlayFrom(1 - read_index_, 0, pending) /\ current = "playing"
      BY <1>5, <2>2 DEF PlaysOn
    <3>5. setting.in_loop => ~LastFrame
      BY <2>2, <3>4, SwapIsNotLast
    <3> HIDE DEF pending
    <3> QED
      BY <1>0, <2>2, <3>1, <3>2, <3>3, <3>4, <3>5, PlayTask
  <2> QED
    BY <1>5, <2>1, <2>2 DEF PlaysOn
<1>6. CASE UNCHANGED vars
  BY <1>0, <1>6 DEF vars, buffer, node, TaskInv
<1>7. CASE Reenter /\ tasks = <<>>
  BY <1>0, <1>7 DEF Reenter, buffer, TaskInv
<1> QED
  BY <1>1, <1>3, <1>4, <1>5, <1>6, <1>7, FrameSteps

\* prepare() starts the first.
LEMMA TaskStart == Init /\ InTime => TaskInv
<1> SUFFICES ASSUME Init, InTime PROVE TaskInv
  OBVIOUS
<1>1. /\ Len(tasks) = 1 /\ DOMAIN tasks = {1} /\ tasks[1] = Task("init1")
      /\ current = "preparing" /\ ~faulted
  BY DEF Init
<1>2. \A b \in {0, 1} : blocks_[b].base # Torn
  BY DEF Init, Silence, Torn
<1> QED
  BY <1>1, <1>2 DEF TaskInv, Task

-----------------------------------------------------------------------------
(* Reads that fail, and the order of what is played.                       *)

\* The blocks, as numbers.
LEMMA BlockTypes ==
    ASSUME TypeInv, TaskInv
    PROVE  /\ read_index_ \in {0, 1} /\ 1 - read_index_ \in {0, 1}
           /\ blocks_ \in [{0, 1} -> [base : Torn..file_size,
                                      len : 0..BufferSize]]
           /\ \A b \in {0, 1} : /\ blocks_[b].base \in Int
                                /\ blocks_[b].len \in Nat
           /\ current # "finished" => blocks_[read_index_].base # Torn
           /\ tasks = <<>> => \A b \in {0, 1} : blocks_[b].base # Torn
           /\ heard.pos \in Int /\ heard.len \in Nat
           /\ in_buffer_processed_frames_ \in Nat
           /\ in_buffer_processed_frames_ * FrameSize \in Nat
<1>1. read_index_ \in {0, 1} /\ 1 - read_index_ \in {0, 1}
  BY DEF TypeInv, TypeOK
<1>2. blocks_ \in [{0, 1} -> [base : Torn..file_size, len : 0..BufferSize]]
  BY DEF TypeInv, TypeOK
<1>3. \A b \in {0, 1} : blocks_[b].base \in Int /\ blocks_[b].len \in Nat
  BY <1>2, Numbers DEF Torn
<1>4. current # "finished" => blocks_[read_index_].base # Torn
  BY <1>1 DEF TaskInv
<1>5. tasks = <<>> => \A b \in {0, 1} : blocks_[b].base # Torn
  BY DEF TaskInv
<1>6. heard.pos \in Int /\ heard.len \in Nat
  BY DEF TypeInv
<1>7. in_buffer_processed_frames_ \in Nat
  BY DEF TypeInv, TypeOK
<1>8. in_buffer_processed_frames_ * FrameSize \in Nat
  BY <1>7, SizeAssumption
<1> QED
  BY <1>1, <1>2, <1>3, <1>4, <1>5, <1>6, <1>7, <1>8

\* A read, failing or not, only ever goes on in the file.
LEMMA FetchForward ==
    ASSUME TypeInv, TaskInv, ForwardInv, NEW i \in DOMAIN tasks, FetchStep(i)
    PROVE  ForwardInv' /\ UNCHANGED heard
<1> DEFINE back == 1 - read_index_
           played == in_buffer_processed_frames_ * FrameSize
<1>0. /\ 1 \in DOMAIN tasks /\ DOMAIN tasks = {1}
      /\ tasks[1].dest \in {0, 1}
      /\ UNCHANGED in_buffer_processed_frames_
  BY OnlyOne, FetchOne
<1>1. UNCHANGED heard
  BY FetchOne DEF OneBegins, OneReads, OneFails, OneRetries, OneEnds
<1>2. CASE current = "finished"
  <2>1. current' = "finished"
    BY <1>2, FetchOne DEF OneBegins, OneReads, OneFails, OneRetries, OneEnds
  <2> QED
    BY <1>1, <2>1 DEF ForwardInv
<1>3. CASE current # "finished"
  <2>0. /\ tasks[1].pc # "start" => tasks[1].dest = back
        /\ tasks[1].got # 0 => blocks_[back].base # Torn
        /\ back \in {0, 1} /\ read_index_ \in {0, 1} /\ back # read_index_
    BY <1>0, <1>3, BlockTypes DEF TaskInv
  <2>1. CASE OneBegins
    <3>1. blocks_'[read_index_] = blocks_[read_index_]
      BY <2>0, <2>1, BlockTypes DEF OneBegins
    <3>2. UNCHANGED <<current, read_index_>> /\ file_open \in BOOLEAN
      BY <2>1 DEF OneBegins, TypeInv, TypeOK
    <3>3. CASE file_open' = TRUE
      <4>1. /\ \/ file_open /\ file_pos' = file_pos
               \/ ~file_open /\ file_pos' = 0
            /\ One(tasks', tasks[1].kind, "reading", back, 0)
            /\ blocks_'[back] = Mixture
        BY <2>0, <2>1, <3>2, <3>3, BlockTypes DEF OneBegins
      <4>2. ~Ahead' /\ blocks_'[back].base = Torn
        BY <3>2, <4>1 DEF One, Ahead, Mixture
      <4>3. CASE file_open
        BY <1>0, <1>1, <1>3, <3>1, <3>2, <3>3, <4>1, <4>2, <4>3
           DEF ForwardInv
      <4>4. CASE ~file_open
        <5>1. heard.len = 0 /\ blocks_[read_index_].len = 0
          BY <1>3, <2>0, <4>4 DEF ForwardInv
        <5> QED
          BY <1>1, <3>1, <3>2, <3>3, <4>2, <5>1 DEF ForwardInv
      <4> QED
        BY <4>3, <4>4
    <3>4. CASE file_open' # TRUE
      <4>1. /\ One(tasks', tasks[1].kind, "arrived", back, 0)
            /\ ~file_open /\ UNCHANGED <<blocks_, file_open, file_pos>>
        BY <2>1, <3>4 DEF OneBegins
      <4>2. /\ \A b \in {0, 1} : blocks_'[b].len = 0
            /\ heard.len = 0
        BY <1>3, <4>1 DEF ForwardInv
      <4>3. ~Ahead' /\ blocks_'[read_index_].len = 0
        BY <2>0, <3>2, <4>2 DEF Ahead
      <4>4. \A j \in DOMAIN tasks' : tasks'[j].pc = "arrived"
        BY <4>1 DEF One
      <4> QED
        BY <1>1, <3>2, <4>2, <4>3, <4>4 DEF ForwardInv
    <3> QED
      BY <3>3, <3>4
  <2>2. CASE OneReads
    <3> DEFINE got == Smaller(BufferSize, file_size - file_pos)
    <3>1. /\ blocks_'[read_index_] = blocks_[read_index_]
          /\ blocks_'[back].base = file_pos /\ blocks_'[back].len = got
      BY <2>0, <2>2, BlockTypes DEF OneReads
    <3>2. file_pos' = file_pos + got /\ got \in Nat /\ file_pos \in Nat
      BY <2>2, Numbers DEF OneReads, Smaller
    <3>3. /\ UNCHANGED <<file_open, current, read_index_>>
          /\ file_open /\ tasks'[1].pc = "arrived" /\ DOMAIN tasks' = {1}
      BY <1>0, <1>3, <2>2 DEF OneReads, One, ForwardInv
    <3> HIDE DEF got
    <3>4. blocks_[read_index_].len > 0 =>
             /\ blocks_[read_index_].base + blocks_[read_index_].len <= file_pos
             /\ blocks_[read_index_].base + blocks_[read_index_].len <= file_pos'
      BY <1>3, <2>0, <3>2, BlockTypes DEF ForwardInv
    <3>5. heard.len > 0 => /\ heard.pos < file_pos
                           /\ heard.pos < file_pos'
                           /\ blocks_[read_index_].len > 0 =>
                                heard.pos < blocks_[read_index_].base + played
      BY <1>3, <3>2, BlockTypes DEF ForwardInv
    <3>6. file_pos + got <= file_pos'
      BY <3>2
    <3> QED
      BY <1>0, <1>1, <1>3, <3>1, <3>3, <3>4, <3>5, <3>6 DEF ForwardInv, Ahead
  <2>3. CASE OneFails
    <3>1. /\ file_open /\ blocks_[back].base = Torn
          /\ file_pos' \in Nat /\ file_pos' >= file_pos
          /\ UNCHANGED <<blocks_, file_open, current, read_index_>>
      BY <1>0, <1>3, <2>3 DEF OneFails, ForwardInv
    <3>2. ~Ahead'
      BY <3>1 DEF Ahead
    <3>3. file_pos \in Nat
      BY Numbers
    <3> QED
      BY <1>0, <1>1, <1>3, <3>1, <3>2, <3>3, BlockTypes DEF ForwardInv
  <2>4. CASE OneRetries
    <3>1. /\ file_open /\ blocks_[back].base = Torn
          /\ UNCHANGED <<file_open, file_pos, current, read_index_>>
          /\ tasks[1].dest = back
      BY <1>0, <1>3, <2>0, <2>4 DEF OneRetries, ForwardInv
    <3>2. /\ blocks_'[read_index_] = blocks_[read_index_]
          /\ blocks_'[back].base = Torn
      BY <2>0, <2>4, <3>1, BlockTypes DEF OneRetries, Mixture
    <3>3. ~Ahead'
      BY <3>1, <3>2 DEF Ahead
    <3> QED
      BY <1>0, <1>1, <1>3, <3>1, <3>2, <3>3 DEF ForwardInv
  <2>5. CASE OneEnds
    <3>1. UNCHANGED <<file_open, file_pos>> /\ tasks[1].dest = back
          /\ tasks[1].pc = "arrived" /\ current' # "finished"
      BY <1>3, <2>0, <2>5 DEF OneEnds
    <3>2. /\ blocks_'[read_index_] = blocks_[read_index_]
          /\ blocks_'[back].len > 0 => /\ Ahead
                                       /\ blocks_'[back] = blocks_[back]
      BY <1>0, <2>0, <2>5, <3>1, BlockTypes DEF OneEnds, Silence, Ahead
    <3>3. ~file_open => \A b \in {0, 1} : blocks_'[b].len = 0
      <4>1. blocks_'[back].len = 0 \/ blocks_'[back] = blocks_[back]
        BY <2>0, <2>5, <3>1, BlockTypes DEF OneEnds, Silence
      <4>2. \A b \in {0, 1} : b = back \/ b = read_index_
        BY <2>0
      <4> QED
        BY <1>3, <2>0, <3>2, <4>1, <4>2 DEF ForwardInv
    <3>4. CASE /\ read_index_' = back
               /\ One(tasks', "init2", "start", 0, 0)
      <4>1. ~Ahead' /\ \A j \in DOMAIN tasks' : tasks'[j].pc = "start"
        BY <3>4 DEF Ahead, One
      <4>2. blocks_'[back].len > 0 =>
              /\ blocks_'[back].base + blocks_'[back].len <= file_pos
              /\ heard.len > 0 => heard.pos < blocks_'[back].base + played
        BY <1>3, <2>0, <3>2, BlockTypes DEF ForwardInv
      <4> QED
        BY <1>0, <1>1, <1>3, <3>1, <3>3, <3>4, <4>1, <4>2 DEF ForwardInv
    <3>5. CASE tasks' = <<>> /\ UNCHANGED read_index_
      <4>1. Ahead' => Ahead /\ blocks_'[back] = blocks_[back]
        BY <3>2, <3>5 DEF Ahead
      <4> QED
        BY <1>0, <1>1, <1>3, <3>1, <3>2, <3>3, <3>5, <4>1 DEF ForwardInv
    <3> QED
      BY <2>5, <3>4, <3>5 DEF OneEnds
  <2> QED
    BY <2>1, <2>2, <2>3, <2>4, <2>5, FetchOne
<1> QED
  BY <1>1, <1>2, <1>3

\* A frame taken from a block that lies after what was heard so far.
LEMMA PlayForward ==
    ASSUME TypeInv, TaskInv, ForwardInv, NEW b \in {0, 1}, NEW frames \in Nat,
           NEW pending, PlayFrom(b, frames, pending), UNCHANGED setting,
           ~setting.in_loop, current = "playing", blocks_[b].base # Torn,
           blocks_[b].len > 0 =>
              /\ blocks_[b].base + blocks_[b].len <= file_pos
              /\ heard.len > 0 =>
                    heard.pos < blocks_[b].base + frames * FrameSize,
           \/ b = read_index_ /\ pending = tasks
           \/ One(pending, "refill", "start", 0, 0)
    PROVE  /\ heard.len > 0 /\ heard'.len > 0 => heard'.pos > heard.pos
           /\ ForwardInv'
<1> DEFINE block == blocks_[b]
           offset == frames * FrameSize
<1>0. /\ block.base \in Int /\ block.len \in Nat /\ offset \in Nat
      /\ FrameSize \in Nat \ {0} /\ file_pos \in Nat
      /\ (frames + 1) * FrameSize = offset + FrameSize
      /\ heard.pos \in Int /\ heard.len \in Nat
  <2>1. FrameSize \in Nat \ {0} /\ file_pos \in Nat
    BY Numbers
  <2>2. /\ frames * FrameSize \in Nat
        /\ (frames + 1) * FrameSize = frames * FrameSize + FrameSize
    BY <2>1
  <2> QED
    BY <2>1, <2>2, BlockTypes
<1>1. heard' = [round |-> round, n |-> processed_frames_,
                pos |-> FrameAt(block, offset).pos,
                len |-> FrameAt(block, offset).len]
  BY DEF PlayFrom, Hear
<1> HIDE DEF offset
<1>2. heard'.len > 0 => /\ offset < block.len
                        /\ heard'.pos = block.base + offset
  <2>1. CASE offset >= block.len
    BY <1>1, <2>1 DEF FrameAt
  <2>2. CASE ~(offset >= block.len)
    BY <1>0, <1>1, <2>2 DEF FrameAt
  <2> QED
    BY <2>1, <2>2
<1>3. heard.len > 0 /\ heard'.len > 0 => heard'.pos > heard.pos
  BY <1>0, <1>2 DEF offset
<1>4. CASE Close(pending)
  <2>1. current' = "finished"
    BY <1>4 DEF Close
  <2> QED
    BY <1>3, <2>1 DEF ForwardInv
<1>5. CASE /\ read_index_' = b
           /\ in_buffer_processed_frames_' = frames + 1
           /\ tasks' = pending
           /\ UNCHANGED <<blocks_, file, current>>
  <2>0. UNCHANGED <<file_open, file_pos>>
    BY <1>5 DEF file
  <2>1. ~file_open => /\ heard'.len = 0
                      /\ \A a \in {0, 1} : blocks_[a].len = 0
    <3>1. ASSUME ~file_open PROVE \A a \in {0, 1} : blocks_[a].len = 0
      BY <3>1 DEF ForwardInv
    <3>2. ASSUME block.len = 0 PROVE heard'.len = 0
      BY <1>0, <1>1, <3>2 DEF FrameAt
    <3> QED
      BY <3>1, <3>2
  <2>2. heard'.len > 0 => /\ heard'.pos < file_pos
                          /\ heard'.pos < block.base + block.len
                          /\ heard'.pos < block.base
                                             + (frames + 1) * FrameSize
    <3> HIDE DEF block
    <3>1. block.len > 0 => block.base + block.len <= file_pos
      BY DEF block
    <3> QED
      BY <1>0, <1>2, <3>1
  <2>3. CASE b = read_index_ /\ pending = tasks
    <3>1. Ahead' <=> Ahead
      BY <1>5, <2>3 DEF Ahead
    <3>2. Ahead /\ heard'.len > 0 => heard'.pos < blocks_[1 - b].base
      <4>1. Ahead /\ block.len > 0 =>
              block.base + block.len <= blocks_[1 - b].base
        BY <2>3 DEF ForwardInv
      <4>2. blocks_[1 - b].base \in Int
        BY <2>3, BlockTypes
      <4>3. heard'.len > 0 => block.len > 0 /\ heard'.pos \in Int
        BY <1>0, <1>2
      <4> HIDE DEF block
      <4> QED
        BY <1>0, <2>2, <4>1, <4>2, <4>3
    <3> QED
      BY <1>3, <1>5, <2>0, <2>1, <2>2, <2>3, <3>1, <3>2 DEF ForwardInv
  <2>4. CASE One(pending, "refill", "start", 0, 0)
    <3>1. ~Ahead' /\ \A j \in DOMAIN tasks' : tasks'[j].pc = "start"
      BY <1>5, <2>4 DEF Ahead, One
    <3> QED
      BY <1>3, <1>5, <2>0, <2>1, <2>2, <3>1 DEF ForwardInv
  <2> QED
    BY <2>3, <2>4
<1> QED
  BY <1>4, <1>5 DEF PlayFrom

\* Outside loops every step keeps what was heard behind what is to be played.
LEMMA ForwardStep ==
    ASSUME TypeInv, TaskInv, ForwardInv, ~setting.in_loop, [Next]_vars
    PROVE  /\ ForwardInv'
           /\ heard' # heard /\ heard.len > 0 /\ heard'.len > 0
                 => heard'.pos > heard.pos
<1>0. UNCHANGED setting
  BY FrameSteps
<1>1. ASSUME NEW i \in DOMAIN tasks, FetchStep(i)
      PROVE  ForwardInv' /\ UNCHANGED heard
  BY <1>1, FetchForward
<1>2. CASE EndOfStream
  <2>1. current' = "finished" /\ heard'.len = 0
    BY <1>2 DEF EndOfStream, Close, Hear
  <2> QED
    BY <2>1 DEF ForwardInv
<1>3. CASE Underrun
  <2>1. /\ heard'.len = 0
        /\ UNCHANGED <<read_index_, blocks_, in_buffer_processed_frames_,
                       file_open, file_pos, current, tasks>>
    BY <1>3 DEF Underrun, Hear, buffer, file, node
  <2>2. Ahead' <=> Ahead
    BY <2>1 DEF Ahead
  <2> QED
    BY <2>1, <2>2 DEF ForwardInv
<1>4. CASE PlaysOn
  <2>0. /\ current = "playing" /\ in_buffer_processed_frames_ \in Nat
        /\ read_index_ \in {0, 1} /\ 1 - read_index_ \in {0, 1}
    BY <1>4, BlockTypes DEF PlaysOn
  <2>1. CASE PlayFrom(read_index_, in_buffer_processed_frames_, tasks)
    <3>1. blocks_[read_index_].base # Torn
      BY <2>0, BlockTypes
    <3>2. blocks_[read_index_].len > 0 =>
             /\ blocks_[read_index_].base + blocks_[read_index_].len
                   <= file_pos
             /\ heard.len > 0 => heard.pos < blocks_[read_index_].base
                                   + in_buffer_processed_frames_ * FrameSize
      BY <2>0 DEF ForwardInv
    <3> QED
      BY <1>0, <2>0, <2>1, <3>1, <3>2, PlayForward
  <2>2. CASE /\ tasks = <<>>
             /\ PlayFrom(1 - read_index_, 0, Append(tasks, Task("refill")))
    <3> DEFINE back == 1 - read_index_
               pending == Append(tasks, Task("refill"))
    <3>1. blocks_[back].base # Torn
      BY <2>0, <2>2, BlockTypes
    <3>2. blocks_[back].len > 0 => Ahead
      BY <2>2, <3>1 DEF Ahead
    <3>3. 0 * FrameSize = 0 /\ blocks_[back].base \in Int
      BY <2>0, SizeAssumption, BlockTypes
    <3>4. blocks_[back].len > 0 =>
             /\ blocks_[back].base + blocks_[back].len <= file_pos
             /\ heard.len > 0 => heard.pos < blocks_[back].base
      BY <2>0, <3>2 DEF ForwardInv
    <3>5. One(pending, "refill", "start", 0, 0)
      BY <2>2, Spawned
    <3>6. PlayFrom(back, 0, pending) /\ back \in {0, 1}
      BY <2>0, <2>2
    <3>7. blocks_[back].base + 0 * FrameSize = blocks_[back].base
      BY <3>3
    <3> HIDE DEF back, pending
    <3> QED
      BY <1>0, <2>0, <3>1, <3>4, <3>5, <3>6, <3>7, PlayForward
  <2> QED
    BY <1>4, <2>1, <2>2 DEF PlaysOn
<1>5. CASE UNCHANGED vars
  <2>1. UNCHANGED <<read_index_, blocks_, in_buffer_processed_frames_,
                    file_open, file_pos, current, tasks, heard>>
    BY <1>5 DEF vars, buffer, file, node
  <2>2. Ahead' <=> Ahead
    BY <2>1 DEF Ahead
  <2> QED
    BY <2>1, <2>2 DEF ForwardInv
<1>6. ~Reenter
  BY DEF Reenter, TaskInv
<1> QED
  BY <1>1, <1>2, <1>3, <1>4, <1>5, <1>6, FrameSteps

\* Nothing was heard yet.
LEMMA ForwardStart == Init => ForwardInv
<1> SUFFICES ASSUME Init PROVE ForwardInv
  OBVIOUS
<1>1. /\ heard.len = 0 /\ read_index_ = 0
      /\ \A b \in {0, 1} : blocks_[b].len = 0
      /\ \A i \in DOMAIN tasks : tasks[i].pc = "start"
  BY DEF Init, Silence, Task
<1>2. ~Ahead
  BY <1>1 DEF Ahead
<1> QED
  BY <1>1, <1>2 DEF ForwardInv

-----------------------------------------------------------------------------
(* Reads that succeed, and what is played.                                 *)

\* Frame j of block k.
LEMMA PositionAt ==
    ASSUME NEW k \in Nat, NEW j \in 0..(PerBlock - 1)
    PROVE  Position(k * PerBlock + j) = k * BufferSize + j * FrameSize
<1>1. PerBlock \in Nat \ {0}
  BY PerBlockFacts
<1>2. /\ (k * PerBlock + j) \div PerBlock = k
      /\ (k * PerBlock + j) % PerBlock = j
  BY <1>1, Quotient
<1> QED
  BY <1>2 DEF Position, PerBlock

\* The numbers of BlocksInv.
LEMMA StretchFacts ==
    ASSUME TypeInv, NEW k \in Int
    PROVE  /\ k * BufferSize \in Int
           /\ (k + 1) * BufferSize = k * BufferSize + BufferSize
           /\ (k + 2) * BufferSize = k * BufferSize + BufferSize + BufferSize
           /\ k >= 0 => k * BufferSize >= 0
           /\ 0 * BufferSize = 0
           /\ BufferSize \in Nat \ {0} /\ file_size \in Nat
<1>1. BufferSize \in Nat \ {0} /\ BufferSize \in Nat /\ file_size \in Nat
  BY Numbers
<1> QED
  BY <1>1, Multiples

\* A read that starts where the k-th stretch does reads that stretch.
LEMMA ReadStretch ==
    ASSUME TypeInv, NEW k \in Int, k >= 0, file_pos = Reached(k)
    PROVE  LET got == Smaller(BufferSize, file_size - file_pos) IN
           /\ got = StretchLen(k)
           /\ file_pos + got = Reached(k + 1)
           /\ Holds([base |-> file_pos, len |-> got], k)
<1> DEFINE start == k * BufferSize
           got == Smaller(BufferSize, file_size - file_pos)
<1>1. /\ start \in Int /\ start >= 0 /\ BufferSize \in Nat \ {0}
      /\ file_size \in Nat /\ (k + 1) * BufferSize = start + BufferSize
  BY StretchFacts
<1>2. file_pos = IF start < file_size THEN start ELSE file_size
  BY DEF Reached, Smaller
<1>3. StretchLen(k) = IF file_size <= start THEN 0
                      ELSE Smaller(BufferSize, file_size - start)
  BY DEF StretchLen
<1>4. Reached(k + 1) = Smaller(start + BufferSize, file_size)
  BY <1>1 DEF Reached
<1> HIDE DEF start
<1>5. got = StretchLen(k)
  BY <1>1, <1>2, <1>3 DEF Smaller
<1>6. file_pos + got = Reached(k + 1)
  BY <1>1, <1>2, <1>4 DEF Smaller
<1>7. got > 0 => file_pos = start
  BY <1>1, <1>2 DEF Smaller
<1> HIDE DEF got
<1>8. Holds([base |-> file_pos, len |-> got], k)
  BY <1>5, <1>7 DEF Holds, start
<1> QED
  BY <1>5, <1>6, <1>8 DEF got

\* A frame of the k-th stretch is the frame of the file it should be.
LEMMA FrameInOrder ==
    ASSUME TypeInv, NEW b \in {0, 1}, NEW k \in Nat, NEW j \in Nat,
           Holds(blocks_[b], k), (j + 1) * FrameSize <= BufferSize,
           processed_frames_ = k * PerBlock + j, UNCHANGED file_size,
           Hear(FrameAt(blocks_[b], j * FrameSize))
    PROVE  PlaysInOrder'
<1> DEFINE start == k * BufferSize
           offset == j * FrameSize
           left == file_size - (start + offset)
<1>1. /\ start \in Int /\ start >= 0 /\ BufferSize \in Nat
      /\ file_size \in Nat
  BY StretchFacts
<1>2. /\ FrameSize \in Nat \ {0} /\ offset \in Nat
      /\ offset + FrameSize <= BufferSize
  <2>1. FrameSize \in Nat \ {0}
    BY Numbers
  <2>2. j * FrameSize \in Nat /\ (j + 1) * FrameSize = j * FrameSize + FrameSize
    BY <2>1
  <2> QED
    BY <2>1, <2>2
<1>3. Position(processed_frames_) = start + offset
  <2>1. j \in 0..(PerBlock - 1)
    BY PerBlockFacts
  <2> QED
    BY <2>1, PositionAt
<1>4. /\ heard'.n = processed_frames_
      /\ heard'.pos = FrameAt(blocks_[b], offset).pos
      /\ heard'.len = FrameAt(blocks_[b], offset).len
  BY DEF Hear
<1>5. /\ blocks_[b].len = IF file_size <= start THEN 0
                          ELSE Smaller(BufferSize, file_size - start)
      /\ blocks_[b].len > 0 => blocks_[b].base = start
  BY DEF Holds, StretchLen
<1> HIDE DEF start, offset
<1>6. CASE left <= 0
  <2>1. offset >= blocks_[b].len
    BY <1>1, <1>2, <1>5, <1>6 DEF Smaller
  <2>2. heard'.len = 0
    BY <1>4, <2>1 DEF FrameAt
  <2> QED
    BY <1>3, <1>4, <1>6, <2>2 DEF PlaysInOrder
<1>7. CASE left > 0
  <2>1. /\ offset < blocks_[b].len /\ blocks_[b].len \in Nat
        /\ Smaller(FrameSize, blocks_[b].len - offset)
             = Smaller(FrameSize, left)
    BY <1>1, <1>2, <1>5, <1>7 DEF Smaller
  <2>2. blocks_[b].base = start /\ start # Torn
    BY <1>1, <1>2, <1>5, <2>1 DEF Torn
  <2>3. /\ heard'.pos = start + offset
        /\ heard'.len = Smaller(FrameSize, left)
    BY <1>2, <1>4, <2>1, <2>2 DEF FrameAt
  <2> QED
    BY <1>3, <1>4, <1>7, <2>3 DEF PlaysInOrder
<1> QED
  BY <1>1, <1>2, <1>6, <1>7

\* A list of one is not empty.
LEMMA NotEmpty == ASSUME NEW s, Len(s) = 1 PROVE s # <<>>
  BY EmptySeq

\* A coroutine's step, when nothing has failed: the same block is played, or
\* the first one is there and the second is next.
LEMMA FetchBlocks ==
    ASSUME TypeInv, TaskInv, NEW i \in DOMAIN tasks, FetchStep(i),
           NEW k \in Int, k >= -1, BlocksInv(k), ~faulted', ~faulted,
           current # "finished"
    PROVE  /\ \/ BlocksInv(k)' /\ UNCHANGED current
              \/ k = -1 /\ BlocksInv(0)' /\ UNCHANGED current
              \/ /\ k >= 0 /\ BlocksInv(k)'
                 /\ current' = IF current = "preparing" THEN "playing"
                               ELSE current
           /\ tasks' = <<>> => k >= 0 /\ BlocksInv(k)' /\ back_buffer_ready_'
           /\ file_open /\ back_buffer_ready_ => back_buffer_ready_'
           /\ current' # current => back_buffer_ready_'
           /\ \/ UNCHANGED <<file_open, total_frames_>>
              \/ file_open' /\ ~file_open
                   /\ total_frames_' = file_size \div FrameSize
<1> DEFINE back == 1 - read_index_
<1>0. /\ 1 \in DOMAIN tasks /\ DOMAIN tasks = {1} /\ tasks # <<>>
      /\ tasks[1].dest \in {0, 1} /\ UNCHANGED file_size
      /\ back \in {0, 1} /\ read_index_ \in {0, 1} /\ back # read_index_
      /\ tasks[1].pc # "start" => tasks[1].dest = back
      /\ file_open \in BOOLEAN
  <2>1. 1 \in DOMAIN tasks /\ DOMAIN tasks = {1} /\ tasks[1].dest \in {0, 1}
    BY OnlyOne
  <2>2. UNCHANGED file_size
    BY FetchOne
  <2>3. back \in {0, 1} /\ read_index_ \in {0, 1} /\ back # read_index_
    BY BlockTypes
  <2>4. tasks[1].pc # "start" => tasks[1].dest = back
    BY <2>1 DEF TaskInv
  <2>5. tasks # <<>> /\ file_open \in BOOLEAN
    BY OnlyOne, NotEmpty DEF TypeInv, TypeOK
  <2> QED
    BY <2>1, <2>2, <2>3, <2>4, <2>5
<1>1. /\ \A n : Reached(n)' = Reached(n)
      /\ \A n : StretchLen(n)' = StretchLen(n)
  BY <1>0 DEF Reached, StretchLen
<1>2. /\ tasks[1].pc \in {"start", "reading", "arrived"}
      /\ tasks[1].pc = "start" => ~file_open \/ file_pos = Reached(k + 1)
      /\ tasks[1].pc = "reading" => file_open /\ file_pos = Reached(k + 1)
      /\ tasks[1].pc = "arrived" => /\ file_open
                                    /\ file_pos = Reached(k + 2)
                                    /\ Holds(blocks_[back], k + 1)
                                    /\ tasks[1].got = StretchLen(k + 1)
      /\ tasks[1].kind = "init1" <=> k = -1
      /\ tasks[1].kind = "init2" => k = 0
      /\ k >= 0 => file_open /\ Holds(blocks_[read_index_], k)
  BY <1>0 DEF BlocksInv
<1>3. ASSUME UNCHANGED read_index_,
             blocks_'[read_index_] = blocks_[read_index_]
      PROVE  k >= 0 => Holds(blocks_[read_index_], k)'
  BY <1>1, <1>2, <1>3 DEF Holds
<1>4. CASE OneBegins
  <2>1. /\ One(tasks', tasks[1].kind, "reading", back, 0)
        /\ blocks_'[read_index_] = blocks_[read_index_]
        /\ file_open' = TRUE
        /\ UNCHANGED <<read_index_, current, back_buffer_ready_>>
    BY <1>0, <1>4, BlockTypes DEF OneBegins
  <2>2. /\ file_pos' = Reached(k + 1)
        /\ \/ UNCHANGED <<file_open, total_frames_>>
           \/ ~file_open /\ total_frames_' = file_size \div FrameSize
    <3>1. CASE file_open /\ UNCHANGED <<file_pos, total_frames_>>
      BY <1>2, <1>4, <2>1, <3>1 DEF OneBegins
    <3>2. CASE /\ ~file_open /\ file_pos' = 0
               /\ total_frames_' = file_size \div FrameSize
      <4>1. k + 1 = 0
        BY <1>2, <3>2
      <4>2. Reached(0) = 0
        BY StretchFacts DEF Reached, Smaller
      <4> QED
        BY <3>2, <4>1, <4>2
    <3> QED
      BY <1>4, <2>1, <3>1, <3>2 DEF OneBegins
  <2>3. BlocksInv(k)'
    <3>1. /\ tasks' # <<>> /\ DOMAIN tasks' = {1}
          /\ tasks'[1].pc = "reading" /\ tasks'[1].kind = tasks[1].kind
      BY <2>1, NotEmpty DEF One
    <3>2. k >= 0 => Holds(blocks_[read_index_], k)'
      BY <1>3, <2>1
    <3> QED
      BY <1>1, <1>2, <2>1, <2>2, <3>1, <3>2 DEF BlocksInv
  <2>4. tasks' # <<>>
    BY <2>1, NotEmpty DEF One
  <2> QED
    BY <2>1, <2>2, <2>3, <2>4
<1>5. CASE OneReads
  <2> DEFINE got == Smaller(BufferSize, file_size - file_pos)
  <2>1. /\ One(tasks', tasks[1].kind, "arrived", back, got)
        /\ blocks_'[read_index_] = blocks_[read_index_]
        /\ blocks_'[back] = [base |-> file_pos, len |-> got]
        /\ file_pos' = file_pos + got /\ tasks[1].pc = "reading"
        /\ UNCHANGED <<file_open, read_index_, current, back_buffer_ready_,
                       total_frames_>>
    BY <1>0, <1>5, BlockTypes DEF OneReads
  <2>2. /\ got = StretchLen(k + 1)
        /\ file_pos + got = Reached(k + 1 + 1)
        /\ Holds([base |-> file_pos, len |-> got], k + 1)
    BY <1>2, <2>1, ReadStretch
  <2>3. k + 1 + 1 = k + 2
    OBVIOUS
  <2> HIDE DEF got
  <2>4. Holds(blocks_[back], k + 1)'
    BY <1>1, <2>1, <2>2 DEF Holds
  <2>5. BlocksInv(k)'
    <3>1. /\ tasks' # <<>> /\ DOMAIN tasks' = {1} /\ tasks'[1].got = got
          /\ tasks'[1].pc = "arrived" /\ tasks'[1].kind = tasks[1].kind
      BY <2>1, NotEmpty DEF One
    <3>2. k >= 0 => Holds(blocks_[read_index_], k)'
      BY <1>3, <2>1
    <3> QED
      BY <1>1, <1>2, <2>1, <2>2, <2>3, <2>4, <3>1, <3>2 DEF BlocksInv
  <2>6. tasks' # <<>>
    BY <2>1, NotEmpty DEF One
  <2> QED
    BY <2>1, <2>5, <2>6
<1>6. CASE OneEnds
  <2>1. /\ tasks[1].pc = "arrived" /\ back_buffer_ready_' = TRUE
        /\ UNCHANGED <<file_open, file_pos, total_frames_>>
        /\ blocks_'[read_index_] = blocks_[read_index_]
    BY <1>0, <1>6, BlockTypes DEF OneEnds
  <2>2. /\ blocks_'[back].len = StretchLen(k + 1)
        /\ blocks_'[back].len > 0 => blocks_'[back].base = (k + 1) * BufferSize
    <3>1. CASE tasks[1].got = 0
      <4>1. blocks_'[back] = Silence
        BY <1>0, <1>6, <2>1, <3>1, BlockTypes DEF OneEnds
      <4> QED
        BY <1>2, <2>1, <3>1, <4>1 DEF Silence
    <3>2. CASE tasks[1].got # 0
      <4>1. blocks_'[back] = blocks_[back]
        BY <1>6, <3>2 DEF OneEnds
      <4> QED
        BY <1>2, <2>1, <4>1 DEF Holds
    <3> QED
      BY <3>1, <3>2
  <2>3. CASE /\ tasks[1].kind = "init1" /\ read_index_' = back
             /\ One(tasks', "init2", "start", 0, 0) /\ UNCHANGED current
    <3>1. k = -1 /\ k + 1 = 0 /\ k + 2 = 0 + 1
      BY <1>2, <2>3
    <3>2. Holds(blocks_[read_index_], 0)'
      BY <1>1, <2>2, <2>3, <3>1 DEF Holds
    <3>3. file_open' /\ file_pos' = Reached(0 + 1)
      BY <1>2, <2>1, <3>1
    <3>4. /\ tasks' # <<>> /\ DOMAIN tasks' = {1}
          /\ tasks'[1].pc = "start" /\ tasks'[1].kind = "init2"
      BY <2>3, NotEmpty DEF One
    <3>5. BlocksInv(0)'
      BY <1>1, <3>2, <3>3, <3>4 DEF BlocksInv
    <3> QED
      BY <2>1, <2>3, <3>1, <3>4, <3>5
  <2>4. CASE /\ tasks[1].kind # "init1" /\ UNCHANGED read_index_
             /\ current' = IF current = "preparing" THEN "playing" ELSE current
             /\ tasks' = <<>>
    <3>1. k >= 0
      BY <1>2, <2>4
    <3>2. Holds(blocks_[read_index_], k)' /\ file_open'
      BY <1>2, <1>3, <2>1, <2>4, <3>1
    <3>3. Holds(blocks_[1 - read_index_], k + 1)'
      BY <1>1, <2>2, <2>4 DEF Holds
    <3>4. file_pos' = Reached(k + 2)'
      BY <1>1, <1>2, <2>1
    <3>5. BlocksInv(k)'
      BY <2>4, <3>2, <3>3, <3>4 DEF BlocksInv
    <3> QED
      BY <2>1, <2>4, <3>1, <3>5
  <2> QED
    BY <1>6, <2>3, <2>4 DEF OneEnds
<1>7. ~OneFails /\ ~OneRetries
  BY <1>2 DEF OneFails, OneRetries
<1> QED
  BY <1>4, <1>5, <1>6, <1>7, FetchOne

\* close() ran, and what was heard has the number and the round of its frame.
Closes ==
    /\ LastFrame
    /\ current' = IF setting.in_loop THEN "away" ELSE "finished"
    /\ UNCHANGED <<file_size, faulted>>
    /\ round' = 1 - round
    /\ processed_frames_' = 0
Hears == heard'.round = round /\ heard'.n = processed_frames_

\* A frame, when nothing has failed.
LEMMA PlayOrder ==
    ASSUME TypeInv, BoundsInv, TaskInv, NEW k \in Nat, BlocksInv(k), PlaysOn,
           processed_frames_ = k * PerBlock + in_buffer_processed_frames_
    PROVE  /\ PlaysInOrder' /\ Hears
           /\ \/ Closes
              \/ /\ \E m \in Nat : /\ BlocksInv(m)'
                                    /\ processed_frames_' = m * PerBlock
                                          + in_buffer_processed_frames_'
                 /\ UNCHANGED <<file_open, total_frames_, current, faulted,
                                back_buffer_ready_, file_size>>
                 /\ total_frames_ > 0 => processed_frames_' < total_frames_
<1> DEFINE j == in_buffer_processed_frames_
           back == 1 - read_index_
<1>0. /\ j \in Nat /\ j * FrameSize <= BufferSize
      /\ read_index_ \in {0, 1} /\ back \in {0, 1}
      /\ processed_frames_ \in Nat /\ total_frames_ \in Int
      /\ FrameSize \in Nat \ {0} /\ BufferSize \in Nat /\ file_size \in Nat
  <2>1. j \in Nat /\ j * FrameSize <= BufferSize
    BY DEF BoundsInv, ReadInBounds
  <2>2. read_index_ \in {0, 1} /\ back \in {0, 1}
    BY BlockTypes
  <2>3. FrameSize \in Nat \ {0} /\ BufferSize \in Nat /\ file_size \in Nat
    BY Numbers
  <2>4. file_size \div FrameSize \in Int
    BY <2>3
  <2>5. processed_frames_ \in Nat /\ total_frames_ \in Int
    BY <2>4, Numbers DEF TypeInv, TypeOK
  <2> QED
    BY <2>1, <2>2, <2>3, <2>5
<1>1. ASSUME NEW b, NEW frames, NEW pending, PlayFrom(b, frames, pending)
      PROVE  /\ Hear(FrameAt(blocks_[b], frames * FrameSize))
             /\ UNCHANGED file_size /\ Hears
             /\ \/ Closes
                \/ /\ processed_frames_' = processed_frames_ + 1
                   /\ read_index_' = b
                   /\ in_buffer_processed_frames_' = frames + 1
                   /\ tasks' = pending
                   /\ UNCHANGED <<blocks_, file_open, file_pos,
                                  total_frames_, current, faulted,
                                  back_buffer_ready_>>
                   /\ total_frames_ > 0
                         => processed_frames_ + 1 < total_frames_
  <2>0. Hear(FrameAt(blocks_[b], frames * FrameSize)) /\ Hears
    BY <1>1 DEF PlayFrom, Hear, Hears
  <2>1. CASE Close(pending) /\ LastFrame
    BY <1>1, <2>0, <2>1 DEF Close, Closes
  <2>2. CASE ~(Close(pending) /\ LastFrame)
    BY <1>0, <1>1, <2>0, <2>2 DEF PlayFrom, file, LastFrame
  <2> QED
    BY <2>1, <2>2
<1>2. k >= 0 /\ file_open /\ Holds(blocks_[read_index_], k)
  BY DEF BlocksInv
<1>3. PerBlock \in Nat \ {0} /\ k * PerBlock \in Nat
      /\ (k + 1) * PerBlock = k * PerBlock + PerBlock
  <2>1. PerBlock \in Nat \ {0}
    BY PerBlockFacts
  <2>2. k \in Int /\ PerBlock \in Nat
    BY <2>1
  <2>3. k * PerBlock \in Int /\ k * PerBlock >= 0
        /\ (k + 1) * PerBlock = k * PerBlock + PerBlock
    BY <1>2, <2>2, Multiples
  <2> QED
    BY <2>1, <2>3
<1>4. CASE PlayFrom(read_index_, j, tasks) /\ ~NeedsSwap
  <2>1. (j + 1) * FrameSize <= BufferSize
    <3>1. (j + 1) * FrameSize \in Int
      BY <1>0
    <3> QED
      BY <1>0, <1>4, <3>1 DEF NeedsSwap
  <2>2. PlaysInOrder'
    BY <1>0, <1>1, <1>2, <1>4, <2>1, FrameInOrder
  <2>0. Hears
    BY <1>1, <1>4
  <2>3. CASE Closes
    BY <2>0, <2>2, <2>3
  <2>4. CASE ~Closes
    <3>1. BlocksInv(k)'
      <4>1. /\ \A n : Reached(n)' = Reached(n)
            /\ \A n : StretchLen(n)' = StretchLen(n)
        BY <1>1, <1>4 DEF Reached, StretchLen
      <4>2. UNCHANGED <<blocks_, file_open, file_pos, tasks, read_index_>>
        BY <1>1, <1>4, <2>4
      <4> QED
        BY <4>1, <4>2 DEF BlocksInv, Holds
    <3>2. processed_frames_' = k * PerBlock + in_buffer_processed_frames_'
      BY <1>0, <1>1, <1>3, <1>4, <2>4
    <3> QED
      BY <1>0, <1>1, <1>4, <2>0, <2>2, <2>4, <3>1, <3>2
  <2> QED
    BY <2>3, <2>4
<1>5. CASE /\ NeedsSwap /\ tasks = <<>>
           /\ PlayFrom(back, 0, Append(tasks, Task("refill")))
  <2> DEFINE pending == Append(tasks, Task("refill"))
  <2>1. j = PerBlock
    BY <1>0, <1>5, PerBlockFacts DEF NeedsSwap
  <2>2. processed_frames_ = (k + 1) * PerBlock + 0 /\ k + 1 \in Nat
    BY <1>0, <1>3, <2>1
  <2>3. Holds(blocks_[back], k + 1) /\ file_pos = Reached(k + 2)
    BY <1>5 DEF BlocksInv
  <2>4. (0 + 1) * FrameSize <= BufferSize
    BY SizeAssumption
  <2>5. One(pending, "refill", "start", 0, 0)
    BY <1>5, Spawned
  <2>6. PlayFrom(back, 0, pending)
    BY <1>5
  <2> HIDE DEF pending
  <2>7. PlaysInOrder'
    <3>1. Hear(FrameAt(blocks_[back], 0 * FrameSize)) /\ UNCHANGED file_size
      BY <1>1, <2>6
    <3> HIDE DEF back
    <3> QED
      BY <1>0, <2>2, <2>3, <2>4, <3>1, FrameInOrder
  <2>0. Hears
    BY <1>1, <2>6
  <2>8. CASE Closes
    BY <2>0, <2>7, <2>8
  <2>9. CASE ~Closes
    <3>1. /\ UNCHANGED <<blocks_, file_open, file_pos, file_size>>
          /\ tasks' = pending /\ read_index_' = back
          /\ in_buffer_processed_frames_' = 1
          /\ processed_frames_' = processed_frames_ + 1
      BY <1>1, <2>6, <2>9
    <3>2. BlocksInv(k + 1)'
      <4>1. /\ \A n : Reached(n)' = Reached(n)
            /\ \A n : StretchLen(n)' = StretchLen(n)
        BY <3>1 DEF Reached, StretchLen
      <4>2. Holds(blocks_[read_index_], k + 1)'
        BY <2>3, <3>1, <4>1 DEF Holds
      <4>3. /\ tasks' # <<>> /\ DOMAIN tasks' = {1}
            /\ tasks'[1].pc = "start" /\ tasks'[1].kind = "refill"
        BY <2>5, <3>1, NotEmpty DEF One
      <4>4. k + 1 + 1 = k + 2 /\ k + 1 # -1
        OBVIOUS
      <4> QED
        BY <1>2, <2>3, <3>1, <4>1, <4>2, <4>3, <4>4 DEF BlocksInv
    <3>3. processed_frames_' = (k + 1) * PerBlock
                                 + in_buffer_processed_frames_'
      BY <1>0, <1>3, <2>2, <3>1
    <3>4. k + 1 \in Nat
      OBVIOUS
    <3> QED
      BY <1>0, <1>1, <2>0, <2>6, <2>7, <2>9, <3>1, <3>2, <3>3, <3>4
  <2> QED
    BY <2>8, <2>9
<1> QED
  BY <1>4, <1>5 DEF PlaysOn

\* Every step keeps the blocks in the order of the file.
LEMMA OrderStep ==
    TypeInv /\ BoundsInv /\ TaskInv /\ OrderInv /\ [Next]_vars => OrderInv'
<1> SUFFICES ASSUME TypeInv, BoundsInv, TaskInv, OrderInv, [Next]_vars,
                    ~faulted'
             PROVE  OrderInv'
  BY DEF OrderInv
<1>1. ASSUME NEW i \in DOMAIN tasks, FetchStep(i) PROVE OrderInv'
  <2>1. /\ UNCHANGED <<file_size, in_buffer_processed_frames_,
                       processed_frames_, heard, setting>>
        /\ ~faulted
    BY <1>1, FetchOne, FrameSteps
       DEF OneBegins, OneReads, OneFails, OneRetries, OneEnds
  <2>2. PlaysInOrder'
    BY <2>1 DEF OrderInv, PlaysInOrder, Position
  <2>3. CASE current = "finished"
    <3>1. current' = "finished"
      BY <1>1, <2>3, FetchOne
         DEF OneBegins, OneReads, OneFails, OneRetries, OneEnds
    <3> QED
      BY <2>2, <3>1 DEF OrderInv
  <2>4. CASE current = "preparing"
    <3>1. PICK k \in {-1, 0} : BlocksInv(k)
      BY <2>1, <2>4 DEF OrderInv
    <3>2. k \in Int /\ k >= -1
      OBVIOUS
    <3>3. /\ \/ BlocksInv(k)' /\ UNCHANGED current
             \/ k = -1 /\ BlocksInv(0)' /\ UNCHANGED current
             \/ k >= 0 /\ BlocksInv(k)' /\ current' = "playing"
          /\ current' # current => back_buffer_ready_'
          /\ \/ UNCHANGED <<file_open, total_frames_>>
             \/ /\ file_open' /\ ~file_open
                /\ total_frames_' = file_size \div FrameSize
      BY <1>1, <2>1, <2>4, <3>1, <3>2, FetchBlocks
    <3>4. /\ processed_frames_ = 0 /\ in_buffer_processed_frames_ = 0
          /\ heard.n = -1
          /\ file_open => total_frames_ = file_size \div FrameSize
      BY <2>1, <2>4 DEF OrderInv
    <3>5. file_open' => /\ total_frames_' = file_size' \div FrameSize
                        /\ total_frames_' > 0
                              => processed_frames_' < total_frames_'
      BY <2>1, <3>3, <3>4
    <3>6. CASE current' = "preparing"
      <4>1. \E m \in {-1, 0} : BlocksInv(m)'
        BY <3>3, <3>6
      <4> QED
        BY <2>1, <2>2, <3>4, <3>5, <3>6, <4>1 DEF OrderInv
    <3>7. CASE current' = "playing"
      <4>1. k = 0 /\ BlocksInv(k)' /\ back_buffer_ready_'
        BY <2>4, <3>2, <3>3, <3>7
      <4>2. 0 = 0 * PerBlock + 0
        BY PerBlockFacts
      <4>3. processed_frames_' = k * PerBlock + in_buffer_processed_frames_'
        BY <2>1, <3>4, <4>1, <4>2
      <4>4. k \in Nat
        BY <4>1
      <4> QED
        BY <2>2, <3>5, <3>7, <4>1, <4>3, <4>4 DEF OrderInv
    <3> QED
      BY <2>4, <3>3, <3>6, <3>7
  <2>5. CASE current = "playing"
    <3>1. PICK k \in Nat : /\ BlocksInv(k)
                           /\ processed_frames_ = k * PerBlock
                                 + in_buffer_processed_frames_
      BY <2>1, <2>5 DEF OrderInv
    <3>2. k \in Int /\ k >= -1 /\ k # -1 /\ file_open
      BY <3>1 DEF BlocksInv
    <3>3. /\ BlocksInv(k)' /\ current' = "playing"
          /\ back_buffer_ready_ => back_buffer_ready_'
          /\ UNCHANGED <<file_open, total_frames_>>
      BY <1>1, <2>1, <2>5, <3>1, <3>2, FetchBlocks
    <3>4. back_buffer_ready_'
      BY <2>1, <2>5, <3>3 DEF OrderInv
    <3>5. processed_frames_' = k * PerBlock + in_buffer_processed_frames_'
      BY <2>1, <3>1
    <3>6. file_open' => /\ total_frames_' = file_size' \div FrameSize
                        /\ total_frames_' > 0
                              => processed_frames_' < total_frames_'
      BY <2>1, <2>5, <3>2, <3>3 DEF OrderInv
    <3> QED
      BY <2>2, <3>3, <3>4, <3>5, <3>6 DEF OrderInv
  <2>6. CASE current = "away"
    <3>1. PICK k \in {-1, 0} : BlocksInv(k)
      BY <2>1, <2>6 DEF OrderInv
    <3>2. k \in Int /\ k >= -1
      OBVIOUS
    <3>3. /\ \/ BlocksInv(k)'
             \/ k = -1 /\ BlocksInv(0)'
          /\ current' = "away"
          /\ tasks' = <<>> => k >= 0 /\ BlocksInv(k)' /\ back_buffer_ready_'
          /\ \/ UNCHANGED <<file_open, total_frames_>>
             \/ /\ file_open' /\ ~file_open
                /\ total_frames_' = file_size \div FrameSize
      BY <1>1, <2>1, <2>6, <3>1, <3>2, FetchBlocks
    <3>4. /\ processed_frames_ = 0 /\ in_buffer_processed_frames_ = 0
          /\ file_open => total_frames_ = file_size \div FrameSize
      BY <2>1, <2>6 DEF OrderInv
    <3>5. file_open' => /\ total_frames_' = file_size' \div FrameSize
                        /\ total_frames_' > 0
                              => processed_frames_' < total_frames_'
      BY <2>1, <3>3, <3>4
    <3>6. \E m \in {-1, 0} :
             /\ BlocksInv(m)'
             /\ tasks' = <<>> => m = 0 /\ back_buffer_ready_'
      <4>1. CASE tasks' = <<>>
        <5>1. k = 0 /\ BlocksInv(k)' /\ back_buffer_ready_'
          BY <3>3, <4>1
        <5> QED
          BY <5>1
      <4>2. CASE tasks' # <<>>
        BY <3>3, <4>2
      <4> QED
        BY <4>1, <4>2
    <3> QED
      BY <2>1, <2>2, <3>3, <3>4, <3>5, <3>6 DEF OrderInv
  <2> QED
    BY <2>3, <2>4, <2>5, <2>6 DEF TaskInv
<1>2. ASSUME current = "playing", ~faulted
      PROVE  ~EndOfStream /\ ~Underrun
  BY <1>2, NoGap
<1>3. CASE EndOfStream \/ Underrun
  BY <1>2, <1>3 DEF EndOfStream, Underrun, Close
<1>4. CASE PlaysOn
  <2>1. current = "playing" /\ ~faulted
    <3>1. \A b, frames, pending :
            PlayFrom(b, frames, pending) => UNCHANGED faulted
      BY DEF PlayFrom, Close
    <3> QED
      BY <1>4, <3>1 DEF PlaysOn
  <2>2. PICK k \in Nat : /\ BlocksInv(k)
                         /\ processed_frames_ = k * PerBlock
                               + in_buffer_processed_frames_
    BY <2>1 DEF OrderInv
  <2>3. /\ PlaysInOrder'
        /\ \/ Closes
           \/ /\ \E m \in Nat : /\ BlocksInv(m)'
                                 /\ processed_frames_' = m * PerBlock
                                       + in_buffer_processed_frames_'
              /\ UNCHANGED <<file_open, total_frames_, current, faulted,
                             back_buffer_ready_, file_size>>
              /\ total_frames_ > 0 => processed_frames_' < total_frames_
    BY <1>4, <2>2, PlayOrder
  <2>4. CASE Closes
    <3>1. CASE ~setting.in_loop
      BY <2>3, <2>4, <3>1 DEF OrderInv, Closes
    <3>2. CASE setting.in_loop
      <4>1. /\ Close(tasks) /\ tasks = <<>>
        <5>1. ~NeedsSwap
          BY <2>1, <2>4, <3>2, SwapIsNotLast DEF Closes
        <5>2. /\ tasks = <<>>
              /\ PlayFrom(read_index_, in_buffer_processed_frames_, tasks)
          BY <1>4, <3>2, <5>1 DEF PlaysOn
        <5>3. processed_frames_ \in Int /\ total_frames_ \in Int
          <6>1. file_size \div FrameSize \in Int /\ MaxFrames \in Nat
            BY Numbers
          <6> QED
            BY <6>1 DEF TypeInv, TypeOK
        <5> QED
          BY <2>4, <5>2, <5>3 DEF PlayFrom, Closes, LastFrame
      <4>2. /\ current' = "away" /\ One(tasks', "init1", "start", 0, 0)
            /\ ~file_open' /\ processed_frames_' = 0
            /\ in_buffer_processed_frames_' = 0
        BY <2>1, <3>2, <4>1, CloseInLoop, FrameSteps DEF TaskInv
      <4>3. /\ tasks' # <<>> /\ DOMAIN tasks' = {1}
            /\ tasks'[1].pc = "start" /\ tasks'[1].kind = "init1"
        BY <4>2, NotEmpty DEF One
      <4>4. BlocksInv(-1)'
        BY <4>2, <4>3 DEF BlocksInv
      <4> QED
        BY <2>3, <4>2, <4>3, <4>4 DEF OrderInv
    <3> QED
      BY <3>1, <3>2
  <2>5. CASE ~Closes
    <3>1. /\ UNCHANGED <<file_open, total_frames_, current, file_size,
                         back_buffer_ready_>>
          /\ total_frames_ > 0 => processed_frames_' < total_frames_
      BY <2>3, <2>5
    <3>2. /\ back_buffer_ready_
          /\ file_open => total_frames_ = file_size \div FrameSize
      BY <2>1 DEF OrderInv
    <3>3. \E m \in Nat : /\ BlocksInv(m)'
                         /\ processed_frames_' = m * PerBlock
                               + in_buffer_processed_frames_'
      BY <2>3, <2>5
    <3>4. file_open' => /\ total_frames_' = file_size' \div FrameSize
                        /\ total_frames_' > 0
                              => processed_frames_' < total_frames_'
      BY <3>1, <3>2
    <3>5. back_buffer_ready_' /\ current' = "playing"
      BY <2>1, <3>1, <3>2
    <3> QED
      BY <2>3, <3>3, <3>4, <3>5 DEF OrderInv
  <2> QED
    BY <2>4, <2>5
<1>5. CASE UNCHANGED vars
  BY <1>5 DEF vars, buffer, file, node, OrderInv, PlaysInOrder, BlocksInv,
              Holds, Reached, StretchLen, Position
<1>6. CASE Reenter /\ tasks = <<>>
  <2>1. /\ UNCHANGED <<read_index_, back_buffer_ready_, blocks_, file_open,
                       file_pos, file_size, processed_frames_, total_frames_,
                       in_buffer_processed_frames_, tasks, heard, faulted,
                       setting>>
        /\ current = "away" /\ current' = "playing" /\ ~faulted
    BY <1>6, FrameSteps DEF Reenter, buffer, file
  <2>2. PICK k \in {-1, 0} : BlocksInv(k) /\ k = 0 /\ back_buffer_ready_
    BY <1>6, <2>1 DEF OrderInv
  <2>3. BlocksInv(0)'
    <3>1. BlocksInv(0)
      BY <2>2
    <3> QED
      BY <2>1, <3>1 DEF BlocksInv, Holds, Reached, StretchLen
  <2>4. processed_frames_' = 0 * PerBlock + in_buffer_processed_frames_'
    <3>1. 0 = 0 * PerBlock + 0
      BY PerBlockFacts
    <3> QED
      BY <2>1, <3>1 DEF OrderInv
  <2>5. PlaysInOrder'
    BY <2>1 DEF OrderInv, PlaysInOrder, Position
  <2>6. file_open' => /\ total_frames_' = file_size' \div FrameSize
                      /\ total_frames_' > 0
                            => processed_frames_' < total_frames_'
    BY <2>1 DEF OrderInv
  <2> QED
    BY <2>1, <2>2, <2>3, <2>4, <2>5, <2>6 DEF OrderInv
<1> QED
  BY <1>1, <1>3, <1>4, <1>5, <1>6, FrameSteps

\* No block is there yet.
LEMMA OrderStart == Init => OrderInv
<1> SUFFICES ASSUME Init PROVE OrderInv
  OBVIOUS
<1>1. /\ DOMAIN tasks = {1} /\ tasks[1] = Task("init1") /\ Len(tasks) = 1
      /\ ~file_open
  BY DEF Init
<1>2. tasks # <<>>
  BY <1>1, NotEmpty
<1>3. BlocksInv(-1)
  BY <1>1, <1>2 DEF BlocksInv, Task
<1>4. PlaysInOrder
  BY DEF Init, PlaysInOrder
<1> QED
  BY <1>1, <1>3, <1>4 DEF Init, OrderInv

\* What was heard last, in a loop: the frame before the one to come, or one of
\* the round before.
HeardInv ==
    setting.in_loop =>
        /\ current = "playing" /\ processed_frames_ > 0
              => heard.n = processed_frames_ - 1
        /\ processed_frames_ = 0 => heard.round # round \/ heard.len = 0

\* A frame lies after the frame before it.
LEMMA PositionGrows ==
    ASSUME NEW n \in Nat \ {0}
    PROVE  Position(n - 1) < Position(n)
<1> DEFINE m == n - 1
           k == m \div PerBlock
           j == m % PerBlock
<1>0. PerBlock \in Nat \ {0} /\ BufferSize \in Nat /\ FrameSize \in Nat \ {0}
      /\ PerBlock * FrameSize <= BufferSize
  <2>1. PerBlock \in Nat \ {0}
    BY PerBlockFacts
  <2> QED
    BY <2>1, Whole, SizeAssumption DEF PerBlock
<1>1. /\ k \in Nat /\ j \in 0..(PerBlock - 1) /\ m = k * PerBlock + j
  <2>1. m \in Nat
    OBVIOUS
  <2> HIDE DEF m
  <2> QED
    BY <1>0, <2>1
<1> HIDE DEF k, j
<1>2. Position(n - 1) = k * BufferSize + j * FrameSize
  BY <1>1, PositionAt
<1>3. /\ k * BufferSize \in Int /\ j * FrameSize \in Int
      /\ (k + 1) * BufferSize = k * BufferSize + BufferSize
      /\ (j + 1) * FrameSize = j * FrameSize + FrameSize
      /\ k * PerBlock \in Int
      /\ (k + 1) * PerBlock = k * PerBlock + PerBlock
  BY <1>0, <1>1, Multiples
<1>4. CASE j + 1 < PerBlock
  <2>1. n = k * PerBlock + (j + 1) /\ j + 1 \in 0..(PerBlock - 1)
    BY <1>0, <1>1, <1>3, <1>4
  <2>2. Position(n) = k * BufferSize + (j + 1) * FrameSize
    BY <1>1, <2>1, PositionAt
  <2> QED
    BY <1>0, <1>2, <1>3, <2>2
<1>5. CASE j + 1 = PerBlock
  <2>1. n = (k + 1) * PerBlock + 0 /\ 0 \in 0..(PerBlock - 1) /\ k + 1 \in Nat
    BY <1>0, <1>1, <1>3, <1>5
  <2>2. Position(n) = (k + 1) * BufferSize + 0 * FrameSize
    BY <2>1, PositionAt
  <2>3. 0 * FrameSize = 0
    BY <1>0
  <2>4. j * FrameSize + FrameSize <= BufferSize
    BY <1>0, <1>3, <1>5
  <2> QED
    BY <1>0, <1>2, <1>3, <2>2, <2>3, <2>4
<1> QED
  BY <1>0, <1>1, <1>4, <1>5

\* In a steady loop every step keeps it, and plays on.
LEMMA HeardStep ==
    ASSUME TypeInv, BoundsInv, TaskInv, OrderInv, HeardInv, setting.in_loop,
           [Next]_vars
    PROVE  /\ HeardInv'
           /\ heard' # heard /\ heard'.round = heard.round
                /\ heard.len > 0 /\ heard'.len > 0
                => heard'.pos > heard.pos
<1>0. /\ UNCHANGED setting /\ ~faulted /\ setting.pace # "any"
      /\ round \in {0, 1} /\ processed_frames_ \in Nat
      /\ total_frames_ \in Int
      /\ heard.n \in Int /\ heard.len \in Nat
  <2>1. file_size \div FrameSize \in Int /\ MaxFrames \in Nat
    BY Numbers
  <2> QED
    BY <2>1, FrameSteps DEF TaskInv, InTime, TypeInv, TypeOK
<1>1. ASSUME NEW i \in DOMAIN tasks, FetchStep(i)
      PROVE  HeardInv' /\ UNCHANGED heard
  <2>1. /\ UNCHANGED <<processed_frames_, round, heard>>
        /\ current' = current \/ current = "preparing"
    BY <1>1, FetchOne DEF OneBegins, OneReads, OneFails, OneRetries, OneEnds
  <2>2. current = "preparing" => processed_frames_ = 0
    BY <1>0 DEF OrderInv
  <2> QED
    BY <1>0, <2>1, <2>2 DEF HeardInv
<1>2. ~EndOfStream /\ ~Underrun
  BY <1>0, NoGap DEF EndOfStream, Underrun
<1>3. CASE PlaysOn
  <2>1. current = "playing"
    BY <1>3 DEF PlaysOn
  <2>2. PICK k \in Nat : /\ BlocksInv(k)
                         /\ processed_frames_ = k * PerBlock
                               + in_buffer_processed_frames_
    BY <1>0, <2>1 DEF OrderInv
  <2>3. /\ PlaysInOrder' /\ Hears /\ ~faulted'
        /\ Closes \/ processed_frames_' = processed_frames_ + 1
    <3>1. PlaysInOrder' /\ Hears
      BY <1>3, <2>2, PlayOrder
    <3>2. ASSUME NEW b, NEW frames, NEW pending, PlayFrom(b, frames, pending)
          PROVE  /\ UNCHANGED faulted
                 /\ Closes \/ processed_frames_' = processed_frames_ + 1
      <4>1. CASE LastFrame /\ Close(pending)
        BY <4>1 DEF Close, Closes
      <4>2. CASE ~(LastFrame /\ Close(pending))
        BY <3>2, <4>2 DEF PlayFrom, LastFrame
      <4> QED
        BY <4>1, <4>2
    <3> QED
      BY <1>0, <1>3, <3>1, <3>2 DEF PlaysOn
  <2>4. HeardInv'
    <3>1. CASE Closes
      BY <1>0, <2>3, <3>1 DEF HeardInv, Closes, Hears
    <3>2. CASE processed_frames_' = processed_frames_ + 1
      BY <1>0, <2>3, <3>2 DEF HeardInv, Hears
    <3> QED
      BY <2>3, <3>1, <3>2
  <2>5. ASSUME heard'.round = heard.round, heard.len > 0, heard'.len > 0
        PROVE  heard'.pos > heard.pos
    <3>1. processed_frames_ > 0 /\ heard.n = processed_frames_ - 1
      BY <1>0, <2>1, <2>3, <2>5 DEF HeardInv, Hears
    <3>2. heard.pos = Position(processed_frames_ - 1)
      <4>1. PlaysInOrder /\ heard.n >= 0
        BY <1>0, <3>1 DEF OrderInv
      <4> QED
        BY <1>0, <2>5, <3>1, <4>1 DEF PlaysInOrder
    <3>3. heard'.pos = Position(processed_frames_)
      <4>1. heard'.n = processed_frames_ /\ ~faulted' /\ setting' = setting
        BY <1>0, <2>3 DEF Hears
      <4> QED
        BY <1>0, <2>3, <2>5, <4>1 DEF PlaysInOrder
    <3>4. Position(processed_frames_ - 1) < Position(processed_frames_)
      BY <1>0, <3>1, PositionGrows
    <3> QED
      BY <3>2, <3>3, <3>4
  <2> QED
    BY <2>4, <2>5
<1>4. CASE Reenter
  <2>1. UNCHANGED <<processed_frames_, round, heard>> /\ current = "away"
    BY <1>4 DEF Reenter
  <2>2. processed_frames_ = 0
    BY <1>0, <2>1 DEF OrderInv
  <2> QED
    BY <1>0, <2>1, <2>2 DEF HeardInv
<1>5. CASE UNCHANGED vars
  BY <1>5 DEF vars, node, HeardInv
<1> QED
  BY <1>1, <1>2, <1>3, <1>4, <1>5, FrameSteps

-----------------------------------------------------------------------------
(* What holds of every node outside loops and in steady loops, for every   *)
(* frame and block size and every file.                                    *)

PlayerInv == TypeInv /\ BoundsInv /\ TaskInv /\ OrderInv

LEMMA PlayerStays == Spec /\ InTime => []PlayerInv
<1>1. Init /\ InTime => PlayerInv
  <2>1. Init => BoundsInv
    BY SizeAssumption DEF Init, BoundsInv, ReadInBounds
  <2> QED
    BY <2>1, OrderStart, TaskStart, TypeStart DEF PlayerInv
<1>2. PlayerInv /\ [Next]_vars => PlayerInv'
  BY BoundsStep, OrderStep, TaskStep, TypeStep DEF PlayerInv
<1> QED
  BY <1>1, <1>2, PTL DEF Spec

\* The other nodes are not what these are about.
LEMMA LateStays == Spec /\ ~InTime => []~InTime
<1>1. ~InTime /\ [Next]_vars => ~InTime'
  BY DEF Next, vars, InTime, Steady
<1> QED
  BY <1>1, PTL DEF Spec

\* Reads that fail or are given up leave no mixture behind: once a coroutine is
\* done the block it was for is whole, or silent (reads that outlast their
\* block excepted).  In a steady loop close() finds no read it could abort.
THEOREM GivenUpIsSilent == Spec => []NoResidue
<1>1. PlayerInv => NoResidue
  BY DEF PlayerInv, TaskInv, NoResidue
<1>2. Spec /\ InTime => []NoResidue
  BY <1>1, PlayerStays, PTL
<1>3. ~InTime => NoResidue
  BY DEF NoResidue
<1>4. Spec /\ ~InTime => []NoResidue
  BY <1>3, LateStays, PTL
<1> QED
  BY <1>2, <1>4

\* A file is never played backwards, whichever opens and reads fail and however
\* often they are tried again, as long as none outlasts the block it is for;
\* in a steady loop every round starts over and goes on in the file.
THEOREM PlaysForward == Spec => NeverReplays
<1> DEFINE Forward == InTime /\ heard' # heard
                        /\ heard'.round = heard.round
                        /\ heard.len > 0 /\ heard'.len > 0
                        => heard'.pos > heard.pos
           Inv == /\ ~setting.in_loop => ForwardInv
                  /\ HeardInv
<1>1. ASSUME PlayerInv, Inv, [Next]_vars PROVE Inv' /\ [Forward]_vars
  <2>1. UNCHANGED setting
    BY <1>1, FrameSteps DEF PlayerInv
  <2>2. CASE setting.in_loop
    BY <1>1, <2>1, <2>2, HeardStep DEF PlayerInv
  <2>3. CASE ~setting.in_loop
    BY <1>1, <2>1, <2>3, ForwardStep DEF PlayerInv, HeardInv
  <2> QED
    BY <2>2, <2>3
<1>2. Init => Inv
  <2>1. Init => HeardInv
    BY DEF Init, HeardInv
  <2> QED
    BY <2>1, ForwardStart
<1> HIDE DEF Inv
<1>3. Spec /\ InTime => [][Forward]_vars
  BY <1>1, <1>2, PlayerStays, PTL DEF Spec
<1>4. ~InTime => [Forward]_vars
  OBVIOUS
<1>5. Spec /\ ~InTime => [][Forward]_vars
  BY <1>4, LateStays, PTL
<1> QED
  BY <1>3, <1>5 DEF NeverReplays

\* Unless a read fails or is later than its block, every frame, in every round
\* of a steady loop too, is the one of the file that its number says, and only
\* what lies past the end of the file is silent.
THEOREM PlaysTheFile == Spec /\ Steady => []PlaysInOrder
<1>1. PlayerInv => PlaysInOrder
  BY DEF PlayerInv, OrderInv, PlaysInOrder
<1>2. Spec /\ InTime => []PlaysInOrder
  BY <1>1, PlayerStays, PTL
<1>3. setting.pace = "any" => PlaysInOrder
  BY DEF PlaysInOrder
<1>4. setting.pace = "any" /\ [Next]_vars => (setting.pace = "any")'
  BY DEF Next, vars
<1>5. Spec /\ setting.pace = "any" => []PlaysInOrder
  BY <1>3, <1>4, PTL DEF Spec
<1> QED
  BY <1>2, <1>5 DEF InTime
=============================================================================
