----------------------------- MODULE MCFileInput -----------------------------
(* FileInput for TLC: blocks of two frames and half a frame, files of up to *)
(* two blocks and a half.                                                   *)
EXTENDS FileInput

\* A node outside loops, a file of any size, and a disk that fails.
Failing == [in_loop : {FALSE}, size : 0..13, faults : {TRUE},
            pace : {"block"}]
\* A node in a loop and a disk of any speed.
Slow == [in_loop : {TRUE}, size : {6}, faults : {FALSE}, pace : {"any"}]
\* A node in a loop and a disk faster than a tick.
Fast == [in_loop : {TRUE}, size : {6}, faults : {FALSE}, pace : {"tick"}]

\* The same, with files that do not end on the frame that swaps the blocks.
SteadyLoop == [in_loop : {TRUE}, size : {1, 3, 4, 5, 8, 9, 12, 13},
               faults : {FALSE}, pace : {"tick"}]
\* A node outside loops and a disk of any speed.
Late == [in_loop : {FALSE}, size : {6, 13}, faults : {FALSE}, pace : {"any"}]

EverySpeed == Failing \cup Slow \cup SteadyLoop \cup Late
=============================================================================
