----------------------------- MODULE AssetStore ------------------------------
(***************************************************************************)
(* One audio file on the server's disk, and the FileInputNodes (of one or  *)
(* of several sessions) that ensure it exists before they play it:         *)
(* ensure_file_exists, download_from_s3, the FileSink with its             *)
(* PartialFileGuard, and HttpStreamer::execute.  All of them use the same  *)
(* path and nothing locks it.                                              *)
(*                                                                         *)
(* The object is a sequence of Size pieces.  A path names a file or        *)
(* nothing; a file that was removed lives on for who holds it open.        *)
(***************************************************************************)
EXTENDS Integers, FiniteSets

CONSTANTS
    Nodes,          \* the FileInputNodes that want this file
    Nothing,        \* the path names no file
    Size            \* pieces the S3 object arrives in

ASSUME NodesAssumption == Nothing \notin Nodes
ASSUME SizeAssumption == Size \in Nat

VARIABLES
    path,           \* the file at file_path_, named after who created it
    content,        \* the pieces each file holds
    opener,         \* history: who opened (and truncated) each file last
    pc,             \* where each node is
    handle,         \* the file its sink writes to
    written,        \* total_written
    announced       \* did the response carry a Content-Length?

disk == <<path, content, opener>>
vars == <<disk, pc, handle, written, announced>>

PCs == {"check", "open", "request", "transfer", "ready", "failed"}
\* A sink is open and its guard armed.
Guarded == {"request", "transfer"}
Whole == 1..Size

Init ==
    /\ path = Nothing
    /\ content = [f \in Nodes |-> {}]
    /\ opener = [f \in Nodes |-> f]
    /\ pc = [d \in Nodes |-> "check"]
    /\ handle = [d \in Nodes |-> Nothing]
    /\ written = [d \in Nodes |-> 0]
    /\ announced = [d \in Nodes |-> FALSE]

Goto(d, label) == pc' = [pc EXCEPT ![d] = label]

\* ensure_file_exists: whatever is at the path will do.
ensure_file_exists(d) ==
    /\ pc[d] = "check"
    /\ Goto(d, IF path # Nothing THEN "ready" ELSE "open")
    /\ UNCHANGED <<disk, handle, written, announced>>

\* FileSink::Prepare: create or truncate, then arm the guard.
Prepare(d) ==
    /\ pc[d] = "open"
    /\ LET file == IF path = Nothing THEN d ELSE path
       IN  /\ path' = file
           /\ content' = [content EXCEPT ![file] = {}]
           /\ opener' = [opener EXCEPT ![file] = d]
           /\ handle' = [handle EXCEPT ![d] = file]
    /\ Goto(d, "request")
    /\ UNCHANGED <<written, announced>>

\* No S3 credentials, or the file cannot be created: nothing is guarded yet.
PrepareFails(d) ==
    /\ pc[d] = "open"
    /\ Goto(d, "failed")
    /\ UNCHANGED <<disk, handle, written, announced>>

\* connect, the request and a 200 header; the pieces that came along with the
\* header are drained into the sink.
Respond(d) ==
    /\ pc[d] = "request"
    /\ \E k \in 0..Size :
          /\ written' = [written EXCEPT ![d] = k]
          /\ content' = [content EXCEPT ![handle[d]] = @ \cup 1..k]
    /\ \E known \in BOOLEAN : announced' = [announced EXCEPT ![d] = known]
    /\ Goto(d, "transfer")
    /\ UNCHANGED <<path, opener, handle>>

\* Mutant: one piece too many.
TransferTooFar(d) ==
    /\ pc[d] = "transfer"
    /\ written[d] <= Size
    /\ written' = [written EXCEPT ![d] = @ + 1]
    /\ content' = [content EXCEPT ![handle[d]] = @ \cup {written[d] + 1}]
    /\ UNCHANGED <<path, opener, pc, handle, announced>>

\* transfer_stream_data: one read and the write of what it brought.
Transfer(d) ==
    /\ pc[d] = "transfer"
    /\ written[d] < Size
    /\ written' = [written EXCEPT ![d] = @ + 1]
    /\ content' = [content EXCEPT ![handle[d]] = @ \cup {written[d] + 1}]
    /\ UNCHANGED <<path, opener, pc, handle, announced>>

\* The loop ends at the announced size, or at the end of the stream when none
\* was announced; then sink.Commit().
Commit(d) ==
    /\ pc[d] = "transfer"
    /\ announced[d] => written[d] = Size
    /\ Goto(d, "ready")
    /\ UNCHANGED <<disk, handle, written, announced>>

\* Mutant: the partial file stays.
FailUnguarded(d) ==
    /\ pc[d] \in Guarded
    /\ Goto(d, "failed")
    /\ UNCHANGED <<disk, handle, written, announced>>

\* An error of the network, of the server or of the disk, or the stream ends
\* short: ~FileSink closes the file, ~PartialFileGuard removes the path.
Fail(d) ==
    /\ pc[d] \in Guarded
    /\ path' = Nothing
    /\ Goto(d, "failed")
    /\ UNCHANGED <<content, opener, handle, written, announced>>

Next ==
    \E d \in Nodes :
        \/ ensure_file_exists(d)
        \/ Prepare(d)
        \/ PrepareFails(d)
        \/ Respond(d)
        \/ Transfer(d)
        \/ Commit(d)
        \/ Fail(d)

Spec == Init /\ [][Next]_vars

-----------------------------------------------------------------------------
\* Every variable has its type.
TypeOK ==
    /\ path \in Nodes \cup {Nothing}
    /\ content \in [Nodes -> SUBSET Whole]
    /\ opener \in [Nodes -> Nodes]
    /\ pc \in [Nodes -> PCs]
    /\ handle \in [Nodes -> Nodes \cup {Nothing}]
    /\ written \in [Nodes -> 0..Size]
    /\ announced \in [Nodes -> BOOLEAN]

\* What the guard is for: once no download is under way, the file left at the
\* path was committed by whoever truncated it last, and is whole if the server
\* said how long it is.  Downloads of one file may overlap, fail and remove or
\* truncate each other's work in any order.
AtRestWhole ==
    path # Nothing /\ (\A d \in Nodes : pc[d] \notin Guarded) =>
        /\ pc[opener[path]] = "ready"
        /\ announced[opener[path]] => content[path] = Whole
=============================================================================
