------------------------------ MODULE GraphExec ------------------------------
(***************************************************************************)
(* From the edges of a request to the last frame: parse_graph wires the    *)
(* nodes, AudioExecutor::prepare fetches the files, fills the buffers and  *)
(* flags the loops, and get_next_frame walks the graph, a node at a time.  *)
(* The edges arrive in any order and number, so the module explores every  *)
(* graph on its nodes.                                                     *)
(*                                                                         *)
(* A FileInputNode is its frame counter and the state of its buffers       *)
(* (FileInput has the detail): "filled" plays, "refilling" and "reset" may *)
(* give silence or an underrun.                                            *)
(***************************************************************************)
EXTENDS Integers, Sequences, FiniteSets

CONSTANTS
    Nodes,          \* node_map
    None,           \* nullptr
    Kind,           \* kind() of each node
    Length,         \* frames of each file, of each delay
    MaxInputs,      \* bound on the edges from files to one mixer
    MaxFrames       \* processed_frames_ is counted up to here

Kinds == {"FileInput", "Mixer", "Delay", "Clients", "FileOptions"}
Audio == {"FileInput", "Mixer", "Delay"}        \* process_frame is overridden

ASSUME NodesAssumption == IsFiniteSet(Nodes) /\ None \notin Nodes
ASSUME KindAssumption ==
    /\ Kind \in [Nodes -> Kinds]
    /\ \A a, b \in Nodes : Kind[a] = "Clients" /\ Kind[b] = "Clients" => a = b
ASSUME LengthAssumption == /\ MaxFrames \in Nat
                           /\ Length \in [Nodes -> 1..MaxFrames]
ASSUME InputsAssumption == MaxInputs \in Nat

VARIABLES
    phase,              \* how far the request has come
    start_node,
    target_,            \* next() of each node
    inputs_,            \* of each mixer
    fetching,           \* file nodes whose ensure_file_exists is under way
    ch,                 \* results in the channel of await_all_dynamic
    received, final_res,            \* its locals
    missing,            \* history: files that could not be fetched
    is_in_loop_,        \* the nodes that are flagged
    total_frames_, processed_frames_,
    buffers,            \* of each file node
    current_node_,
    disturbed,          \* history: files that underran or failed to open
    cut                 \* history: other files, closed before their end

wiring == <<start_node, target_, inputs_>>
fetch == <<fetching, ch, received, final_res, missing>>
play == <<total_frames_, processed_frames_, buffers, current_node_,
          disturbed, cut>>
vars == <<phase, wiring, fetch, is_in_loop_, play>>

Phases == {"parsing", "rejected", "fetching", "failed", "prepared",
           "playing", "over"}
Files == {n \in Nodes : Kind[n] = "FileInput"}
Smaller(a, b) == IF a < b THEN a ELSE b

\* parse_nodes and set_start_node have succeeded.  The constructor of a delay
\* rounds its length down to frames: one shorter than a frame has none.
Init ==
    /\ phase = "parsing"
    /\ start_node \in Nodes
    /\ target_ = [n \in Nodes |-> None]
    /\ inputs_ = [n \in Nodes |-> <<>>]
    /\ fetching = {}
    /\ ch = <<>>
    /\ received = 0
    /\ final_res = "ok"
    /\ missing = {}
    /\ is_in_loop_ = {}
    /\ \E short \in SUBSET {n \in Nodes : Kind[n] = "Delay"} :
          total_frames_ = [n \in Nodes |->
                             IF Kind[n] = "Delay" /\ n \notin short
                             THEN Length[n] ELSE 0]
    /\ processed_frames_ = [n \in Nodes |-> 0]
    /\ buffers = [n \in Nodes |-> "reset"]
    /\ current_node_ = start_node
    /\ disturbed = {}
    /\ cut = {}

-----------------------------------------------------------------------------
(* parse_edges.                                                            *)

\* What connect_input of each kind of target accepts; a clients node is never
\* a source.
Accepts(source, target) ==
    /\ Kind[source] # "Clients"
    /\ \/ Kind[target] = "FileInput" /\ Kind[source] \in {"Delay", "FileOptions"}
       \/ Kind[target] = "Mixer" /\ Kind[source] \in {"Delay", "FileInput"}
       \/ Kind[target] \in {"Delay", "Clients"}

\* Mutant: a clients node is wired like any other target.
WiresAll(source, target) ==
    /\ Accepts(source, target)
    /\ Kind[source] # "FileOptions" \/ Kind[target] # "FileInput"

\* wire_standard: not for options, which are side-loaded, nor by a clients
\* node, which accepts every edge and ignores it.
Wires(source, target) ==
    /\ Accepts(source, target)
    /\ Kind[target] # "Clients"
    /\ Kind[source] # "FileOptions" \/ Kind[target] # "FileInput"

connect_input(source, target) ==
    /\ phase = "parsing"
    /\ Accepts(source, target)
    /\ target_' = IF Wires(source, target)
                  THEN [target_ EXCEPT ![source] = target] ELSE target_
    /\ IF Kind[target] = "Mixer" /\ Kind[source] = "FileInput"
       THEN /\ Len(inputs_[target]) < MaxInputs
            /\ inputs_' = [inputs_ EXCEPT ![target] = Append(@, source)]
       ELSE UNCHANGED inputs_
    /\ UNCHANGED <<phase, start_node, fetch, is_in_loop_, play>>

\* A malformed edge, one that names no node, or one that is not accepted.
ParseFails ==
    /\ phase = "parsing"
    /\ phase' = "rejected"
    /\ UNCHANGED <<wiring, fetch, is_in_loop_, play>>

-----------------------------------------------------------------------------
(* AudioExecutor::prepare.                                                 *)

\* await_all_dynamic spawns a coroutine for each file.
ensure_assets_exist ==
    /\ phase = "parsing"
    /\ phase' = "fetching"
    /\ fetching' = Files
    /\ UNCHANGED <<wiring, ch, received, final_res, missing, is_in_loop_, play>>

\* ensure_file_exists returns or throws; its result is sent to the channel.
EnsureEnds(f) ==
    /\ f \in fetching
    /\ fetching' = fetching \ {f}
    /\ \E res \in {"ok", "error"} :
          /\ ch' = Append(ch, res)
          /\ missing' = IF res = "error" THEN missing \cup {f} ELSE missing
    /\ UNCHANGED <<phase, wiring, received, final_res, is_in_loop_, play>>

\* Mutant: the loop is left at the first error.
ReceiveFailFast ==
    /\ phase = "fetching"
    /\ ch # <<>>
    /\ ch' = Tail(ch)
    /\ received' = received + 1
    /\ final_res' = Head(ch)
    /\ phase' = IF Head(ch) = "error" THEN "failed" ELSE phase
    /\ UNCHANGED <<fetching, missing, wiring, is_in_loop_, play>>

\* "Record the first error encountered, but keep waiting"
Receive ==
    /\ phase = "fetching"
    /\ ch # <<>>
    /\ ch' = Tail(ch)
    /\ received' = received + 1
    /\ final_res' = IF final_res = "ok" THEN Head(ch) ELSE final_res
    /\ UNCHANGED <<phase, fetching, missing, wiring, is_in_loop_, play>>

FetchFails ==
    /\ phase = "fetching"
    /\ received = Cardinality(Files)
    /\ final_res = "error"
    /\ phase' = "failed"
    /\ UNCHANGED <<wiring, fetch, is_in_loop_, play>>

\* What a node plays from.
Sources(n) ==
    CASE Kind[n] = "FileInput" -> {n}
      [] Kind[n] = "Mixer" -> {inputs_[n][i] : i \in DOMAIN inputs_[n]}
      [] OTHER -> {}

\* The nodes in the order next() gives them from the start node.
Walk ==
    LET w[k \in 0..Cardinality(Nodes)] ==
          IF k = 0 THEN start_node
          ELSE IF w[k - 1] = None THEN None ELSE target_[w[k - 1]]
    IN  w

\* Mutant: a mixer does not pass the flag on to its inputs.
FlagOnCycleOnly ==
    {n \in Nodes :
        \E k \in DOMAIN Walk, j \in DOMAIN Walk :
            j < k /\ Walk[j] = Walk[k] /\ n \in {Walk[i] : i \in j..(k - 1)}}

\* detect_and_flag_loops: walk until a node comes a second time, then flag
\* the nodes from it round to it; a mixer flags its inputs as well.
detect_and_flag_loops ==
    LET seconds == {k \in DOMAIN Walk :
                      Walk[k] # None /\ \E j \in 0..(k - 1) : Walk[j] = Walk[k]}
    IN  IF seconds = {} THEN {}
        ELSE LET last == CHOOSE k \in seconds : \A j \in seconds : k <= j
                 first == CHOOSE j \in 0..(last - 1) : Walk[j] = Walk[last]
                 cycle == {Walk[i] : i \in first..(last - 1)}
             IN  cycle \cup UNION {Sources(n) : n \in cycle}

\* Mutant: the shortest input decides.
MinFrames(m, totals) ==
    IF Sources(m) = {} THEN 0
    ELSE CHOOSE t \in {totals[f] : f \in Sources(m)} :
            \A f \in Sources(m) : t <= totals[f]

set_max_frames(m, totals) ==
    IF Sources(m) = {} THEN 0
    ELSE CHOOSE t \in {totals[f] : f \in Sources(m)} :
            \A f \in Sources(m) : t >= totals[f]

\* All files are there: initialize_nodes opens and buffers them (an open that
\* fails leaves 0 frames and silence), then update_mixers and the loops.
initialize_nodes ==
    /\ phase = "fetching"
    /\ received = Cardinality(Files)
    /\ final_res = "ok"
    /\ phase' = "prepared"
    /\ \E unopened \in SUBSET Files :
          LET opened == [n \in Nodes |->
                           IF n \in Files \ unopened THEN Length[n]
                           ELSE total_frames_[n]]
          IN  /\ total_frames_' =
                    [n \in Nodes |-> IF Kind[n] = "Mixer"
                                     THEN set_max_frames(n, opened)
                                     ELSE opened[n]]
              /\ disturbed' = unopened
    /\ buffers' = [n \in Nodes |-> IF n \in Files THEN "filled" ELSE buffers[n]]
    /\ is_in_loop_' = detect_and_flag_loops
    /\ current_node_' = start_node
    /\ UNCHANGED <<wiring, fetch, processed_frames_, cut>>

\* The streamer is configured and the audio loop begins.
Begin ==
    /\ phase = "prepared"
    /\ phase' = "playing"
    /\ UNCHANGED <<wiring, fetch, is_in_loop_, play>>

-----------------------------------------------------------------------------
(* get_next_frame.                                                         *)

Playing(kind) == /\ phase = "playing"
                 /\ Kind[current_node_] = kind

AtEnd(n, done) == total_frames_[n] > 0 /\ done[n] >= total_frames_[n]

\* The counters after one more frame of each node in S.
Counted(S) == [n \in Nodes |-> IF n \in S
                               THEN Smaller(processed_frames_[n] + 1, MaxFrames)
                               ELSE processed_frames_[n]]

\* Mutant: close() never refills.
AfterCloseReset(f) == "reset"

\* close() resets the buffers; a file in a loop is refilled in the background.
AfterClose(f) == IF f \in is_in_loop_ THEN "refilling" ELSE "reset"

\* advance_to_next_node, with the counters as this tick left them: the node
\* and what it plays from are closed, and next() becomes the current node.
\* A file that cannot be closed ends the session.
advance_to_next_node(done) ==
    LET closing == Sources(current_node_)
    IN  \/ /\ processed_frames_' =
                 [n \in Nodes |-> IF n \in closing \cup {current_node_} THEN 0
                                  ELSE done[n]]
           /\ buffers' = [n \in Nodes |-> IF n \in closing THEN AfterClose(n)
                                          ELSE buffers[n]]
           /\ cut' = cut \cup {f \in closing \ disturbed' :
                                 done[f] < total_frames_[f]}
           /\ current_node_' = target_[current_node_]
           /\ phase' = IF target_[current_node_] = None THEN "over" ELSE phase
        \/ /\ closing # {}
           /\ phase' = "over"
           /\ processed_frames_' = done
           /\ UNCHANGED <<buffers, cut, current_node_>>

\* The tick ends with these counters, in this node or in the next one.
EndTick(done) ==
    \/ /\ AtEnd(current_node_, done)
       /\ advance_to_next_node(done)
    \/ /\ ~AtEnd(current_node_, done)
       /\ processed_frames_' = done
       /\ UNCHANGED <<phase, buffers, cut, current_node_>>

FrameOfFile ==
    /\ Playing("FileInput")
    /\ UNCHANGED disturbed
    /\ EndTick(IF AtEnd(current_node_, processed_frames_) THEN processed_frames_
               ELSE Counted({current_node_}))
    /\ UNCHANGED <<wiring, fetch, is_in_loop_, total_frames_>>

\* A file whose blocks are not filled: no frame, and the session goes on.
Underrun ==
    /\ Playing("FileInput")
    /\ ~AtEnd(current_node_, processed_frames_)
    /\ buffers[current_node_] # "filled"
    /\ disturbed' = disturbed \cup {current_node_}
    /\ UNCHANGED <<phase, wiring, fetch, is_in_loop_, total_frames_,
                   processed_frames_, buffers, current_node_, cut>>

FrameOfDelay ==
    /\ Playing("Delay")
    /\ UNCHANGED disturbed
    /\ EndTick(Counted({current_node_}))
    /\ UNCHANGED <<wiring, fetch, is_in_loop_, total_frames_>>

\* Each input of a mixer gives a frame, underruns or is at its end.  An edge
\* that was given twice takes two frames of its file a tick.
Asked(m, f) == {i \in DOMAIN inputs_[m] : inputs_[m][i] = f}
Taken(m, f) ==
    IF total_frames_[f] = 0 THEN Cardinality(Asked(m, f))
    ELSE IF AtEnd(f, processed_frames_) THEN 0
    ELSE Smaller(Cardinality(Asked(m, f)),
                 total_frames_[f] - processed_frames_[f])

\* Mutant: a mixer without active inputs gives silence.
FrameOfMixerForever ==
    /\ Playing("Mixer")
    /\ LET m == current_node_
           done == [n \in Nodes |->
                      IF n \in Sources(m)
                      THEN Smaller(processed_frames_[n] + Taken(m, n), MaxFrames)
                      ELSE processed_frames_[n]]
       IN  /\ UNCHANGED disturbed
           /\ EndTick([done EXCEPT ![m] = Smaller(@ + 1, MaxFrames)])
    /\ UNCHANGED <<wiring, fetch, is_in_loop_, total_frames_>>

\* MixerNode::process_frame: with no active input the mix has ended.
FrameOfMixer ==
    /\ Playing("Mixer")
    /\ LET m == current_node_
           live == {f \in Sources(m) : ~AtEnd(f, processed_frames_)}
       IN  \E dry \in SUBSET {f \in live : buffers[f] # "filled"} :
             LET active == live \ dry
                 done == [n \in Nodes |->
                            IF n \in active
                            THEN Smaller(processed_frames_[n] + Taken(m, n),
                                         MaxFrames)
                            ELSE processed_frames_[n]]
             IN  /\ disturbed' = disturbed \cup dry
                 /\ \/ active = {} /\ advance_to_next_node(done)
                    \/ active # {}
                       /\ EndTick([done EXCEPT ![m] = Smaller(@ + 1, MaxFrames)])
    /\ UNCHANGED <<wiring, fetch, is_in_loop_, total_frames_>>

\* NotSupported: the session is over.
FrameOfOther ==
    /\ phase = "playing"
    /\ Kind[current_node_] \notin Audio
    /\ phase' = "over"
    /\ UNCHANGED <<wiring, fetch, is_in_loop_, play>>

\* The coroutine that close() spawned ends; the file may not open again.
RefillEnds(f) ==
    /\ phase = "playing"
    /\ buffers[f] = "refilling"
    /\ buffers' = [buffers EXCEPT ![f] = "filled"]
    /\ \/ /\ total_frames_' = [total_frames_ EXCEPT ![f] = Length[f]]
          /\ UNCHANGED disturbed
       \/ /\ total_frames_' = [total_frames_ EXCEPT ![f] = 0]
          /\ disturbed' = disturbed \cup {f}
    /\ UNCHANGED <<phase, wiring, fetch, is_in_loop_, processed_frames_,
                   current_node_, cut>>

\* A file that did not open is tried again by the refill after a swap.
Reopen(f) ==
    /\ phase = "playing"
    /\ f \in Sources(current_node_)
    /\ buffers[f] = "filled"
    /\ total_frames_[f] = 0
    /\ total_frames_' = [total_frames_ EXCEPT ![f] = Length[f]]
    /\ UNCHANGED <<phase, wiring, fetch, is_in_loop_, processed_frames_,
                   buffers, current_node_, disturbed, cut>>

-----------------------------------------------------------------------------
Prepare ==
    \/ \E f \in Files : EnsureEnds(f)
    \/ Receive
    \/ FetchFails
    \/ initialize_nodes
    \/ Begin

Tick ==
    \/ FrameOfFile
    \/ Underrun
    \/ FrameOfDelay
    \/ FrameOfMixer
    \/ FrameOfOther

Next ==
    \/ \E source, target \in Nodes : connect_input(source, target)
    \/ ParseFails
    \/ ensure_assets_exist
    \/ Prepare
    \/ Tick
    \/ \E f \in Files : RefillEnds(f) \/ Reopen(f)

Spec == Init /\ [][Next]_vars

\* The session ticks and the disk answers.
Fairness == /\ WF_vars(Tick)
            /\ WF_vars(Begin)
            /\ \A f \in Files : WF_vars(RefillEnds(f))

FairSpec == Spec /\ Fairness

-----------------------------------------------------------------------------
(* Properties.                                                             *)

\* Every variable has its type.
TypeOK ==
    /\ phase \in Phases
    /\ start_node \in Nodes
    /\ target_ \in [Nodes -> Nodes \cup {None}]
    /\ inputs_ \in [Nodes -> Seq(Files)]
    /\ fetching \subseteq Files /\ missing \subseteq Files
    /\ ch \in Seq({"ok", "error"})
    /\ received \in 0..Cardinality(Files)
    /\ final_res \in {"ok", "error"}
    /\ is_in_loop_ \subseteq Nodes
    /\ total_frames_ \in [Nodes -> 0..MaxFrames]
    /\ processed_frames_ \in [Nodes -> 0..MaxFrames]
    /\ buffers \in [Nodes -> {"filled", "refilling", "reset"}]
    /\ current_node_ \in Nodes \cup {None}
    /\ disturbed \subseteq Files /\ cut \subseteq Files

\* connect_input lets the walk arrive only at nodes that produce audio: the
\* executor meets a node without process_frame only where it starts.
OnlyStartUnsupported ==
    current_node_ \in Nodes /\ Kind[current_node_] \notin Audio
        => current_node_ = start_node

\* await_all_dynamic: when prepare() goes on or gives up, no download that
\* uses the executor is under way, and it goes on only if all succeeded.
FetchesJoined ==
    /\ phase \in {"failed", "prepared", "playing", "over"} =>
          fetching = {} /\ ch = <<>>
    /\ phase \in {"prepared", "playing", "over"} => missing = {}

\* b is a or comes after it: it is in every set that holds a and is closed
\* under next().
Leads(a, b) ==
    \A S \in SUBSET Nodes :
        a \in S /\ (\A n \in S : target_[n] \in S \cup {None}) => b \in S

\* detect_and_flag_loops finds exactly the nodes that the walk comes back to,
\* and the inputs of the mixers among them.
LoopsFlagged ==
    phase = "prepared" =>
        LET again == {n \in Nodes : /\ Leads(start_node, n)
                                    /\ target_[n] # None
                                    /\ Leads(target_[n], n)}
        IN  is_in_loop_ = again \cup UNION {Sources(n) : n \in again}

\* No file is played from two places of the graph.
UsedOnce ==
    LET reached == {Walk[k] : k \in DOMAIN Walk} \ {None}
    IN  \A a, b \in reached : a # b => Sources(a) \cap Sources(b) = {}

\* close() refills what will be played again: unless the graph uses a file in
\* two places, the walk never comes to a file that nobody fills.
NeverStarved ==
    phase = "playing" /\ UsedOnce =>
        \A f \in Sources(current_node_) : buffers[f] # "reset"

\* A file that never underran and could always be opened is played to its
\* end before it is closed, in a mixer with longer and shorter ones too.
PlayedToTheEnd == cut = {}

\* A graph without a loop, an empty file or delay, or a file in two places
\* comes to its end.
AcyclicEnds ==
    (/\ phase = "prepared" /\ is_in_loop_ = {} /\ UsedOnce
     /\ \A n \in Nodes : Kind[n] \in {"FileInput", "Delay"}
                            => total_frames_[n] > 0)
        ~> (phase = "over")
=============================================================================
