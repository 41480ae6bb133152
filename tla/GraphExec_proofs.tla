--------------------------- MODULE GraphExec_proofs --------------------------
(***************************************************************************)
(* Proofs about graphs of any size: where the walk may arrive, that        *)
(* prepare() joins its downloads and flags the loops, that every file is   *)
(* played to its end and that no file the walk comes back to is left       *)
(* without a refill.  Last, what the walk leaves for good and what it      *)
(* cannot leave.                                                           *)
(***************************************************************************)
EXTENDS GraphExec, FiniteSetTheorems, WellFoundedInduction, TLAPS

\* What the wiring guarantees the walk.
WalkInv ==
    /\ phase \in Phases
    /\ start_node \in Nodes
    /\ target_ \in [Nodes -> Nodes \cup {None}]
    /\ \A n \in Nodes : target_[n] # None => Kind[target_[n]] \in Audio
    /\ current_node_ \in Nodes \cup {None}
    /\ phase # "over" => current_node_ \in Nodes
    /\ OnlyStartUnsupported

\* A step to the next node keeps the walk on audio nodes (the transition of
\* advance_to_next_node).
LEMMA AdvanceKeepsWalk ==
  ASSUME WalkInv, phase = "playing", NEW done, advance_to_next_node(done),
         UNCHANGED wiring
  PROVE  WalkInv'
<1>1. UNCHANGED <<start_node, target_>>
  BY DEF wiring
<1>2. CASE current_node_' = target_[current_node_]
           /\ phase' = IF target_[current_node_] = None THEN "over" ELSE phase
  BY <1>1, <1>2, NodesAssumption DEF WalkInv, OnlyStartUnsupported, Phases
<1>3. CASE phase' = "over" /\ UNCHANGED current_node_
  BY <1>1, <1>3 DEF WalkInv, OnlyStartUnsupported, Phases
<1> QED
  BY <1>2, <1>3 DEF advance_to_next_node

\* The same for the end of a tick, in this node or in the next one.
LEMMA EndTickKeepsWalk ==
  ASSUME WalkInv, phase = "playing", NEW done, EndTick(done), UNCHANGED wiring
  PROVE  WalkInv'
<1>1. CASE advance_to_next_node(done)
  BY <1>1, AdvanceKeepsWalk
<1>2. CASE UNCHANGED <<phase, current_node_>>
  BY <1>2 DEF WalkInv, OnlyStartUnsupported, wiring
<1> QED
  BY <1>1, <1>2 DEF EndTick

\* Only connect_input changes the wiring, and it wires to audio nodes.
LEMMA ConnectKeepsWalk ==
  ASSUME WalkInv, NEW source \in Nodes, NEW target \in Nodes,
         connect_input(source, target)
  PROVE  WalkInv'
<1>1. UNCHANGED <<phase, start_node, current_node_>>
  BY DEF connect_input, play
<1>2. CASE Wires(source, target)
  <2>1. Kind[target] \in Audio
    BY <1>2, KindAssumption DEF Wires, Accepts, Audio
  <2>2. target_' = [target_ EXCEPT ![source] = target]
    BY <1>2 DEF connect_input
  <2> QED
    BY <1>1, <2>1, <2>2 DEF WalkInv, OnlyStartUnsupported
<1>3. CASE ~Wires(source, target)
  <2>1. target_' = target_
    BY <1>3 DEF connect_input
  <2> QED
    BY <1>1, <2>1 DEF WalkInv, OnlyStartUnsupported
<1> QED
  BY <1>2, <1>3

\* Every step keeps the walk on audio nodes.
LEMMA WalkStep ==
  ASSUME WalkInv, [Next]_vars
  PROVE  WalkInv'
<1> DEFINE Still == UNCHANGED <<start_node, target_, current_node_>>
<1>1. ASSUME Still, phase' \in Phases, phase = "over" => phase' = "over"
      PROVE  WalkInv'
  BY <1>1 DEF WalkInv, OnlyStartUnsupported
<1>2. CASE \E source, target \in Nodes : connect_input(source, target)
  BY <1>2, ConnectKeepsWalk
<1>3. CASE ParseFails
  BY <1>1, <1>3 DEF ParseFails, wiring, play, Phases
<1>4. CASE ensure_assets_exist
  BY <1>1, <1>4 DEF ensure_assets_exist, wiring, play, Phases
<1>5. CASE \E f \in Files : EnsureEnds(f)
  BY <1>1, <1>5 DEF EnsureEnds, wiring, play, WalkInv
<1>6. CASE Receive
  BY <1>1, <1>6 DEF Receive, wiring, play, WalkInv
<1>7. CASE FetchFails
  BY <1>1, <1>7 DEF FetchFails, wiring, play, Phases
<1>8. CASE initialize_nodes
  <2>1. UNCHANGED <<start_node, target_>> /\ current_node_' = start_node
        /\ phase' = "prepared"
    BY <1>8 DEF initialize_nodes, wiring
  <2> QED
    BY <2>1 DEF WalkInv, OnlyStartUnsupported, Phases
<1>9. CASE Begin
  BY <1>1, <1>9 DEF Begin, wiring, play, Phases
<1>10. CASE FrameOfFile
  <2> DEFINE done == IF AtEnd(current_node_, processed_frames_)
                     THEN processed_frames_ ELSE Counted({current_node_})
  <2>1. phase = "playing" /\ EndTick(done) /\ UNCHANGED wiring
    BY <1>10 DEF FrameOfFile, Playing
  <2> QED
    BY <2>1, EndTickKeepsWalk
<1>11. CASE Underrun
  BY <1>1, <1>11 DEF Underrun, wiring, WalkInv
<1>12. CASE FrameOfDelay
  <2>1. phase = "playing" /\ EndTick(Counted({current_node_}))
        /\ UNCHANGED wiring
    BY <1>12 DEF FrameOfDelay, Playing
  <2> QED
    BY <2>1, EndTickKeepsWalk
<1>13. CASE FrameOfMixer
  <2>1. phase = "playing" /\ UNCHANGED wiring
    BY <1>13 DEF FrameOfMixer, Playing
  <2>2. \E done : advance_to_next_node(done) \/ EndTick(done)
    BY <1>13 DEF FrameOfMixer
  <2> QED
    BY <2>1, <2>2, AdvanceKeepsWalk, EndTickKeepsWalk
<1>14. CASE FrameOfOther
  BY <1>1, <1>14 DEF FrameOfOther, wiring, play, Phases
<1>15. CASE \E f \in Files : RefillEnds(f) \/ Reopen(f)
  BY <1>1, <1>15 DEF RefillEnds, Reopen, wiring, WalkInv
<1>16. CASE UNCHANGED vars
  BY <1>1, <1>16 DEF vars, wiring, play, WalkInv
<1> QED
  BY <1>2, <1>3, <1>4, <1>5, <1>6, <1>7, <1>8, <1>9, <1>10, <1>11, <1>12,
     <1>13, <1>14, <1>15, <1>16 DEF Next, Prepare, Tick

\* Whatever the edges of a request, the executor arrives only at files,
\* mixers and delays: a node that does not support process_frame ends a
\* session only when it is the start node.
THEOREM WalkOnAudio == Spec => []OnlyStartUnsupported
<1>1. Init => WalkInv
  BY NodesAssumption DEF Init, WalkInv, OnlyStartUnsupported, Phases
<1>2. WalkInv /\ [Next]_vars => WalkInv'
  BY WalkStep
<1>3. WalkInv => OnlyStartUnsupported
  BY DEF WalkInv
<1> QED
  BY <1>1, <1>2, <1>3, PTL DEF Spec

-----------------------------------------------------------------------------
Results == {"ok", "error"}
Unfetched == {"parsing", "rejected"}

\* Every result is under way, in the channel or received; an error that
\* happened is still in the channel or recorded.
JoinInv ==
    /\ phase \in Phases
    /\ fetching \subseteq Files
    /\ ch \in Seq(Results)
    /\ received \in Nat
    /\ final_res \in Results
    /\ phase \in Unfetched =>
          fetching = {} /\ ch = <<>> /\ received = 0 /\ missing = {}
    /\ phase \notin Unfetched =>
          received + Len(ch) + Cardinality(fetching) = Cardinality(Files)
    /\ final_res = "ok" /\ (\A i \in 1..Len(ch) : ch[i] = "ok") => missing = {}
    /\ phase \notin Unfetched \cup {"fetching"} => received = Cardinality(Files)
    /\ phase \in {"prepared", "playing", "over"} => final_res = "ok"

\* The files are finitely many, and so are the downloads under way.
LEMMA FetchesFinite ==
  ASSUME fetching \subseteq Files
  PROVE  /\ IsFiniteSet(fetching) /\ IsFiniteSet(Files)
         /\ Cardinality(fetching) \in Nat /\ Cardinality(Files) \in Nat
<1>1. Files \subseteq Nodes
  BY DEF Files
<1>2. IsFiniteSet(Files)
  BY <1>1, NodesAssumption, FS_Subset
<1>3. IsFiniteSet(fetching)
  BY <1>2, FS_Subset
<1> QED
  BY <1>2, <1>3, FS_CardinalityType

\* A download that ends moves from `fetching` to the channel.
LEMMA EnsureKeepsJoin ==
  ASSUME JoinInv, NEW f \in Files, EnsureEnds(f)
  PROVE  JoinInv'
<1> USE DEF Results, Unfetched
<1>1. PICK res \in Results :
        /\ ch' = Append(ch, res)
        /\ missing' = IF res = "error" THEN missing \cup {f} ELSE missing
  BY DEF EnsureEnds
<1>2. /\ f \in fetching /\ fetching' = fetching \ {f}
      /\ UNCHANGED <<phase, received, final_res>>
  BY DEF EnsureEnds
<1>3. /\ Cardinality(fetching) \in Nat /\ Cardinality(Files) \in Nat
      /\ IsFiniteSet(fetching)
  BY FetchesFinite DEF JoinInv
<1>4. Cardinality(fetching') = Cardinality(fetching) - 1
  BY <1>2, <1>3, FS_RemoveElement
<1>5. phase \notin Unfetched
  BY <1>2 DEF JoinInv
<1>6. ch' \in Seq(Results) /\ Len(ch') = Len(ch) + 1 /\ Len(ch) \in Nat
  BY <1>1 DEF JoinInv
<1>7. received' + Len(ch') + Cardinality(fetching') = Cardinality(Files)
  BY <1>2, <1>3, <1>4, <1>5, <1>6 DEF JoinInv
<1>8. ASSUME final_res' = "ok", \A i \in 1..Len(ch') : ch'[i] = "ok"
      PROVE  missing' = {}
  <2>1. ch'[Len(ch')] = res
    BY <1>1, <1>6 DEF JoinInv
  <2>2. \A i \in 1..Len(ch) : ch'[i] = ch[i]
    BY <1>1 DEF JoinInv
  <2>3. res = "ok"
    BY <1>6, <1>8, <2>1
  <2>4. \A i \in 1..Len(ch) : ch[i] = "ok"
    BY <1>6, <1>8, <2>2
  <2> QED
    BY <1>1, <1>2, <1>8, <2>3, <2>4 DEF JoinInv
<1> QED
  BY <1>2, <1>5, <1>6, <1>7, <1>8 DEF JoinInv

\* A result that is received leaves the channel; the first error stays.
LEMMA ReceiveKeepsJoin ==
  ASSUME JoinInv, Receive
  PROVE  JoinInv'
<1> USE DEF Results, Unfetched
<1>1. /\ phase = "fetching" /\ ch # <<>> /\ ch' = Tail(ch)
      /\ received' = received + 1
      /\ final_res' = IF final_res = "ok" THEN Head(ch) ELSE final_res
      /\ UNCHANGED <<phase, fetching, missing>>
  BY DEF Receive
<1>2. Cardinality(fetching) \in Nat /\ Cardinality(Files) \in Nat
  BY FetchesFinite DEF JoinInv
<1>3. /\ ch' \in Seq(Results) /\ Len(ch') = Len(ch) - 1 /\ Len(ch) \in Nat
      /\ Head(ch) = ch[1] /\ Head(ch) \in Results /\ Len(ch) > 0
      /\ \A i \in 1..Len(ch') : ch'[i] = ch[i + 1]
  BY <1>1 DEF JoinInv
<1>4. received' + Len(ch') + Cardinality(fetching') = Cardinality(Files)
  BY <1>1, <1>2, <1>3 DEF JoinInv
<1>5. ASSUME final_res' = "ok", \A i \in 1..Len(ch') : ch'[i] = "ok"
      PROVE  missing' = {}
  <2>1. final_res = "ok" /\ ch[1] = "ok"
    BY <1>1, <1>3, <1>5
  <2>2. \A i \in 1..Len(ch) : ch[i] = "ok"
    <3> SUFFICES ASSUME NEW i \in 1..Len(ch), i # 1 PROVE ch[i] = "ok"
      BY <2>1
    <3>1. i - 1 \in 1..Len(ch') /\ (i - 1) + 1 = i
      BY <1>3
    <3> QED
      BY <1>3, <1>5, <3>1
  <2> QED
    BY <1>1, <2>1, <2>2 DEF JoinInv
<1> QED
  BY <1>1, <1>3, <1>4, <1>5 DEF JoinInv

LEMMA JoinStart == Init => JoinInv
BY DEF Init, JoinInv, Phases, Results, Unfetched

\* Every step keeps the count.
LEMMA JoinStep ==
  ASSUME JoinInv, [Next]_vars
  PROVE  JoinInv'
<1> USE DEF Results, Unfetched
<1>1. ASSUME UNCHANGED fetch, UNCHANGED phase
      PROVE  JoinInv'
  BY <1>1 DEF JoinInv, fetch
<1>2. ASSUME UNCHANGED fetch,
             phase \in {"prepared", "playing"}, phase' \in {"playing", "over"}
      PROVE  JoinInv'
  BY <1>2 DEF JoinInv, fetch, Phases
<1>3. CASE ParseFails
  BY <1>3 DEF ParseFails, JoinInv, fetch, Phases
<1>4. CASE ensure_assets_exist
  <2>1. /\ phase = "parsing" /\ phase' = "fetching" /\ fetching' = Files
        /\ UNCHANGED <<ch, received, final_res, missing>>
    BY <1>4 DEF ensure_assets_exist
  <2>2. Cardinality(Files) \in Nat
    BY FetchesFinite DEF JoinInv
  <2> QED
    BY <2>1, <2>2 DEF JoinInv, Phases
<1>5. CASE \E f \in Files : EnsureEnds(f)
  BY <1>5, EnsureKeepsJoin
<1>6. CASE Receive
  BY <1>6, ReceiveKeepsJoin
<1>7. CASE FetchFails
  BY <1>7 DEF FetchFails, JoinInv, fetch, Phases
<1>8. CASE initialize_nodes
  <2>1. /\ phase = "fetching" /\ received = Cardinality(Files)
        /\ final_res = "ok" /\ phase' = "prepared" /\ UNCHANGED fetch
    BY <1>8 DEF initialize_nodes
  <2> QED
    BY <2>1 DEF JoinInv, fetch, Phases
<1>9. CASE Begin
  BY <1>2, <1>9 DEF Begin
<1>10. CASE Tick
  <2>1. UNCHANGED fetch /\ phase = "playing"
    BY <1>10 DEF Tick, FrameOfFile, Underrun, FrameOfDelay, FrameOfMixer,
                 FrameOfOther, Playing
  <2>2. \A done : EndTick(done) \/ advance_to_next_node(done)
                     => phase' \in {phase, "over"}
    BY DEF EndTick, advance_to_next_node
  <2>3. phase' \in {phase, "over"}
    <3>1. CASE Underrun \/ FrameOfOther
      BY <3>1 DEF Underrun, FrameOfOther
    <3>2. CASE \E done : EndTick(done) \/ advance_to_next_node(done)
      BY <2>2, <3>2
    <3> QED
      BY <1>10, <3>1, <3>2 DEF Tick, FrameOfFile, FrameOfDelay, FrameOfMixer
  <2> QED
    BY <1>2, <2>1, <2>3
<1>11. CASE \E source, target \in Nodes : connect_input(source, target)
  BY <1>1, <1>11 DEF connect_input
<1>12. CASE \E f \in Files : RefillEnds(f) \/ Reopen(f)
  BY <1>1, <1>12 DEF RefillEnds, Reopen
<1>13. CASE UNCHANGED vars
  BY <1>1, <1>13 DEF vars
<1> QED
  BY <1>3, <1>4, <1>5, <1>6, <1>7, <1>8, <1>9, <1>10, <1>11, <1>12, <1>13
     DEF Next, Prepare

\* prepare() leaves no download behind, whether it goes on or fails, and it
\* goes on only when every file could be fetched.
THEOREM PrepareJoins == Spec => []FetchesJoined
<1> USE DEF Results, Unfetched
<1>1. JoinInv => FetchesJoined
  <2> SUFFICES ASSUME JoinInv, phase \notin Unfetched \cup {"fetching"}
               PROVE  fetching = {} /\ ch = <<>>
                      /\ (phase \in {"prepared", "playing", "over"} => missing = {})
    BY DEF FetchesJoined, JoinInv
  <2>1. /\ Cardinality(fetching) \in Nat /\ Cardinality(Files) \in Nat
        /\ IsFiniteSet(fetching)
    BY FetchesFinite DEF JoinInv
  <2>2. Len(ch) = 0 /\ Cardinality(fetching) = 0
    BY <2>1 DEF JoinInv
  <2>3. fetching = {}
    BY <2>1, <2>2, FS_EmptySet
  <2>4. ch = <<>>
    BY <2>2 DEF JoinInv
  <2> QED
    BY <2>2, <2>3, <2>4 DEF JoinInv
<1> QED
  BY <1>1, JoinStart, JoinStep, PTL DEF Spec

-----------------------------------------------------------------------------
(* Least and greatest numbers of a set.                                    *)

\* A set of natural numbers has a least one.
LEMMA Least ==
  ASSUME NEW S \in SUBSET Nat, S # {}
  PROVE  \E n \in S : \A m \in S : n <= m
<1>1. PICK n \in S : \A m \in S : ~(<<m, n>> \in OpToRel(<, Nat))
  BY NatLessThanWellFounded, WFMin
<1>2. \A m \in S : ~(m < n)
  BY <1>1 DEF OpToRel
<1> QED
  BY <1>2

\* A bounded one has a greatest one.
LEMMA Greatest ==
  ASSUME NEW bound \in Nat, NEW S \in SUBSET (0..bound), S # {}
  PROVE  \E n \in S : \A m \in S : n >= m
<1> DEFINE D == {bound - s : s \in S}
<1>1. ASSUME NEW d \in D PROVE d \in Nat
  <2>1. PICK s \in S : d = bound - s
    OBVIOUS
  <2>2. s \in 0..bound
    OBVIOUS
  <2> HIDE DEF D
  <2> QED
    BY <2>1, <2>2
<1>2. D \in SUBSET Nat
  BY <1>1
<1>3. \A s \in S : bound - s \in D
  OBVIOUS
<1>4. D # {}
  BY <1>3
<1>5. PICK d \in D : \A m \in D : d <= m
  BY <1>2, <1>4, Least
<1>6. PICK n \in S : d = bound - n
  OBVIOUS
<1>7. ASSUME NEW m \in S PROVE n >= m
  <2>1. bound - n <= bound - m
    BY <1>3, <1>5, <1>6
  <2>2. m \in 0..bound /\ n \in 0..bound
    OBVIOUS
  <2> HIDE DEF D
  <2> QED
    BY <2>1, <2>2
<1> QED
  BY <1>7

-----------------------------------------------------------------------------
(* The frames that are played.                                             *)

Mixers == {n \in Nodes : Kind[n] = "Mixer"}

\* The types that the counting needs.
CountTypes ==
    /\ inputs_ \in [Nodes -> Seq(Files)]
    /\ total_frames_ \in [Nodes -> 0..MaxFrames]
    /\ processed_frames_ \in [Nodes -> 0..MaxFrames]
    /\ disturbed \subseteq Files

\* What prepare() counted: a file that could be opened has its frames, and a
\* mixer is at least as long as each such input.
TotalsInv ==
    phase \in {"prepared", "playing"} =>
        /\ \A f \in Files \ disturbed : total_frames_[f] = Length[f]
        /\ \A m \in Mixers : \A f \in Sources(m) \ disturbed :
              total_frames_[m] >= Length[f]

\* Only the mixer that plays has counted frames, and none of its inputs that
\* were never disturbed is behind it.
PaceInv ==
    /\ phase \notin {"playing", "over"} =>
          \A n \in Nodes : processed_frames_[n] = 0
    /\ phase = "playing" =>
          /\ \A m \in Mixers : m # current_node_ => processed_frames_[m] = 0
          /\ current_node_ \in Mixers =>
                \A f \in Sources(current_node_) \ disturbed :
                    processed_frames_[f] >=
                        Smaller(processed_frames_[current_node_], Length[f])

PlayInv == /\ CountTypes
           /\ TotalsInv
           /\ PaceInv
           /\ cut = {}

\* Whatever plays from files plays from files of the graph.
LEMMA SourcesAreFiles ==
  ASSUME CountTypes, NEW n \in Nodes
  PROVE  Sources(n) \subseteq Files
<1>1. CASE Kind[n] = "FileInput"
  BY <1>1 DEF Sources, Files
<1>2. CASE Kind[n] = "Mixer"
  <2>1. inputs_[n] \in Seq(Files)
    BY DEF CountTypes
  <2>2. \A i \in DOMAIN inputs_[n] : inputs_[n][i] \in Files
    BY <2>1
  <2> QED
    BY <1>2, <2>2 DEF Sources
<1>3. CASE Kind[n] \notin {"FileInput", "Mixer"}
  BY <1>3 DEF Sources
<1> QED
  BY <1>1, <1>2, <1>3

\* A step of the session that leaves the wiring alone: the counters are
\* `done`, the totals are kept, and no undisturbed input of the mixer that
\* plays falls behind it.
LEMMA StayKeepsPlay ==
  ASSUME PlayInv, WalkInv, phase = "playing", UNCHANGED <<wiring, total_frames_>>,
         NEW done \in [Nodes -> 0..MaxFrames],
         disturbed \subseteq disturbed', disturbed' \subseteq Files,
         \A m \in Mixers : m # current_node_ => done[m] = 0,
         current_node_ \in Mixers =>
            \A f \in Sources(current_node_) \ disturbed' :
                done[f] >= Smaller(done[current_node_], Length[f]),
         processed_frames_' = done, UNCHANGED <<phase, cut, current_node_>>
  PROVE  PlayInv'
<1>1. UNCHANGED inputs_ /\ \A n : Sources(n)' = Sources(n)
  BY DEF wiring, Sources
<1>2. CountTypes'
  BY <1>1 DEF PlayInv, CountTypes
<1>3. TotalsInv'
  BY <1>1 DEF PlayInv, TotalsInv
<1>4. PaceInv'
  BY <1>1 DEF PlayInv, PaceInv
<1> QED
  BY <1>2, <1>3, <1>4 DEF PlayInv

\* advance_to_next_node, when what it closes was played to its end.
LEMMA AdvanceKeepsPlay ==
  ASSUME PlayInv, WalkInv, phase = "playing", UNCHANGED <<wiring, total_frames_>>,
         NEW done \in [Nodes -> 0..MaxFrames], advance_to_next_node(done),
         disturbed \subseteq disturbed', disturbed' \subseteq Files,
         \A m \in Mixers : m # current_node_ => done[m] = 0,
         \A f \in Sources(current_node_) \ disturbed' :
            done[f] >= total_frames_[f]
  PROVE  PlayInv'
<1>1. UNCHANGED inputs_ /\ \A n : Sources(n)' = Sources(n)
  BY DEF wiring, Sources
<1>2. current_node_ \in Nodes
  BY DEF WalkInv
<1>3. CASE /\ processed_frames_' =
                [n \in Nodes |-> IF n \in Sources(current_node_)
                                            \cup {current_node_} THEN 0
                                 ELSE done[n]]
           /\ cut' = cut \cup {f \in Sources(current_node_) \ disturbed' :
                                 done[f] < total_frames_[f]}
           /\ current_node_' = target_[current_node_]
           /\ phase' = IF target_[current_node_] = None THEN "over" ELSE phase
  <2>1. processed_frames_' \in [Nodes -> 0..MaxFrames]
    BY <1>3, LengthAssumption
  <2>2. CountTypes'
    BY <1>1, <2>1 DEF PlayInv, CountTypes
  <2>3. TotalsInv'
    BY <1>1, <1>3 DEF PlayInv, TotalsInv
  <2>4. \A m \in Mixers : processed_frames_'[m] = 0
    BY <1>3 DEF Mixers
  <2>5. PaceInv'
    <3> DEFINE c == target_[current_node_]
    <3>1. current_node_' = c /\ Sources(current_node_)' = Sources(c)
      BY <1>1, <1>3 DEF Sources
    <3>2. ASSUME c \in Mixers, NEW f \in Sources(c) \ disturbed'
          PROVE  processed_frames_'[f] >=
                     Smaller(processed_frames_'[c], Length[f])
      <4>1. processed_frames_'[c] = 0
        BY <2>4, <3>2
      <4>2. f \in Files
        BY <3>2, SourcesAreFiles DEF PlayInv, Mixers
      <4>3. f \in Nodes /\ Length[f] \in 1..MaxFrames
        BY <4>2, LengthAssumption DEF Files
      <4>4. processed_frames_'[f] \in 0..MaxFrames
        BY <2>1, <4>3
      <4> QED
        BY <4>1, <4>3, <4>4, LengthAssumption DEF Smaller
    <3>3. phase' \in {"playing", "over"}
      BY <1>3
    <3> HIDE DEF c
    <3> QED
      BY <2>4, <3>1, <3>2, <3>3 DEF PaceInv
  <2>6. cut' = {}
    <3>1. ASSUME NEW f \in Sources(current_node_) \ disturbed'
          PROVE  ~(done[f] < total_frames_[f])
      <4>1. f \in Files
        BY <1>2, SourcesAreFiles DEF PlayInv
      <4>2. f \in Nodes
        BY <4>1 DEF Files
      <4>3. done[f] \in 0..MaxFrames /\ total_frames_[f] \in 0..MaxFrames
        BY <4>2 DEF PlayInv, CountTypes
      <4> QED
        BY <4>3, LengthAssumption
    <3> QED
      BY <1>3, <3>1 DEF PlayInv
  <2> QED
    BY <2>2, <2>3, <2>5, <2>6 DEF PlayInv
<1>4. CASE /\ phase' = "over" /\ processed_frames_' = done
           /\ UNCHANGED cut
  <2>1. CountTypes'
    BY <1>1, <1>4 DEF PlayInv, CountTypes
  <2>2. TotalsInv' /\ PaceInv'
    BY <1>4 DEF TotalsInv, PaceInv
  <2> QED
    BY <1>4, <2>1, <2>2 DEF PlayInv
<1> QED
  BY <1>3, <1>4 DEF advance_to_next_node

\* The end of a tick, in this node or in the next one.
LEMMA EndTickKeepsPlay ==
  ASSUME PlayInv, WalkInv, phase = "playing", UNCHANGED <<wiring, total_frames_>>,
         NEW done \in [Nodes -> 0..MaxFrames], EndTick(done),
         disturbed \subseteq disturbed', disturbed' \subseteq Files,
         \A m \in Mixers : m # current_node_ => done[m] = 0,
         current_node_ \in Mixers =>
            \A f \in Sources(current_node_) \ disturbed' :
                done[f] >= Smaller(done[current_node_], Length[f]),
         AtEnd(current_node_, done) =>
            \A f \in Sources(current_node_) \ disturbed' :
                done[f] >= total_frames_[f]
  PROVE  PlayInv'
<1>1. CASE AtEnd(current_node_, done) /\ advance_to_next_node(done)
  BY <1>1, AdvanceKeepsPlay
<1>2. CASE /\ processed_frames_' = done
           /\ UNCHANGED <<phase, buffers, cut, current_node_>>
  BY <1>2, StayKeepsPlay
<1> QED
  BY <1>1, <1>2 DEF EndTick

\* The counters after one more frame of a node.
LEMMA CountedIs ==
  ASSUME CountTypes, NEW n \in Nodes
  PROVE  /\ Counted({n}) \in [Nodes -> 0..MaxFrames]
         /\ \A m \in Nodes : m # n => Counted({n})[m] = processed_frames_[m]
<1>1. ASSUME NEW m \in Nodes
      PROVE  Smaller(processed_frames_[m] + 1, MaxFrames) \in 0..MaxFrames
  <2>1. processed_frames_[m] \in 0..MaxFrames
    BY DEF CountTypes
  <2> QED
    BY <2>1, LengthAssumption DEF Smaller
<1> QED
  BY <1>1 DEF Counted, CountTypes

\* A frame of a file: it is closed at its end, by its own counter.
LEMMA FileKeepsPlay ==
  ASSUME PlayInv, WalkInv, FrameOfFile
  PROVE  PlayInv'
<1> DEFINE done == IF AtEnd(current_node_, processed_frames_)
                   THEN processed_frames_ ELSE Counted({current_node_})
<1>1. /\ phase = "playing" /\ Kind[current_node_] = "FileInput"
      /\ EndTick(done) /\ UNCHANGED <<disturbed, wiring, total_frames_>>
  BY DEF FrameOfFile, Playing
<1>2. current_node_ \in Nodes /\ current_node_ \notin Mixers
  BY <1>1 DEF WalkInv, Mixers
<1>3. done \in [Nodes -> 0..MaxFrames]
  BY <1>2, CountedIs DEF PlayInv, CountTypes
<1>4. \A m \in Mixers : m # current_node_ => done[m] = 0
  BY <1>1, <1>2, CountedIs DEF PlayInv, PaceInv, Mixers
<1>5. Sources(current_node_) = {current_node_}
  BY <1>1 DEF Sources
<1> HIDE DEF done
<1>6. AtEnd(current_node_, done) => done[current_node_] >= total_frames_[current_node_]
  BY DEF AtEnd
<1>7. disturbed' \subseteq Files
  BY <1>1 DEF PlayInv, CountTypes
<1> QED
  BY <1>1, <1>2, <1>3, <1>4, <1>5, <1>6, <1>7, EndTickKeepsPlay

\* A frame of a delay, which plays from no file.
LEMMA DelayKeepsPlay ==
  ASSUME PlayInv, WalkInv, FrameOfDelay
  PROVE  PlayInv'
<1> DEFINE done == Counted({current_node_})
<1>1. /\ phase = "playing" /\ Kind[current_node_] = "Delay"
      /\ EndTick(done) /\ UNCHANGED <<disturbed, wiring, total_frames_>>
  BY DEF FrameOfDelay, Playing
<1>2. current_node_ \in Nodes /\ current_node_ \notin Mixers
  BY <1>1 DEF WalkInv, Mixers
<1>3. done \in [Nodes -> 0..MaxFrames]
  BY <1>2, CountedIs DEF PlayInv
<1>4. \A m \in Mixers : m # current_node_ => done[m] = 0
  BY <1>1, <1>2, CountedIs DEF PlayInv, PaceInv, Mixers
<1>5. Sources(current_node_) = {}
  BY <1>1 DEF Sources
<1> HIDE DEF done
<1>6. disturbed' \subseteq Files
  BY <1>1 DEF PlayInv, CountTypes
<1> QED
  BY <1>1, <1>2, <1>3, <1>4, <1>5, <1>6, EndTickKeepsPlay

\* An input is asked once for each of its edges, and gives no negative number
\* of frames.
LEMMA TakenType ==
  ASSUME CountTypes, NEW m \in Mixers, NEW f \in Sources(m)
  PROVE  /\ Cardinality(Asked(m, f)) \in Nat \ {0}
         /\ Taken(m, f) \in Nat
<1>1. m \in Nodes /\ Kind[m] = "Mixer"
  BY DEF Mixers
<1>2. f \in Files
  BY <1>1, SourcesAreFiles
<1>3. /\ f \in Nodes /\ total_frames_[f] \in 0..MaxFrames
      /\ processed_frames_[f] \in 0..MaxFrames
  BY <1>2 DEF Files, CountTypes
<1>4. inputs_[m] \in Seq(Files)
  BY <1>1 DEF CountTypes
<1>5. PICK i \in DOMAIN inputs_[m] : inputs_[m][i] = f
  BY <1>1 DEF Sources
<1>6. Asked(m, f) # {}
  BY <1>5 DEF Asked
<1>7. IsFiniteSet(Asked(m, f))
  <2>1. DOMAIN inputs_[m] = 1..Len(inputs_[m]) /\ Len(inputs_[m]) \in Nat
    BY <1>4
  <2>2. IsFiniteSet(1..Len(inputs_[m]))
    BY <2>1, FS_Interval
  <2>3. Asked(m, f) \subseteq 1..Len(inputs_[m])
    BY <2>1 DEF Asked
  <2> QED
    BY <2>2, <2>3, FS_Subset
<1>8. Cardinality(Asked(m, f)) \in Nat /\ Cardinality(Asked(m, f)) # 0
  BY <1>6, <1>7, FS_CardinalityType, FS_EmptySet
<1>9. Taken(m, f) \in Nat
  BY <1>3, <1>8, LengthAssumption DEF Taken, AtEnd, Smaller
<1> QED
  BY <1>8, <1>9

\* An input of a mixer that is not at its end gives at least one frame, and
\* no more than it has.
LEMMA TakesOne ==
  ASSUME CountTypes, NEW m \in Mixers, NEW f \in Sources(m),
         ~AtEnd(f, processed_frames_), total_frames_[f] = Length[f]
  PROVE  /\ Taken(m, f) >= 1
         /\ processed_frames_[f] + Taken(m, f) <= Length[f]
<1>1. f \in Files
  BY SourcesAreFiles DEF Mixers
<1>2. f \in Nodes
  BY <1>1 DEF Files
<1>3. /\ Length[f] \in 1..MaxFrames /\ processed_frames_[f] \in 0..MaxFrames
  BY <1>2, LengthAssumption DEF CountTypes
<1>4. processed_frames_[f] < Length[f]
  BY <1>3, LengthAssumption DEF AtEnd
<1>5. Taken(m, f) = Smaller(Cardinality(Asked(m, f)),
                            Length[f] - processed_frames_[f])
  BY <1>3, LengthAssumption DEF Taken
<1>6. Cardinality(Asked(m, f)) \in Nat \ {0}
  BY TakenType
<1> QED
  BY <1>3, <1>4, <1>5, <1>6, LengthAssumption DEF Smaller

\* A frame of a mixer: its undisturbed inputs keep up with it, so that none
\* is closed before its end, be it by the mixer's counter or because nothing
\* is active.
LEMMA MixerKeepsPlay ==
  ASSUME PlayInv, WalkInv, FrameOfMixer
  PROVE  PlayInv'
<1> DEFINE m == current_node_
           live == {f \in Sources(m) : ~AtEnd(f, processed_frames_)}
<1>1. /\ phase = "playing" /\ Kind[m] = "Mixer"
      /\ UNCHANGED <<wiring, total_frames_>>
  BY DEF FrameOfMixer, Playing
<1>2. m \in Mixers /\ m \in Nodes
  BY <1>1 DEF WalkInv, Mixers
<1>3. CountTypes
  BY DEF PlayInv
<1>4. Sources(m) \subseteq Files /\ Files \subseteq Nodes /\ m \notin Files
  BY <1>1, <1>2, <1>3, SourcesAreFiles DEF Files
<1>5. PICK dry \in SUBSET {f \in live : buffers[f] # "filled"} :
        LET active == live \ dry
            done == [n \in Nodes |->
                       IF n \in active
                       THEN Smaller(processed_frames_[n] + Taken(m, n), MaxFrames)
                       ELSE processed_frames_[n]]
        IN  /\ disturbed' = disturbed \cup dry
            /\ \/ active = {} /\ advance_to_next_node(done)
               \/ active # {}
                  /\ EndTick([done EXCEPT ![m] = Smaller(@ + 1, MaxFrames)])
  BY DEF FrameOfMixer
<1> DEFINE active == live \ dry
           done == [n \in Nodes |->
                      IF n \in active
                      THEN Smaller(processed_frames_[n] + Taken(m, n), MaxFrames)
                      ELSE processed_frames_[n]]
           full == [done EXCEPT ![m] = Smaller(@ + 1, MaxFrames)]
<1>6. /\ disturbed' = disturbed \cup dry
      /\ (active = {} /\ advance_to_next_node(done)) \/ EndTick(full)
  BY <1>5
<1>7. disturbed \subseteq disturbed' /\ disturbed' \subseteq Files
  BY <1>3, <1>4, <1>6 DEF CountTypes
<1>8. active \subseteq Sources(m) /\ m \notin active
  BY <1>4
<1>9. processed_frames_ \in [Nodes -> 0..MaxFrames]
  BY <1>3 DEF CountTypes
<1>10. ASSUME NEW n \in Nodes PROVE done[n] \in 0..MaxFrames
  <2>1. processed_frames_[n] \in 0..MaxFrames
    BY <1>9
  <2>2. CASE n \in active
    <3>1. Taken(m, n) \in Nat
      BY <1>2, <1>3, <1>8, <2>2, TakenType
    <3>2. done[n] = Smaller(processed_frames_[n] + Taken(m, n), MaxFrames)
      BY <2>2
    <3> HIDE DEF done
    <3> QED
      BY <2>1, <3>1, <3>2, LengthAssumption DEF Smaller
  <2>3. CASE n \notin active
    BY <2>1, <2>3
  <2> QED
    BY <2>2, <2>3
<1>11. done \in [Nodes -> 0..MaxFrames]
  BY <1>10
<1>12. full \in [Nodes -> 0..MaxFrames]
  <2>1. Smaller(done[m] + 1, MaxFrames) \in 0..MaxFrames
    <3>1. done[m] \in 0..MaxFrames
      BY <1>2, <1>10
    <3> HIDE DEF done
    <3> QED
      BY <3>1, LengthAssumption DEF Smaller
  <2> HIDE DEF done
  <2> QED
    BY <1>11, <2>1
<1>13. done[m] = processed_frames_[m]
       /\ full[m] = Smaller(processed_frames_[m] + 1, MaxFrames)
  BY <1>2, <1>8
<1>14. \A n \in Nodes : n # m => full[n] = done[n]
  OBVIOUS
<1>15. \A n \in Mixers : n # m => done[n] = 0 /\ full[n] = 0
  <2>1. \A n \in Mixers : n \in Nodes /\ n \notin Files
    BY DEF Mixers, Files
  <2>2. \A n \in Mixers : n # m => processed_frames_[n] = 0
    BY <1>1 DEF PlayInv, PaceInv
  <2> QED
    BY <1>4, <1>8, <1>14, <2>1, <2>2
<1>16. ASSUME NEW f \in Sources(m) \ disturbed'
       PROVE  /\ f \in Nodes /\ f # m
              /\ total_frames_[f] = Length[f]
              /\ Length[f] \in 1..MaxFrames
              /\ processed_frames_[f] \in 0..MaxFrames
              /\ done[f] \in 0..MaxFrames
              /\ full[f] = done[f]
              /\ total_frames_[m] >= Length[f]
              /\ processed_frames_[f] >= Smaller(processed_frames_[m], Length[f])
  <2>1. f \in Nodes /\ f \in Files \ disturbed /\ f # m
    BY <1>4, <1>7
  <2>2. total_frames_[f] = Length[f] /\ total_frames_[m] >= Length[f]
    BY <1>1, <1>2, <1>7, <2>1 DEF PlayInv, TotalsInv
  <2>3. processed_frames_[f] >= Smaller(processed_frames_[m], Length[f])
    BY <1>1, <1>2, <1>7 DEF PlayInv, PaceInv
  <2> HIDE DEF done, full
  <2> QED
    BY <1>9, <1>10, <1>14, <2>1, <2>2, <2>3, LengthAssumption
<1>17. ASSUME NEW f \in Sources(m) \ disturbed', f \notin active
       PROVE  done[f] >= Length[f]
  <2>1. f \notin live
    BY <1>6, <1>17
  <2>2. AtEnd(f, processed_frames_)
    BY <2>1
  <2>3. done[f] = processed_frames_[f]
    BY <1>16, <1>17
  <2> QED
    BY <1>16, <2>2, <2>3 DEF AtEnd
<1>18. ASSUME NEW f \in Sources(m) \ disturbed', f \in active
       PROVE  done[f] >= processed_frames_[f] + 1
  <2>1. /\ Taken(m, f) \in Nat /\ Taken(m, f) >= 1
        /\ processed_frames_[f] + Taken(m, f) <= Length[f]
    BY <1>2, <1>3, <1>16, <1>18, TakesOne, TakenType
  <2>2. done[f] = Smaller(processed_frames_[f] + Taken(m, f), MaxFrames)
    BY <1>16, <1>18
  <2>3. processed_frames_[f] \in 0..MaxFrames /\ Length[f] \in 1..MaxFrames
    BY <1>16
  <2> HIDE DEF done, active
  <2> QED
    BY <2>1, <2>2, <2>3, LengthAssumption DEF Smaller
<1>19. ASSUME NEW f \in Sources(m) \ disturbed'
       PROVE  full[f] >= Smaller(full[m], Length[f])
  <2>1. /\ processed_frames_[m] \in 0..MaxFrames
        /\ full[m] = Smaller(processed_frames_[m] + 1, MaxFrames)
    BY <1>2, <1>9, <1>13
  <2>2. done[f] >= Length[f] \/ done[f] >= processed_frames_[f] + 1
    BY <1>17, <1>18
  <2>3. /\ Length[f] \in 1..MaxFrames /\ processed_frames_[f] \in 0..MaxFrames
        /\ done[f] \in 0..MaxFrames /\ full[f] = done[f]
        /\ processed_frames_[f] >= Smaller(processed_frames_[m], Length[f])
    BY <1>16
  <2> HIDE DEF done, full, active, live, m
  <2> QED
    BY <2>1, <2>2, <2>3, LengthAssumption DEF Smaller
<1>20. ASSUME AtEnd(m, full), NEW f \in Sources(m) \ disturbed'
       PROVE  full[f] >= total_frames_[f]
  <2>1. full[m] >= total_frames_[m]
    BY <1>20 DEF AtEnd
  <2>2. full[f] >= Smaller(full[m], Length[f])
    BY <1>19
  <2>3. full[m] \in 0..MaxFrames /\ total_frames_[m] \in 0..MaxFrames
    BY <1>2, <1>3, <1>12 DEF CountTypes
  <2>4. /\ Length[f] \in 1..MaxFrames /\ full[f] \in 0..MaxFrames
        /\ total_frames_[m] >= Length[f] /\ total_frames_[f] = Length[f]
    BY <1>12, <1>16
  <2> HIDE DEF done, full, active, live, m
  <2> QED
    BY <2>1, <2>2, <2>3, <2>4, LengthAssumption DEF Smaller
<1>21. CASE active = {} /\ advance_to_next_node(done)
  <2>1. \A f \in Sources(m) \ disturbed' : done[f] >= total_frames_[f]
    BY <1>16, <1>17, <1>21
  <2> HIDE DEF done, full, active, live
  <2> QED
    BY <1>1, <1>7, <1>11, <1>15, <1>21, <2>1, AdvanceKeepsPlay
<1>22. CASE EndTick(full)
  <2> HIDE DEF done, full, active, live
  <2> QED
    BY <1>1, <1>7, <1>12, <1>15, <1>19, <1>20, <1>22, EndTickKeepsPlay
<1> QED
  BY <1>6, <1>21, <1>22

\* set_max_frames of a mixer with inputs is the largest of their totals.
LEMMA MaxFramesIs ==
  ASSUME CountTypes, NEW m \in Mixers, NEW totals \in [Nodes -> 0..MaxFrames]
  PROVE  /\ set_max_frames(m, totals) \in 0..MaxFrames
         /\ \A f \in Sources(m) : set_max_frames(m, totals) >= totals[f]
<1>1. Sources(m) \subseteq Nodes
  BY SourcesAreFiles DEF Mixers, Files
<1>2. CASE Sources(m) = {}
  BY <1>2, LengthAssumption DEF set_max_frames
<1>3. CASE Sources(m) # {}
  <2> DEFINE T == {totals[f] : f \in Sources(m)}
  <2>1. T \in SUBSET (0..MaxFrames) /\ T # {}
    BY <1>1, <1>3
  <2>2. \E t \in T : \A u \in T : t >= u
    <3> HIDE DEF T
    <3> QED
      BY <2>1, Greatest, LengthAssumption
  <2>3. \E t \in T : \A f \in Sources(m) : t >= totals[f]
    BY <2>2
  <2>4. set_max_frames(m, totals) =
          CHOOSE t \in T : \A f \in Sources(m) : t >= totals[f]
    BY <1>3 DEF set_max_frames
  <2>5. /\ set_max_frames(m, totals) \in T
        /\ \A f \in Sources(m) : set_max_frames(m, totals) >= totals[f]
    <3> HIDE DEF T
    <3> QED
      BY <2>3, <2>4
  <2> QED
    BY <2>1, <2>5
<1> QED
  BY <1>2, <1>3

\* initialize_nodes: the totals are those of the files that could be opened.
LEMMA InitializeKeepsPlay ==
  ASSUME PlayInv, initialize_nodes
  PROVE  PlayInv'
<1>1. PICK unopened \in SUBSET Files :
        LET opened == [n \in Nodes |->
                         IF n \in Files \ unopened THEN Length[n]
                         ELSE total_frames_[n]]
        IN  /\ total_frames_' =
                  [n \in Nodes |-> IF Kind[n] = "Mixer"
                                   THEN set_max_frames(n, opened)
                                   ELSE opened[n]]
            /\ disturbed' = unopened
  BY DEF initialize_nodes
<1> DEFINE opened == [n \in Nodes |-> IF n \in Files \ unopened THEN Length[n]
                                      ELSE total_frames_[n]]
<1>2. /\ total_frames_' = [n \in Nodes |-> IF Kind[n] = "Mixer"
                                           THEN set_max_frames(n, opened)
                                           ELSE opened[n]]
      /\ disturbed' = unopened
  BY <1>1
<1>3. /\ phase = "fetching" /\ phase' = "prepared"
      /\ UNCHANGED <<inputs_, processed_frames_, cut>>
  BY DEF initialize_nodes, wiring
<1>4. CountTypes
  BY DEF PlayInv
<1>5. opened \in [Nodes -> 0..MaxFrames]
  BY <1>4, LengthAssumption DEF CountTypes
<1>6. \A f \in Files \ unopened : opened[f] = Length[f]
  BY DEF Files
<1>7. \A n \in Nodes : Sources(n)' = Sources(n)
  BY <1>3 DEF Sources
<1> HIDE DEF opened
<1>8. ASSUME NEW m \in Mixers
      PROVE  /\ total_frames_'[m] \in 0..MaxFrames
             /\ \A f \in Sources(m) : total_frames_'[m] >= opened[f]
  <2>1. total_frames_'[m] = set_max_frames(m, opened)
    BY <1>2 DEF Mixers
  <2> QED
    BY <1>4, <1>5, <2>1, MaxFramesIs
<1>9. \A n \in Nodes \ Mixers : total_frames_'[n] = opened[n]
  BY <1>2 DEF Mixers
<1>10. total_frames_' \in [Nodes -> 0..MaxFrames]
  <2>1. \A n \in Nodes : total_frames_'[n] \in 0..MaxFrames
    BY <1>5, <1>8, <1>9
  <2>2. total_frames_' = [n \in Nodes |-> total_frames_'[n]]
    BY <1>2
  <2> QED
    BY <2>1, <2>2
<1>11. CountTypes'
  BY <1>2, <1>3, <1>4, <1>10 DEF CountTypes
<1>12. TotalsInv'
  <2>1. \A f \in Files \ disturbed' : total_frames_'[f] = Length[f]
    BY <1>2, <1>6, <1>9 DEF Files, Mixers
  <2>2. ASSUME NEW m \in Mixers, NEW f \in Sources(m) \ disturbed'
        PROVE  total_frames_'[m] >= Length[f]
    <3>1. f \in Files \ unopened
      BY <1>2, <1>4, SourcesAreFiles DEF Mixers
    <3> QED
      BY <1>6, <1>8, <3>1
  <2>3. \A m \in Mixers : Sources(m)' = Sources(m)
    BY <1>7 DEF Mixers
  <2> QED
    BY <2>1, <2>2, <2>3 DEF TotalsInv
<1>13. PaceInv'
  BY <1>3 DEF PlayInv, PaceInv
<1> QED
  BY <1>3, <1>11, <1>12, <1>13 DEF PlayInv

\* A background refill changes the total of a file, and marks the file when
\* it does not open.
LEMMA RefillKeepsPlay ==
  ASSUME PlayInv, NEW f \in Files, RefillEnds(f) \/ Reopen(f)
  PROVE  PlayInv'
<1>1. f \in Nodes /\ f \notin Mixers /\ Length[f] \in 0..MaxFrames
  BY LengthAssumption DEF Files, Mixers
<1>2. /\ phase = "playing"
      /\ UNCHANGED <<phase, inputs_, processed_frames_, current_node_, cut>>
  BY DEF RefillEnds, Reopen, wiring
<1>3. \/ /\ total_frames_' = [total_frames_ EXCEPT ![f] = Length[f]]
         /\ disturbed' = disturbed
      \/ /\ total_frames_' = [total_frames_ EXCEPT ![f] = 0]
         /\ disturbed' = disturbed \cup {f}
  BY DEF RefillEnds, Reopen
<1>4. \A n : Sources(n)' = Sources(n)
  BY <1>2 DEF Sources
<1>5. Sources(current_node_)' = Sources(current_node_)
  BY <1>2 DEF Sources
<1>6. CountTypes'
  <2>1. total_frames_ \in [Nodes -> 0..MaxFrames] /\ 0 \in 0..MaxFrames
    BY LengthAssumption DEF PlayInv, CountTypes
  <2>2. total_frames_' \in [Nodes -> 0..MaxFrames]
    BY <1>1, <1>3, <2>1
  <2>3. disturbed' \subseteq Files
    BY <1>3 DEF PlayInv, CountTypes
  <2> QED
    BY <1>2, <2>2, <2>3 DEF PlayInv, CountTypes
<1>7. TotalsInv'
  <2>1. ASSUME NEW g \in Files \ disturbed' PROVE total_frames_'[g] = Length[g]
    <3>1. total_frames_ \in [Nodes -> 0..MaxFrames] /\ g \in Nodes
      BY DEF PlayInv, CountTypes, Files
    <3>2. g \in Files \ disturbed
      BY <1>3
    <3>3. total_frames_[g] = Length[g]
      BY <1>2, <3>2 DEF PlayInv, TotalsInv
    <3> QED
      BY <1>1, <1>3, <3>1, <3>3
  <2>2. \A m \in Mixers : total_frames_'[m] = total_frames_[m]
    BY <1>1, <1>3 DEF PlayInv, CountTypes, Mixers
  <2>3. disturbed \subseteq disturbed'
    BY <1>3
  <2> QED
    BY <1>2, <1>4, <2>1, <2>2, <2>3 DEF PlayInv, TotalsInv
<1>8. PaceInv'
  <2>1. disturbed \subseteq disturbed'
    BY <1>3
  <2> QED
    BY <1>2, <1>5, <2>1 DEF PlayInv, PaceInv
<1> QED
  BY <1>2, <1>6, <1>7, <1>8 DEF PlayInv

\* An edge: the inputs of a mixer are files.
LEMMA ConnectKeepsPlay ==
  ASSUME PlayInv, NEW source \in Nodes, NEW target \in Nodes,
         connect_input(source, target)
  PROVE  PlayInv'
<1>1. /\ phase = "parsing"
      /\ UNCHANGED <<phase, total_frames_, processed_frames_, disturbed, cut>>
  BY DEF connect_input, play
<1>2. inputs_' \in [Nodes -> Seq(Files)]
  <2>1. inputs_ \in [Nodes -> Seq(Files)]
    BY DEF PlayInv, CountTypes
  <2>2. CASE Kind[target] = "Mixer" /\ Kind[source] = "FileInput"
    <3>1. inputs_' = [inputs_ EXCEPT ![target] = Append(inputs_[target], source)]
      BY <2>1, <2>2 DEF connect_input
    <3>2. source \in Files
      BY <2>2 DEF Files
    <3>3. Append(inputs_[target], source) \in Seq(Files)
      BY <2>1, <3>2
    <3> QED
      BY <2>1, <3>1, <3>3
  <2>3. CASE ~(Kind[target] = "Mixer" /\ Kind[source] = "FileInput")
    BY <2>1, <2>3 DEF connect_input
  <2> QED
    BY <2>2, <2>3
<1>3. CountTypes'
  BY <1>1, <1>2 DEF PlayInv, CountTypes
<1>4. TotalsInv' /\ PaceInv'
  BY <1>1 DEF PlayInv, TotalsInv, PaceInv
<1> QED
  BY <1>1, <1>3, <1>4 DEF PlayInv

\* Every step keeps the counting right.
LEMMA PlayStep ==
  ASSUME PlayInv, WalkInv, [Next]_vars
  PROVE  PlayInv'
<1> DEFINE Still == UNCHANGED <<inputs_, play>>
<1>1. ASSUME Still, UNCHANGED phase
      PROVE  PlayInv'
  <2>1. UNCHANGED <<inputs_, total_frames_, processed_frames_, current_node_,
                    disturbed, cut>>
    BY <1>1 DEF play
  <2>2. \A n : Sources(n)' = Sources(n)
    BY <2>1 DEF Sources
  <2>3. Sources(current_node_)' = Sources(current_node_)
    BY <2>1 DEF Sources
  <2>4. CountTypes'
    BY <2>1 DEF PlayInv, CountTypes
  <2>5. TotalsInv'
    BY <1>1, <2>1, <2>2 DEF PlayInv, TotalsInv
  <2>6. PaceInv'
    BY <1>1, <2>1, <2>3 DEF PlayInv, PaceInv
  <2> QED
    BY <2>1, <2>4, <2>5, <2>6 DEF PlayInv
<1>2. ASSUME Still, phase' \in {"rejected", "fetching", "failed"},
             phase \notin {"playing", "over"}
      PROVE  PlayInv'
  <2>1. UNCHANGED <<inputs_, total_frames_, processed_frames_, disturbed, cut>>
    BY <1>2 DEF play
  <2>2. CountTypes'
    BY <2>1 DEF PlayInv, CountTypes
  <2>3. TotalsInv' /\ PaceInv'
    BY <1>2, <2>1 DEF PlayInv, TotalsInv, PaceInv
  <2> QED
    BY <2>1, <2>2, <2>3 DEF PlayInv
<1>3. CASE \E source, target \in Nodes : connect_input(source, target)
  BY <1>3, ConnectKeepsPlay
<1>4. CASE ParseFails
  BY <1>2, <1>4 DEF ParseFails, wiring
<1>5. CASE ensure_assets_exist
  BY <1>2, <1>5 DEF ensure_assets_exist, wiring
<1>6. CASE \E f \in Files : EnsureEnds(f)
  BY <1>1, <1>6 DEF EnsureEnds, wiring
<1>7. CASE Receive
  BY <1>1, <1>7 DEF Receive, wiring
<1>8. CASE FetchFails
  BY <1>2, <1>8 DEF FetchFails, wiring
<1>9. CASE initialize_nodes
  BY <1>9, InitializeKeepsPlay
<1>10. CASE Begin
  <2>1. phase = "prepared" /\ phase' = "playing"
        /\ UNCHANGED <<inputs_, total_frames_, processed_frames_, current_node_,
                       disturbed, cut>>
    BY <1>10 DEF Begin, wiring, play
  <2>2. \A n : Sources(n)' = Sources(n)
    BY <2>1 DEF Sources
  <2>3. Sources(current_node_)' = Sources(current_node_)
    BY <2>1 DEF Sources
  <2>4. CountTypes'
    BY <2>1 DEF PlayInv, CountTypes
  <2>5. TotalsInv'
    BY <2>1, <2>2 DEF PlayInv, TotalsInv
  <2>6. ASSUME current_node_ \in Mixers, NEW f \in Sources(current_node_)
        PROVE  processed_frames_[f] >=
                   Smaller(processed_frames_[current_node_], Length[f])
    <3>1. f \in Files
      BY <2>6, SourcesAreFiles DEF PlayInv, Mixers
    <3>2. f \in Nodes /\ current_node_ \in Nodes
      BY <2>6, <3>1 DEF Files, Mixers
    <3>3. processed_frames_[f] = 0 /\ processed_frames_[current_node_] = 0
      BY <2>1, <3>2 DEF PlayInv, PaceInv
    <3>4. Length[f] \in 1..MaxFrames
      BY <3>2, LengthAssumption
    <3> QED
      BY <3>3, <3>4, LengthAssumption DEF Smaller
  <2>7. \A m \in Mixers : processed_frames_[m] = 0
    BY <2>1 DEF PlayInv, PaceInv, Mixers
  <2>8. PaceInv'
    BY <2>1, <2>3, <2>6, <2>7 DEF PaceInv
  <2> QED
    BY <2>1, <2>4, <2>5, <2>8 DEF PlayInv
<1>11. CASE FrameOfFile
  BY <1>11, FileKeepsPlay
<1>12. CASE Underrun
  <2>1. /\ phase = "playing" /\ Kind[current_node_] = "FileInput"
        /\ UNCHANGED <<wiring, total_frames_, processed_frames_, phase, cut,
                       current_node_>>
        /\ disturbed' = disturbed \cup {current_node_}
    BY <1>12 DEF Underrun, Playing
  <2>2. current_node_ \in Files /\ current_node_ \notin Mixers
    BY <2>1 DEF WalkInv, Files, Mixers
  <2>3. disturbed' \subseteq Files /\ processed_frames_ \in [Nodes -> 0..MaxFrames]
    BY <2>1, <2>2 DEF PlayInv, CountTypes
  <2>4. \A m \in Mixers : m # current_node_ => processed_frames_[m] = 0
    BY <2>1 DEF PlayInv, PaceInv
  <2> QED
    BY <2>1, <2>2, <2>3, <2>4, StayKeepsPlay
<1>13. CASE FrameOfDelay
  BY <1>13, DelayKeepsPlay
<1>14. CASE FrameOfMixer
  BY <1>14, MixerKeepsPlay
<1>15. CASE FrameOfOther
  <2>1. phase' = "over" /\ UNCHANGED <<inputs_, total_frames_, processed_frames_,
                                       disturbed, cut>>
    BY <1>15 DEF FrameOfOther, wiring, play
  <2> QED
    BY <2>1 DEF PlayInv, CountTypes, TotalsInv, PaceInv
<1>16. CASE \E f \in Files : RefillEnds(f) \/ Reopen(f)
  BY <1>16, RefillKeepsPlay
<1>17. CASE UNCHANGED vars
  BY <1>1, <1>17 DEF vars, wiring
<1> QED
  BY <1>3, <1>4, <1>5, <1>6, <1>7, <1>8, <1>9, <1>10, <1>11, <1>12, <1>13,
     <1>14, <1>15, <1>16, <1>17 DEF Next, Prepare, Tick

\* Nothing is counted at first.
LEMMA InitPlays ==
  ASSUME Init
  PROVE  PlayInv
<1>1. total_frames_ \in [Nodes -> 0..MaxFrames]
  BY LengthAssumption DEF Init
<1>2. processed_frames_ \in [Nodes -> 0..MaxFrames]
  BY LengthAssumption DEF Init
<1>3. inputs_ \in [Nodes -> Seq(Files)]
  BY DEF Init
<1> QED
  BY <1>1, <1>2, <1>3 DEF Init, PlayInv, CountTypes, TotalsInv, PaceInv

\* In any graph, with files of any length, a mixer or a walk closes no file
\* before its end, unless the file underran or could not be opened.
THEOREM NothingCut == Spec => []PlayedToTheEnd
<1>1. Init => WalkInv
  BY NodesAssumption DEF Init, WalkInv, OnlyStartUnsupported, Phases
<1>2. Init => PlayInv
  BY InitPlays
<1>3. WalkInv /\ PlayInv /\ [Next]_vars => (WalkInv /\ PlayInv)'
  BY WalkStep, PlayStep
<1>4. PlayInv => PlayedToTheEnd
  BY DEF PlayInv, PlayedToTheEnd
<1> QED
  BY <1>1, <1>2, <1>3, <1>4, PTL DEF Spec

-----------------------------------------------------------------------------
(* The walk over the graph.                                                *)

Size == Cardinality(Nodes)
Wired == /\ start_node \in Nodes
         /\ target_ \in [Nodes -> Nodes \cup {None}]

\* next(), with nothing after the end.
After(n) == IF n = None THEN None ELSE target_[n]

\* g is the walk as far as its first n steps.
WalkTo(g, n) == /\ g \in [0..n -> Nodes \cup {None}]
                /\ g[0] = start_node
                /\ \A k \in 0..(n - 1) : g[k + 1] = After(g[k])

\* The recursion that defines Walk.
WalkStepOf(g) == [k \in 0..Size |->
                    IF k = 0 THEN start_node
                    ELSE IF g[k - 1] = None THEN None ELSE target_[g[k - 1]]]

\* There are finitely many nodes, and at least one.
LEMMA SizeIs ==
  ASSUME Wired
  PROVE  Size \in Nat /\ Size >= 1
<1>1. Size \in Nat
  BY NodesAssumption, FS_CardinalityType DEF Size
<1>2. Size # 0
  BY NodesAssumption, FS_EmptySet DEF Size, Wired
<1> QED
  BY <1>1, <1>2

\* next() of a node is a node or nothing.
LEMMA AfterType ==
  ASSUME Wired, NEW n \in Nodes \cup {None}
  PROVE  After(n) \in Nodes \cup {None}
BY DEF Wired, After

\* The walk can be taken as far as one likes.
LEMMA WalkExists ==
  ASSUME Wired, NEW n \in Nat
  PROVE  \E g : WalkTo(g, n)
<1> DEFINE Bad == {i \in Nat : ~\E g : WalkTo(g, i)}
<1> SUFFICES ASSUME Bad # {} PROVE FALSE
  OBVIOUS
<1>1. PICK i \in Bad : \A j \in Bad : i <= j
  <2>1. Bad \in SUBSET Nat
    OBVIOUS
  <2> HIDE DEF Bad
  <2> QED
    BY <2>1, Least
<1>2. i \in Nat /\ ~\E g : WalkTo(g, i)
  OBVIOUS
<1>3. CASE i = 0
  <2>1. WalkTo([k \in 0..0 |-> start_node], 0)
    BY DEF WalkTo, Wired
  <2> QED
    BY <1>2, <1>3, <2>1
<1>4. CASE i # 0
  <2>1. i - 1 \in Nat /\ i - 1 \notin Bad
    <3>1. i - 1 \in Nat /\ ~(i <= i - 1)
      BY <1>2, <1>4
    <3> HIDE DEF Bad
    <3> QED
      BY <1>1, <3>1
  <2>2. PICK g : WalkTo(g, i - 1)
    BY <2>1
  <2> DEFINE h == [k \in 0..i |-> IF k = i THEN After(g[i - 1]) ELSE g[k]]
  <2>3. g \in [0..(i - 1) -> Nodes \cup {None}] /\ g[0] = start_node
        /\ \A k \in 0..((i - 1) - 1) : g[k + 1] = After(g[k])
    BY <2>2 DEF WalkTo
  <2>4. After(g[i - 1]) \in Nodes \cup {None}
    BY <2>1, <2>3, AfterType
  <2>5. h \in [0..i -> Nodes \cup {None}]
    BY <1>2, <2>3, <2>4
  <2>6. h[0] = start_node
    BY <1>2, <1>4, <2>3
  <2>7. ASSUME NEW k \in 0..(i - 1) PROVE h[k + 1] = After(h[k])
    <3>1. h[k] = g[k]
      BY <1>2
    <3>2. CASE k = i - 1
      <4>1. k + 1 = i
        BY <1>2, <3>2
      <4> QED
        BY <1>2, <3>1, <3>2, <4>1
    <3>3. CASE k # i - 1
      <4>1. k + 1 \in 0..i /\ k + 1 # i /\ k \in 0..((i - 1) - 1)
        BY <1>2, <3>3
      <4>2. h[k + 1] = g[k + 1]
        BY <4>1
      <4> QED
        BY <2>3, <3>1, <4>1, <4>2
    <3> QED
      BY <3>2, <3>3
  <2>8. WalkTo(h, i)
    <3> HIDE DEF h
    <3> QED
      BY <2>5, <2>6, <2>7 DEF WalkTo
  <2> QED
    BY <1>2, <2>8
<1> QED
  BY <1>3, <1>4

\* Walk is the walk over as many steps as there are nodes.
LEMMA WalkIs ==
  ASSUME Wired
  PROVE  WalkTo(Walk, Size)
<1>1. Size \in Nat
  BY SizeIs
<1>2. PICK g : WalkTo(g, Size)
  BY <1>1, WalkExists
<1>3. g = WalkStepOf(g)
  <2>1. g \in [0..Size -> Nodes \cup {None}]
    BY <1>2 DEF WalkTo
  <2>2. ASSUME NEW k \in 0..Size PROVE g[k] = WalkStepOf(g)[k]
    <3>1. CASE k = 0
      BY <1>2, <3>1 DEF WalkTo, WalkStepOf
    <3>2. CASE k # 0
      <4>1. k - 1 \in 0..(Size - 1) /\ (k - 1) + 1 = k
        BY <1>1, <3>2
      <4>2. g[(k - 1) + 1] = After(g[k - 1])
        BY <1>2, <4>1 DEF WalkTo
      <4>3. g[k] = After(g[k - 1])
        BY <4>1, <4>2
      <4> QED
        BY <3>2, <4>3 DEF After, WalkStepOf
    <3> QED
      BY <3>1, <3>2
  <2>3. WalkStepOf(g) = [k \in 0..Size |-> WalkStepOf(g)[k]]
    BY DEF WalkStepOf
  <2> QED
    BY <2>1, <2>2, <2>3
<1>4. Walk = CHOOSE f : f = WalkStepOf(f)
  BY DEF Walk, WalkStepOf, Size
<1>5. Walk = WalkStepOf(Walk)
  BY <1>3, <1>4
<1>6. Walk = [k \in 0..Size |-> Walk[k]]
  BY <1>5 DEF WalkStepOf
<1>7. Walk[0] = start_node
  <2>1. WalkStepOf(Walk)[0] = start_node
    BY <1>1 DEF WalkStepOf
  <2> QED
    BY <1>5, <2>1
<1>8. ASSUME NEW k \in 0..(Size - 1) PROVE Walk[k + 1] = After(Walk[k])
  <2>1. k + 1 \in 0..Size /\ k + 1 # 0 /\ (k + 1) - 1 = k
    BY <1>1
  <2>2. WalkStepOf(Walk)[k + 1] = After(Walk[(k + 1) - 1])
    BY <2>1 DEF WalkStepOf, After
  <2> QED
    BY <1>5, <2>1, <2>2
<1>9. \A k \in 0..Size : Walk[k] \in Nodes \cup {None}
  <2> DEFINE Bad == {k \in 0..Size : Walk[k] \notin Nodes \cup {None}}
  <2> SUFFICES ASSUME Bad # {} PROVE FALSE
    OBVIOUS
  <2>1. Bad \in SUBSET Nat /\ Bad \subseteq 0..Size
    OBVIOUS
  <2>2. PICK i \in Bad : \A j \in Bad : i <= j
    <3> HIDE DEF Bad
    <3> QED
      BY <2>1, Least
  <2>3. i \in 0..Size /\ Walk[i] \notin Nodes \cup {None}
    OBVIOUS
  <2>4. i # 0
    BY <1>7, <2>3 DEF Wired
  <2>5. i - 1 \in 0..(Size - 1) /\ i - 1 \in 0..Size /\ ~(i <= i - 1)
        /\ (i - 1) + 1 = i
    BY <1>1, <2>3, <2>4
  <2>6. Walk[i - 1] \in Nodes \cup {None}
    BY <2>2, <2>5
  <2>7. Walk[i] = After(Walk[i - 1])
    BY <1>8, <2>5
  <2> QED
    BY <2>3, <2>6, <2>7, AfterType
<1>10. Walk \in [0..Size -> Nodes \cup {None}]
  BY <1>6, <1>9
<1> QED
  BY <1>7, <1>8, <1>10 DEF WalkTo

\* S is a set of nodes that next() does not leave.
Closed(S) == S \in SUBSET Nodes /\ \A n \in S : target_[n] \in S \cup {None}

\* A walk that has come into such a set, or to its end, stays there.
LEMMA WalkStays ==
  ASSUME Wired, NEW S, Closed(S), NEW a \in 0..Size, Walk[a] \in S \cup {None},
         NEW k \in a..Size
  PROVE  Walk[k] \in S \cup {None}
<1> DEFINE Bad == {i \in a..Size : Walk[i] \notin S \cup {None}}
<1> SUFFICES ASSUME Bad # {} PROVE FALSE
  OBVIOUS
<1>1. Size \in Nat /\ WalkTo(Walk, Size)
  BY SizeIs, WalkIs
<1>2. Bad \in SUBSET Nat
  BY <1>1
<1>3. PICK i \in Bad : \A j \in Bad : i <= j
  <2> HIDE DEF Bad
  <2> QED
    BY <1>2, Least
<1>4. i \in a..Size /\ Walk[i] \notin S \cup {None} /\ i # a
  OBVIOUS
<1>5. /\ i - 1 \in a..Size /\ i - 1 \in 0..(Size - 1) /\ (i - 1) + 1 = i
      /\ ~(i <= i - 1)
  BY <1>1, <1>4
<1>6. Walk[i - 1] \in S \cup {None}
  BY <1>3, <1>5
<1>7. Walk[i] = After(Walk[i - 1])
  BY <1>1, <1>5 DEF WalkTo
<1> QED
  BY <1>4, <1>6, <1>7 DEF After, Closed

\* The walk has come to its end, or for the first time to a node again, after
\* K steps.
Lasso(K) ==
    /\ K \in 1..Size
    /\ \A i \in 0..(K - 1) : Walk[i] \in Nodes
    /\ \A i, j \in 0..(K - 1) : Walk[i] = Walk[j] => i = j
    /\ Walk[K] = None \/ \E j \in 0..(K - 1) : Walk[j] = Walk[K]

\* A walk of as many steps as there are nodes ends or comes to a node again.
LEMMA LassoExists ==
  ASSUME Wired
  PROVE  \E K : Lasso(K)
<1> DEFINE E == {k \in 0..Size :
                   Walk[k] = None \/ \E j \in 0..(k - 1) : Walk[j] = Walk[k]}
<1>1. Size \in Nat /\ Size >= 1 /\ WalkTo(Walk, Size)
  BY SizeIs, WalkIs
<1>2. Walk \in [0..Size -> Nodes \cup {None}]
  BY <1>1 DEF WalkTo
<1>3. E # {}
  <2> SUFFICES ASSUME E = {} PROVE FALSE
    OBVIOUS
  <2>1. Walk \in [0..Size -> Nodes]
    BY <1>2
  <2>2. IsFiniteSet(0..Size) /\ Cardinality(0..Size) = Size + 1
    BY <1>1, FS_Interval
  <2>3. Cardinality(Nodes) < Cardinality(0..Size)
    BY <1>1, <2>2 DEF Size
  <2>4. \E x, y \in 0..Size : x # y /\ Walk[x] = Walk[y]
    <3> HIDE DEF E
    <3> QED
      BY <2>1, <2>2, <2>3, NodesAssumption, FS_PigeonHole
  <2>5. PICK x \in 0..Size : \E y \in 0..Size : x # y /\ Walk[x] = Walk[y]
    BY <2>4
  <2>6. PICK y \in 0..Size : x # y /\ Walk[x] = Walk[y]
    BY <2>5
  <2>7. x \in 0..(y - 1) \/ y \in 0..(x - 1)
    BY <1>1, <2>6
  <2> QED
    BY <2>6, <2>7
<1>4. E \in SUBSET Nat
  BY <1>1
<1>5. PICK K \in E : \A k \in E : K <= k
  <2> HIDE DEF E
  <2> QED
    BY <1>3, <1>4, Least
<1>6. K \in 0..Size
      /\ (Walk[K] = None \/ \E j \in 0..(K - 1) : Walk[j] = Walk[K])
  OBVIOUS
<1>7. K # 0
  <2> SUFFICES ASSUME K = 0 PROVE FALSE
    OBVIOUS
  <2>1. Walk[0] = start_node /\ start_node # None
    BY <1>1, NodesAssumption DEF WalkTo, Wired
  <2>2. 0..(K - 1) = {}
    OBVIOUS
  <2> QED
    BY <1>6, <2>1, <2>2
<1>8. K \in 1..Size
  BY <1>1, <1>6, <1>7
<1>9. ASSUME NEW i \in 0..(K - 1)
      PROVE  /\ Walk[i] \in Nodes
             /\ \A j \in 0..(i - 1) : Walk[j] # Walk[i]
  <2>1. i \in 0..Size /\ ~(K <= i)
    BY <1>1, <1>8
  <2>2. i \notin E
    <3> HIDE DEF E
    <3> QED
      BY <1>5, <2>1
  <2> QED
    BY <1>2, <2>1, <2>2
<1>10. ASSUME NEW i \in 0..(K - 1), NEW j \in 0..(K - 1), Walk[i] = Walk[j]
       PROVE  i = j
  <2>1. i = j \/ i \in 0..(j - 1) \/ j \in 0..(i - 1)
    BY <1>8
  <2> HIDE DEF E
  <2> QED
    BY <1>9, <1>10, <2>1
<1> HIDE DEF E
<1>11. Lasso(K)
  BY <1>6, <1>8, <1>9, <1>10 DEF Lasso
<1> QED
  BY <1>11

\* From any place up to which it comes back, the rest of the walk is closed.
LEMMA LassoCloses ==
  ASSUME Wired, NEW K, Lasso(K), NEW a \in 0..(K - 1),
         Walk[K] = None \/ \E j \in a..(K - 1) : Walk[j] = Walk[K]
  PROVE  Closed({Walk[i] : i \in a..(K - 1)})
<1> DEFINE S == {Walk[i] : i \in a..(K - 1)}
<1>1. Size \in Nat /\ WalkTo(Walk, Size) /\ K \in 1..Size
  BY SizeIs, WalkIs DEF Lasso
<1>2. \A i \in a..(K - 1) : i \in 0..(K - 1) /\ i \in 0..(Size - 1)
  BY <1>1
<1>3. S \in SUBSET Nodes
  BY <1>2 DEF Lasso
<1>4. ASSUME NEW n \in S PROVE target_[n] \in S \cup {None}
  <2>1. PICK i \in a..(K - 1) : n = Walk[i]
    OBVIOUS
  <2>2. Walk[i] # None
    BY <1>3, NodesAssumption
  <2>3. Walk[i + 1] = target_[n]
    BY <1>1, <1>2, <2>1, <2>2 DEF WalkTo, After
  <2>4. i + 1 \in a..(K - 1) \/ i + 1 = K
    BY <1>1
  <2>5. Walk[K] \in S \cup {None}
    OBVIOUS
  <2>6. CASE i + 1 \in a..(K - 1)
    BY <2>3, <2>6
  <2>7. CASE i + 1 = K
    <3> HIDE DEF S
    <3> QED
      BY <2>3, <2>5, <2>7
  <2> QED
    BY <2>4, <2>6, <2>7
<1> HIDE DEF S
<1>5. Closed(S)
  BY <1>3, <1>4 DEF Closed
<1> QED
  BY <1>5 DEF S

\* The nodes that the walk comes back to, and what plays from them.
Again == {n \in Nodes : /\ Leads(start_node, n)
                        /\ target_[n] # None
                        /\ Leads(target_[n], n)}
Looping == Again \cup UNION {Sources(n) : n \in Again}

\* A closed set holds all that follows its members.
LEMMA LeadsInto ==
  ASSUME NEW S, Closed(S), NEW a \in S, NEW b, Leads(a, b)
  PROVE  b \in S
BY DEF Leads, Closed

\* The walk leads from each of its nodes to the later ones.
LEMMA WalkLeads ==
  ASSUME Wired, NEW i \in 0..Size, NEW k \in i..Size, Walk[k] # None
  PROVE  Leads(Walk[i], Walk[k])
<1> SUFFICES ASSUME NEW S \in SUBSET Nodes, Walk[i] \in S,
                    \A n \in S : target_[n] \in S \cup {None}
             PROVE  Walk[k] \in S
  BY DEF Leads
<1>1. Closed(S)
  BY DEF Closed
<1> QED
  BY <1>1, WalkStays

\* What the start node leads to lies on the walk before it ends or closes.
LEMMA LassoHoldsAll ==
  ASSUME Wired, NEW K, Lasso(K), NEW n, Leads(start_node, n)
  PROVE  \E j \in 0..(K - 1) : n = Walk[j]
<1>1. Size \in Nat /\ WalkTo(Walk, Size) /\ K \in 1..Size
  BY SizeIs, WalkIs DEF Lasso
<1>2. 0 \in 0..(K - 1)
  BY <1>1
<1>3. Closed({Walk[i] : i \in 0..(K - 1)})
  BY <1>2, LassoCloses DEF Lasso
<1>4. start_node \in {Walk[i] : i \in 0..(K - 1)}
  BY <1>1, <1>2 DEF WalkTo
<1>5. n \in {Walk[i] : i \in 0..(K - 1)}
  BY <1>3, <1>4, LeadsInto
<1> QED
  BY <1>5

\* A node of the walk that is led to from its successor is reached again: the
\* walk comes back, and to a place not after it.
LEMMA LassoComesBack ==
  ASSUME Wired, NEW K, Lasso(K), NEW j \in 0..(K - 1),
         Leads(target_[Walk[j]], Walk[j]), target_[Walk[j]] # None
  PROVE  /\ Walk[K] # None
         /\ \A f \in 0..(K - 1) : Walk[f] = Walk[K] => f <= j
<1>1. Size \in Nat /\ WalkTo(Walk, Size) /\ K \in 1..Size
  BY SizeIs, WalkIs DEF Lasso
<1>2. Walk[j] \in Nodes
  BY DEF Lasso
<1>3. j \in 0..(Size - 1) /\ Walk[j] # None
  BY <1>1, <1>2, NodesAssumption
<1>4. Walk[j + 1] = target_[Walk[j]]
  BY <1>1, <1>3 DEF WalkTo, After
<1> SUFFICES ASSUME \/ Walk[K] = None
                    \/ \E f \in 0..(K - 1) : Walk[f] = Walk[K] /\ ~(f <= j)
             PROVE  FALSE
  OBVIOUS
<1>5. Walk[K] = None \/ \E f \in (j + 1)..(K - 1) : Walk[f] = Walk[K]
  BY <1>1
<1>6. j + 1 \in 0..(K - 1)
  <2>1. CASE j = K - 1
    <3>1. j + 1 = K /\ (j + 1)..(K - 1) = {}
      BY <1>1, <2>1
    <3> QED
      BY <1>4, <1>5, <3>1
  <2>2. CASE j # K - 1
    BY <1>1, <2>2
  <2> QED
    BY <2>1, <2>2
<1>7. Closed({Walk[i] : i \in (j + 1)..(K - 1)})
  BY <1>5, <1>6, LassoCloses
<1>8. j + 1 \in (j + 1)..(K - 1)
  BY <1>1, <1>6
<1>9. target_[Walk[j]] \in {Walk[i] : i \in (j + 1)..(K - 1)}
  BY <1>4, <1>8
<1>10. Walk[j] \in {Walk[i] : i \in (j + 1)..(K - 1)}
  BY <1>7, <1>9, LeadsInto
<1>11. PICK i \in (j + 1)..(K - 1) : Walk[j] = Walk[i]
  BY <1>10
<1>12. i \in 0..(K - 1) /\ i # j
  BY <1>1
<1> QED
  BY <1>11, <1>12 DEF Lasso

\* A walk that ends comes back to nothing.
LEMMA EndingWalk ==
  ASSUME Wired, NEW K, Lasso(K), Walk[K] = None
  PROVE  Again = {}
<1> SUFFICES ASSUME NEW n \in Again PROVE FALSE
  OBVIOUS
<1>1. Leads(start_node, n) /\ target_[n] # None /\ Leads(target_[n], n)
  BY DEF Again
<1>2. PICK j \in 0..(K - 1) : n = Walk[j]
  BY <1>1, LassoHoldsAll
<1> QED
  BY <1>1, <1>2, LassoComesBack

\* A walk that closes comes back to the nodes from the first to the second
\* time round, and to no others.
LEMMA ClosingWalk ==
  ASSUME Wired, NEW K, Lasso(K), NEW f \in 0..(K - 1), Walk[f] = Walk[K]
  PROVE  Again = {Walk[i] : i \in f..(K - 1)}
<1>1. Size \in Nat /\ WalkTo(Walk, Size) /\ K \in 1..Size
  BY SizeIs, WalkIs DEF Lasso
<1>2. Walk[0] = start_node
  BY <1>1 DEF WalkTo
<1>3. Walk[K] # None
  BY NodesAssumption DEF Lasso
<1>4. ASSUME NEW n \in Again PROVE n \in {Walk[i] : i \in f..(K - 1)}
  <2>1. Leads(start_node, n) /\ target_[n] # None /\ Leads(target_[n], n)
    BY DEF Again
  <2>2. PICK j \in 0..(K - 1) : n = Walk[j]
    BY <2>1, LassoHoldsAll
  <2>3. f <= j
    BY <2>1, <2>2, LassoComesBack
  <2>4. j \in f..(K - 1)
    BY <1>1, <2>3
  <2> QED
    BY <2>2, <2>4
<1>5. ASSUME NEW i \in f..(K - 1) PROVE Walk[i] \in Again
  <2>1. /\ i \in 0..(K - 1) /\ i \in 0..(Size - 1) /\ i + 1 \in 0..Size
        /\ K \in (i + 1)..Size /\ i \in 0..Size /\ 0 \in 0..Size
        /\ f \in 0..Size /\ i \in f..Size /\ K \in 0..Size
    BY <1>1
  <2>2. Walk[i] \in Nodes /\ Walk[i] # None
    BY <2>1, NodesAssumption DEF Lasso
  <2>3. Leads(start_node, Walk[i])
    BY <1>2, <2>1, <2>2, WalkLeads
  <2>4. Walk[i + 1] = target_[Walk[i]]
    BY <1>1, <2>1, <2>2 DEF WalkTo, After
  <2>5. Leads(Walk[i + 1], Walk[K])
    BY <1>3, <2>1, WalkLeads
  <2>6. Leads(Walk[f], Walk[i])
    BY <2>1, <2>2, WalkLeads
  <2>7. Leads(Walk[i + 1], Walk[i])
    BY <2>5, <2>6 DEF Leads
  <2>8. Walk[i + 1] # None
    <3> SUFFICES ASSUME Walk[i + 1] = None PROVE FALSE
      OBVIOUS
    <3>1. Closed({})
      BY DEF Closed
    <3>2. Walk[K] \in {} \cup {None}
      BY <2>1, <3>1, WalkStays
    <3> QED
      BY <1>3, <3>2
  <2> QED
    BY <2>2, <2>3, <2>4, <2>7, <2>8 DEF Again
<1> QED
  BY <1>4, <1>5

\* detect_and_flag_loops flags the nodes that the walk comes back to.
LEMMA FlagsAreLoops ==
  ASSUME Wired
  PROVE  detect_and_flag_loops = Looping
<1> DEFINE seconds == {k \in DOMAIN Walk :
                         Walk[k] # None /\ \E j \in 0..(k - 1) : Walk[j] = Walk[k]}
           last == CHOOSE k \in seconds : \A j \in seconds : k <= j
           first == CHOOSE j \in 0..(last - 1) : Walk[j] = Walk[last]
           cycle == {Walk[i] : i \in first..(last - 1)}
<1>1. detect_and_flag_loops = IF seconds = {} THEN {}
                              ELSE cycle \cup UNION {Sources(n) : n \in cycle}
  BY DEF detect_and_flag_loops
<1>2. PICK K : Lasso(K)
  BY LassoExists
<1>3. Size \in Nat /\ K \in 1..Size /\ DOMAIN Walk = 0..Size
  BY <1>2, SizeIs, WalkIs DEF Lasso, WalkTo
<1>4. ASSUME NEW k \in seconds PROVE ~(k < K) /\ k \in 0..Size
  <2>1. /\ k \in 0..Size
        /\ \E j \in 0..(k - 1) : Walk[j] = Walk[k]
    BY <1>3
  <2>2. PICK j \in 0..(k - 1) : Walk[j] = Walk[k]
    BY <2>1
  <2>3. ASSUME k < K PROVE j \in 0..(K - 1) /\ k \in 0..(K - 1) /\ j # k
    <3> HIDE DEF seconds
    <3> QED
      BY <1>3, <2>1, <2>3
  <2> HIDE DEF seconds
  <2> QED
    BY <1>2, <2>1, <2>2, <2>3 DEF Lasso
<1>5. CASE Walk[K] = None
  <2>1. ASSUME NEW k \in seconds PROVE FALSE
    <3>1. ~(k < K) /\ k \in 0..Size /\ Walk[k] # None
      BY <1>4
    <3>2. K \in 0..Size /\ k \in K..Size
      <4> HIDE DEF seconds
      <4> QED
        BY <1>3, <3>1
    <3>3. Closed({})
      BY DEF Closed
    <3>4. Walk[k] \in {} \cup {None}
      <4> HIDE DEF seconds
      <4> QED
        BY <1>5, <3>2, <3>3, WalkStays
    <3> QED
      BY <3>1, <3>4
  <2>2. detect_and_flag_loops = {}
    BY <1>1, <2>1
  <2>3. Again = {}
    BY <1>2, <1>5, EndingWalk
  <2> HIDE DEF seconds, last, first, cycle
  <2> QED
    BY <2>2, <2>3 DEF Looping
<1>6. CASE Walk[K] # None
  <2>1. \E j \in 0..(K - 1) : Walk[j] = Walk[K]
    BY <1>2, <1>6 DEF Lasso
  <2>2. K \in seconds
    BY <1>3, <1>6, <2>1
  <2>3. \A k \in seconds : K <= k
    <3>1. \A k \in seconds : ~(k < K) /\ k \in 0..Size
      BY <1>4
    <3> HIDE DEF seconds
    <3> QED
      BY <1>3, <3>1
  <2>4. \A k \in seconds : k \in Int
    <3>1. \A k \in seconds : k \in 0..Size
      BY <1>4
    <3> HIDE DEF seconds
    <3> QED
      BY <1>3, <3>1
  <2>5. last = K
    <3>1. last \in seconds /\ \A j \in seconds : last <= j
      <4> HIDE DEF seconds
      <4> QED
        BY <2>2, <2>3
    <3> HIDE DEF seconds, last
    <3> QED
      BY <2>2, <2>3, <2>4, <3>1, <1>3
  <2>6. first \in 0..(K - 1) /\ Walk[first] = Walk[K]
    <3>1. first = CHOOSE j \in 0..(K - 1) : Walk[j] = Walk[K]
      BY <2>5
    <3> HIDE DEF seconds, last, first
    <3> QED
      BY <2>1, <3>1
  <2>7. cycle = {Walk[i] : i \in first..(K - 1)}
    <3> HIDE DEF first, last
    <3> QED
      BY <2>5
  <2>8. detect_and_flag_loops = cycle \cup UNION {Sources(n) : n \in cycle}
    BY <1>1, <2>2
  <2>9. Again = cycle
    <3> HIDE DEF seconds, last, first, cycle
    <3> QED
      BY <1>2, <2>6, <2>7, ClosingWalk
  <2> HIDE DEF seconds, last, first, cycle
  <2> QED
    BY <2>8, <2>9 DEF Looping
<1> QED
  BY <1>5, <1>6

\* The flags of a prepared graph are right, and stay so.
FlagInv == phase \in {"prepared", "playing"} => is_in_loop_ = Looping

\* The wiring alone decides where the walk goes.
LEMMA WiringDecides ==
  ASSUME UNCHANGED wiring
  PROVE  /\ Looping' = Looping
         /\ \A n : Sources(n)' = Sources(n)
         /\ \A a, b : Leads(a, b)' = Leads(a, b)
<1>1. UNCHANGED <<start_node, target_, inputs_>>
  BY DEF wiring
<1>2. \A n : Sources(n)' = Sources(n)
  BY <1>1 DEF Sources
<1>3. \A a, b : Leads(a, b)' = Leads(a, b)
  BY <1>1 DEF Leads
<1>4. Again' = Again
  BY <1>1 DEF Again, Leads
<1> QED
  BY <1>2, <1>3, <1>4 DEF Looping

\* Only initialize_nodes comes to a prepared graph, and after it neither the
\* wiring nor the flags change.
LEMMA FlagStep ==
  ASSUME WalkInv, FlagInv, [Next]_vars
  PROVE  FlagInv'
<1>1. ASSUME UNCHANGED <<wiring, is_in_loop_>>,
             phase' \in {"prepared", "playing"} =>
                phase \in {"prepared", "playing"}
      PROVE  FlagInv'
  BY <1>1, WiringDecides DEF FlagInv
<1>2. CASE \E source, target \in Nodes : connect_input(source, target)
  BY <1>2 DEF connect_input, FlagInv
<1>3. CASE ParseFails \/ ensure_assets_exist \/ FetchFails
  BY <1>3 DEF ParseFails, ensure_assets_exist, FetchFails, FlagInv
<1>4. CASE Receive \/ Begin \/ \E f \in Files : EnsureEnds(f)
  BY <1>1, <1>4 DEF Receive, Begin, EnsureEnds
<1>5. CASE initialize_nodes
  <2>1. Wired /\ UNCHANGED wiring /\ is_in_loop_' = detect_and_flag_loops
    BY <1>5 DEF initialize_nodes, WalkInv, Wired
  <2> QED
    BY <2>1, FlagsAreLoops, WiringDecides DEF FlagInv
<1>6. CASE Tick
  <2>1. phase = "playing" /\ UNCHANGED <<wiring, is_in_loop_>>
    BY <1>6 DEF Tick, FrameOfFile, Underrun, FrameOfDelay, FrameOfMixer,
                FrameOfOther, Playing
  <2> QED
    BY <1>1, <2>1
<1>7. CASE \E f \in Files : RefillEnds(f) \/ Reopen(f)
  BY <1>1, <1>7 DEF RefillEnds, Reopen
<1>8. CASE UNCHANGED vars
  BY <1>1, <1>8 DEF vars
<1> QED
  BY <1>2, <1>3, <1>4, <1>5, <1>6, <1>7, <1>8 DEF Next, Prepare

\* In any graph, of any size and with edges in any order, prepare() flags
\* exactly the nodes that the walk comes back to and the inputs of the mixers
\* among them.
THEOREM LoopsAreFlagged == Spec => []LoopsFlagged
<1>1. Init => WalkInv
  BY NodesAssumption DEF Init, WalkInv, OnlyStartUnsupported, Phases
<1>2. Init => FlagInv
  BY DEF Init, FlagInv
<1>3. WalkInv /\ FlagInv /\ [Next]_vars => (WalkInv /\ FlagInv)'
  BY WalkStep, FlagStep
<1>4. FlagInv => LoopsFlagged
  BY DEF FlagInv, LoopsFlagged, Looping, Again
<1> QED
  BY <1>1, <1>2, <1>3, <1>4, PTL DEF Spec

-----------------------------------------------------------------------------
(* Who fills the buffers.                                                  *)

\* No two nodes that the start node leads to play from the same file.
Apart == \A a, b \in Nodes : Leads(start_node, a) /\ Leads(start_node, b)
            /\ a # b => Sources(a) \cap Sources(b) = {}

\* A file that nobody fills is played from no node that is still to come.
FeedInv ==
    /\ buffers \in [Nodes -> {"filled", "refilling", "reset"}]
    /\ phase \in {"prepared", "playing"} =>
          /\ Leads(start_node, current_node_)
          /\ Apart =>
                \A n \in Nodes : \A f \in Sources(n) :
                    Leads(start_node, n) /\ buffers[f] = "reset"
                        => ~Leads(current_node_, n)

\* UsedOnce, which looks along the walk, says as much.
LEMMA UsedOnceApart ==
  ASSUME Wired, UsedOnce
  PROVE  Apart
<1>1. PICK K : Lasso(K)
  BY LassoExists
<1>2. Size \in Nat /\ K \in 1..Size /\ DOMAIN Walk = 0..Size
  BY <1>1, SizeIs, WalkIs DEF Lasso, WalkTo
<1>3. ASSUME NEW a \in Nodes, Leads(start_node, a)
      PROVE  a \in {Walk[k] : k \in DOMAIN Walk} \ {None}
  <2>1. PICK j \in 0..(K - 1) : a = Walk[j]
    BY <1>1, <1>3, LassoHoldsAll
  <2>2. j \in DOMAIN Walk
    BY <1>2
  <2> QED
    BY <2>1, <2>2, NodesAssumption
<1>4. \A a, b \in {Walk[k] : k \in DOMAIN Walk} \ {None} :
         a # b => Sources(a) \cap Sources(b) = {}
  BY DEF UsedOnce
<1> QED
  BY <1>3, <1>4 DEF Apart

\* The end of a node: what is closed is refilled if the walk comes back to
\* the node, and is not needed again otherwise.
LEMMA AdvanceKeepsFeed ==
  ASSUME WalkInv, PlayInv, FlagInv, FeedInv, phase = "playing", UNCHANGED wiring,
         NEW done, advance_to_next_node(done)
  PROVE  FeedInv'
<1> DEFINE c == current_node_
           t == target_[current_node_]
<1>1. c \in Nodes /\ Wired /\ t \in Nodes \cup {None}
  BY DEF WalkInv, Wired
<1>2. UNCHANGED <<start_node, target_, inputs_>>
  BY DEF wiring
<1>3. Sources(c) \subseteq Nodes
  BY <1>1, SourcesAreFiles DEF PlayInv, Files
<1>4. CASE /\ buffers' = [n \in Nodes |-> IF n \in Sources(c) THEN AfterClose(n)
                                          ELSE buffers[n]]
           /\ current_node_' = t
           /\ phase' = IF t = None THEN "over" ELSE phase
  <2>1. buffers' \in [Nodes -> {"filled", "refilling", "reset"}]
    BY <1>4 DEF FeedInv, AfterClose
  <2>2. ASSUME t # None
        PROVE  Leads(start_node, t)
    BY <1>1, <2>2 DEF FeedInv, Leads
  <2>3. ASSUME t # None, Apart, NEW n \in Nodes, NEW f \in Sources(n),
               Leads(start_node, n), buffers'[f] = "reset", Leads(t, n)
        PROVE  FALSE
    <3>1. f \in Nodes
      BY <2>3, SourcesAreFiles DEF PlayInv, Files
    <3>2. Leads(c, n)
      BY <1>1, <2>3 DEF Leads
    <3>3. CASE f \in Sources(c)
      <4>1. n = c
        BY <1>1, <2>3, <3>3 DEF Apart, FeedInv
      <4>2. c \in Again
        BY <1>1, <2>3, <4>1 DEF Again
      <4>3. f \in Looping
        BY <3>3, <4>2 DEF Looping
      <4>4. f \in is_in_loop_
        BY <4>3 DEF FlagInv
      <4> QED
        BY <1>4, <2>3, <3>1, <3>3, <4>4 DEF AfterClose
    <3>4. CASE f \notin Sources(c)
      <4>1. buffers[f] = "reset"
        BY <1>4, <2>3, <3>1, <3>4
      <4> QED
        BY <2>3, <3>2, <4>1 DEF FeedInv
    <3> QED
      BY <3>3, <3>4
  <2>4. Leads(start_node, current_node_)' = Leads(start_node, t)
    BY <1>2, <1>4 DEF Leads
  <2>5. \A n : Leads(current_node_, n)' = Leads(t, n)
    BY <1>2, <1>4 DEF Leads
  <2>6. \A n : Sources(n)' = Sources(n)
    BY WiringDecides
  <2>7. \A n : Leads(start_node, n)' = Leads(start_node, n)
    BY <1>2 DEF Leads
  <2>8. Apart' = Apart
    BY <2>6, <2>7 DEF Apart
  <2>9. phase' \in {"prepared", "playing"} => t # None
    BY <1>4
  <2> HIDE DEF t
  <2> QED
    BY <2>1, <2>2, <2>3, <2>4, <2>5, <2>6, <2>7, <2>8, <2>9 DEF FeedInv
<1>5. CASE phase' = "over" /\ UNCHANGED buffers
  BY <1>5 DEF FeedInv
<1> QED
  BY <1>4, <1>5 DEF advance_to_next_node

\* Every step keeps the buffers that are still needed.
LEMMA FeedStep ==
  ASSUME WalkInv, PlayInv, FlagInv, FeedInv, [Next]_vars
  PROVE  FeedInv'
<1>1. ASSUME UNCHANGED <<wiring, current_node_>>,
             buffers' \in [Nodes -> {"filled", "refilling", "reset"}],
             \A f \in Nodes : buffers'[f] = "reset" => buffers[f] = "reset",
             phase' \in {"prepared", "playing"} =>
                phase \in {"prepared", "playing"}
      PROVE  FeedInv'
  <2>1. UNCHANGED <<start_node, target_, inputs_, current_node_>>
    BY <1>1 DEF wiring
  <2>2. \A n : Sources(n)' = Sources(n)
    BY <1>1, WiringDecides
  <2>3. /\ \A n : Leads(start_node, n)' = Leads(start_node, n)
        /\ \A n : Leads(current_node_, n)' = Leads(current_node_, n)
        /\ Leads(start_node, current_node_)' = Leads(start_node, current_node_)
    BY <2>1 DEF Leads
  <2>4. Apart' = Apart
    BY <2>2, <2>3 DEF Apart
  <2>5. \A n \in Nodes : Sources(n) \subseteq Nodes
    BY SourcesAreFiles DEF PlayInv, Files
  <2> QED
    BY <1>1, <2>2, <2>3, <2>4, <2>5 DEF FeedInv
<1>2. ASSUME UNCHANGED buffers, phase' \notin {"prepared", "playing"}
      PROVE  FeedInv'
  BY <1>2 DEF FeedInv
<1>3. ASSUME UNCHANGED <<wiring, current_node_, buffers>>,
             phase' \in {"prepared", "playing"} =>
                phase \in {"prepared", "playing"}
      PROVE  FeedInv'
  BY <1>1, <1>3 DEF FeedInv
<1>4. CASE \E source, target \in Nodes : connect_input(source, target)
  BY <1>2, <1>4 DEF connect_input, play
<1>5. CASE ParseFails \/ ensure_assets_exist \/ FetchFails \/ FrameOfOther
  BY <1>2, <1>5 DEF ParseFails, ensure_assets_exist, FetchFails, FrameOfOther, play
<1>6. CASE Receive \/ Begin \/ \E f \in Files : EnsureEnds(f)
  BY <1>3, <1>6 DEF Receive, Begin, EnsureEnds, play
<1>7. CASE initialize_nodes
  <2>1. /\ UNCHANGED wiring /\ current_node_' = start_node
        /\ buffers' = [n \in Nodes |-> IF n \in Files THEN "filled" ELSE buffers[n]]
    BY <1>7 DEF initialize_nodes
  <2>2. buffers' \in [Nodes -> {"filled", "refilling", "reset"}]
    BY <2>1 DEF FeedInv
  <2>3. \A n \in Nodes : \A f \in Sources(n)' : buffers'[f] = "filled"
    <3>1. \A n \in Nodes : Sources(n)' = Sources(n) /\ Sources(n) \subseteq Files
      BY <2>1, WiringDecides, SourcesAreFiles DEF PlayInv
    <3> QED
      BY <2>1, <3>1 DEF Files
  <2>4. Leads(start_node, current_node_)'
    BY <2>1 DEF Leads, wiring
  <2> QED
    BY <2>2, <2>3, <2>4 DEF FeedInv
<1>8. ASSUME NEW done, phase = "playing", UNCHANGED wiring,
             EndTick(done) \/ advance_to_next_node(done)
      PROVE  FeedInv'
  <2>1. CASE advance_to_next_node(done)
    BY <1>8, <2>1, AdvanceKeepsFeed
  <2>2. CASE UNCHANGED <<phase, buffers, cut, current_node_>>
    BY <1>3, <1>8, <2>2
  <2> QED
    BY <1>8, <2>1, <2>2 DEF EndTick
<1>9. CASE FrameOfFile \/ FrameOfDelay \/ FrameOfMixer
  <2>1. phase = "playing" /\ UNCHANGED wiring
    BY <1>9 DEF FrameOfFile, FrameOfDelay, FrameOfMixer, Playing
  <2>2. \E done : EndTick(done) \/ advance_to_next_node(done)
    BY <1>9 DEF FrameOfFile, FrameOfDelay, FrameOfMixer
  <2> QED
    BY <1>8, <2>1, <2>2
<1>10. CASE Underrun
  BY <1>3, <1>10 DEF Underrun
<1>11. CASE \E f \in Files : RefillEnds(f) \/ Reopen(f)
  <2>1. PICK f \in Files : RefillEnds(f) \/ Reopen(f)
    BY <1>11
  <2>2. UNCHANGED <<wiring, current_node_, phase>>
    BY <2>1 DEF RefillEnds, Reopen
  <2>3. buffers' \in {buffers, [buffers EXCEPT ![f] = "filled"]}
    BY <2>1 DEF RefillEnds, Reopen
  <2>4. /\ buffers' \in [Nodes -> {"filled", "refilling", "reset"}]
        /\ \A g \in Nodes : buffers'[g] = "reset" => buffers[g] = "reset"
    BY <2>3 DEF FeedInv
  <2> QED
    BY <1>1, <2>2, <2>4
<1>12. CASE UNCHANGED vars
  BY <1>3, <1>12 DEF vars, play
<1> QED
  BY <1>4, <1>5, <1>6, <1>7, <1>9, <1>10, <1>11, <1>12 DEF Next, Prepare, Tick

\* What is known of every state.
GraphInv == WalkInv /\ PlayInv /\ FlagInv /\ FeedInv

LEMMA GraphStart == Init => GraphInv
<1>1. Init => WalkInv
  BY NodesAssumption DEF Init, WalkInv, OnlyStartUnsupported, Phases
<1>2. Init => PlayInv
  BY InitPlays
<1>3. Init => FlagInv /\ FeedInv
  BY DEF Init, FlagInv, FeedInv
<1> QED
  BY <1>1, <1>2, <1>3 DEF GraphInv

LEMMA GraphStep == GraphInv /\ [Next]_vars => GraphInv'
BY WalkStep, PlayStep, FlagStep, FeedStep DEF GraphInv

\* In any graph that uses no file in two places, the walk never comes to a
\* file that was closed without a refill under way.
THEOREM NobodyStarves == Spec => []NeverStarved
<1>1. GraphInv => NeverStarved
  <2> SUFFICES ASSUME GraphInv, phase = "playing", UsedOnce,
                      NEW f \in Sources(current_node_)
               PROVE  buffers[f] # "reset"
    BY DEF NeverStarved
  <2>1. Wired /\ current_node_ \in Nodes
    BY DEF GraphInv, WalkInv, Wired
  <2>2. Apart
    BY <2>1, UsedOnceApart
  <2>3. Leads(current_node_, current_node_)
    BY DEF Leads
  <2> QED
    BY <2>1, <2>2, <2>3 DEF GraphInv, FeedInv
<1> QED
  BY <1>1, GraphStart, GraphStep, PTL DEF Spec

-----------------------------------------------------------------------------
(* The types.                                                              *)

\* What no other invariant says.
RestInv == missing \subseteq Files /\ is_in_loop_ \subseteq Nodes

\* Files are missing that were fetched, and nodes are flagged.
LEMMA RestStep ==
  ASSUME GraphInv, RestInv, [Next]_vars
  PROVE  RestInv'
<1>1. CASE \E f \in Files : EnsureEnds(f)
  BY <1>1 DEF EnsureEnds, RestInv
<1>2. CASE initialize_nodes
  <2>1. Wired /\ CountTypes
    BY DEF GraphInv, WalkInv, PlayInv, Wired
  <2>2. is_in_loop_' = Looping /\ UNCHANGED missing
    BY <1>2, <2>1, FlagsAreLoops DEF initialize_nodes, fetch
  <2>3. \A n \in Again : n \in Nodes /\ Sources(n) \subseteq Nodes
    BY <2>1, SourcesAreFiles DEF Again, Files
  <2>4. Looping \subseteq Nodes
    BY <2>3 DEF Looping
  <2> QED
    BY <2>2, <2>4 DEF RestInv
<1>3. ASSUME UNCHANGED <<missing, is_in_loop_>>
      PROVE  RestInv'
  BY <1>3 DEF RestInv
<1>4. CASE \E source, target \in Nodes : connect_input(source, target)
  BY <1>3, <1>4 DEF connect_input, fetch
<1>5. CASE ParseFails \/ ensure_assets_exist \/ Receive \/ FetchFails \/ Begin
  BY <1>3, <1>5 DEF ParseFails, ensure_assets_exist, Receive, FetchFails, Begin,
                    fetch
<1>6. CASE Tick
  BY <1>3, <1>6 DEF Tick, FrameOfFile, Underrun, FrameOfDelay, FrameOfMixer,
                    FrameOfOther, fetch
<1>7. CASE \E f \in Files : RefillEnds(f) \/ Reopen(f)
  BY <1>3, <1>7 DEF RefillEnds, Reopen, fetch
<1>8. CASE UNCHANGED vars
  BY <1>3, <1>8 DEF vars, fetch
<1> QED
  BY <1>1, <1>2, <1>4, <1>5, <1>6, <1>7, <1>8 DEF Next, Prepare

\* Type correctness of parsing, preparing and playing a graph of any size.
THEOREM TypeCorrect == Spec => []TypeOK
<1>1. Init => RestInv
  BY DEF Init, RestInv
<1>2. ASSUME GraphInv, JoinInv, RestInv
      PROVE  TypeOK
  <2>1. /\ phase \in Phases /\ start_node \in Nodes
        /\ target_ \in [Nodes -> Nodes \cup {None}]
        /\ current_node_ \in Nodes \cup {None}
    BY <1>2 DEF GraphInv, WalkInv
  <2>2. /\ inputs_ \in [Nodes -> Seq(Files)]
        /\ total_frames_ \in [Nodes -> 0..MaxFrames]
        /\ processed_frames_ \in [Nodes -> 0..MaxFrames]
        /\ disturbed \subseteq Files /\ cut \subseteq Files
    BY <1>2 DEF GraphInv, PlayInv, CountTypes
  <2>3. buffers \in [Nodes -> {"filled", "refilling", "reset"}]
    BY <1>2 DEF GraphInv, FeedInv
  <2>4. /\ fetching \subseteq Files /\ final_res \in {"ok", "error"}
        /\ ch \in Seq({"ok", "error"})
    BY <1>2 DEF JoinInv, Results
  <2>5. received \in 0..Cardinality(Files)
    <3>1. Cardinality(fetching) \in Nat /\ Cardinality(Files) \in Nat
      BY <2>4, FetchesFinite
    <3>2. Len(ch) \in Nat /\ received \in Nat
      BY <2>4, <1>2 DEF JoinInv
    <3> QED
      BY <1>2, <3>1, <3>2 DEF JoinInv
  <2> QED
    BY <1>2, <2>1, <2>2, <2>3, <2>4, <2>5 DEF TypeOK, RestInv
<1> QED
  BY <1>1, <1>2, GraphStart, GraphStep, JoinStart, JoinStep, RestStep, PTL DEF Spec

-----------------------------------------------------------------------------
(* Towards AcyclicEnds: what the walk leaves behind, and what it cannot    *)
(* leave.                                                                  *)

\* The walk is past n, or over.
Behind(n) == \/ phase = "over"
             \/ phase = "playing" /\ ~Leads(current_node_, n)

\* Where a step of the audio loop can go: nowhere, to next() or to the end.
LEMMA TickGoes ==
  ASSUME WalkInv, [Next]_vars, phase = "playing"
  PROVE  /\ UNCHANGED <<wiring, is_in_loop_>>
         /\ \/ phase' = "playing" /\ UNCHANGED current_node_
            \/ phase' = "playing" /\ current_node_' = target_[current_node_]
               /\ target_[current_node_] # None
            \/ phase' = "over"
<1>1. \A done : EndTick(done) \/ advance_to_next_node(done) =>
         \/ phase' = "playing" /\ UNCHANGED current_node_
         \/ phase' = "playing" /\ current_node_' = target_[current_node_]
            /\ target_[current_node_] # None
         \/ phase' = "over"
  BY DEF EndTick, advance_to_next_node
<1>2. CASE FrameOfFile \/ FrameOfDelay \/ FrameOfMixer
  <2>1. \E done : EndTick(done) \/ advance_to_next_node(done)
    BY <1>2 DEF FrameOfFile, FrameOfDelay, FrameOfMixer
  <2>2. UNCHANGED <<wiring, is_in_loop_>>
    BY <1>2 DEF FrameOfFile, FrameOfDelay, FrameOfMixer
  <2> QED
    BY <1>1, <2>1, <2>2
<1>3. CASE Underrun \/ FrameOfOther
  BY <1>3 DEF Underrun, FrameOfOther
<1>4. CASE \E f \in Files : RefillEnds(f) \/ Reopen(f)
  BY <1>4 DEF RefillEnds, Reopen
<1>5. CASE \E f \in Files : EnsureEnds(f)
  BY <1>5 DEF EnsureEnds, play
<1>6. CASE UNCHANGED vars
  BY <1>6 DEF vars, play
<1> QED
  BY <1>2, <1>3, <1>4, <1>5, <1>6
     DEF Next, Prepare, Tick, connect_input, ParseFails, ensure_assets_exist,
         Receive, FetchFails, initialize_nodes, Begin

\* A session that is over stays so.
LEMMA OverStays ==
  ASSUME [Next]_vars, phase = "over"
  PROVE  phase' = "over"
<1>1. CASE \E f \in Files : EnsureEnds(f)
  BY <1>1 DEF EnsureEnds
<1>2. CASE Tick
  BY <1>2 DEF Tick, FrameOfFile, Underrun, FrameOfDelay, FrameOfMixer,
              FrameOfOther, Playing
<1> QED
  BY <1>1, <1>2
     DEF Next, Prepare, connect_input, ParseFails, ensure_assets_exist,
         Receive, FetchFails, initialize_nodes, Begin, RefillEnds, Reopen, vars

\* A node that detect_and_flag_loops did not flag is played once: when
\* advance_to_next_node has left it, the walk never comes to it again.
THEOREM LeftForGood ==
  ASSUME NEW n \in Nodes
  PROVE  Spec => /\ [][phase = "playing" /\ current_node_ = n
                       /\ current_node_' # n /\ n \notin is_in_loop_
                          => Behind(n)']_vars
                 /\ [](Behind(n) => []Behind(n))
<1>1. ASSUME GraphInv, [Next]_vars, phase = "playing", current_node_ = n,
             current_node_' # n, n \notin is_in_loop_
      PROVE  Behind(n)'
  <2>1. /\ WalkInv /\ UNCHANGED wiring
        /\ \/ phase' = "over"
           \/ phase' = "playing" /\ current_node_' = target_[n]
              /\ target_[n] # None
    BY <1>1, TickGoes DEF GraphInv
  <2>2. CASE phase' = "playing" /\ current_node_' = target_[n]
             /\ target_[n] # None
    <3>1. n \notin Again /\ Leads(start_node, n)
      BY <1>1 DEF GraphInv, FlagInv, FeedInv, Looping
    <3>2. ~Leads(target_[n], n)
      BY <2>2, <3>1 DEF Again
    <3>3. Leads(current_node_, n)' = Leads(target_[n], n)
      BY <2>1, <2>2 DEF Leads, wiring
    <3> QED
      BY <2>2, <3>2, <3>3 DEF Behind
  <2> QED
    BY <2>1, <2>2 DEF Behind
<1>2. ASSUME GraphInv, [Next]_vars, Behind(n)
      PROVE  Behind(n)'
  <2>1. CASE phase = "over"
    BY <1>2, <2>1, OverStays DEF Behind
  <2>2. CASE phase = "playing" /\ ~Leads(current_node_, n)
    <3>1. /\ UNCHANGED wiring /\ current_node_ \in Nodes
          /\ \/ phase' = "playing" /\ current_node_' = current_node_
             \/ phase' = "playing" /\ current_node_' = target_[current_node_]
                /\ target_[current_node_] # None
             \/ phase' = "over"
      BY <1>2, <2>2, TickGoes DEF GraphInv, WalkInv
    <3>2. CASE phase' = "playing" /\ current_node_' = current_node_
      <4>1. Leads(current_node_, n)' = Leads(current_node_, n)
        BY <3>1, <3>2 DEF Leads, wiring
      <4> QED
        BY <2>2, <3>2, <4>1 DEF Behind
    <3>3. CASE phase' = "playing" /\ current_node_' = target_[current_node_]
               /\ target_[current_node_] # None
      <4>1. Leads(current_node_, n)' = Leads(target_[current_node_], n)
        BY <3>1, <3>3 DEF Leads, wiring
      <4>2. Leads(target_[current_node_], n) => Leads(current_node_, n)
        BY <3>1, <3>3 DEF Leads
      <4> QED
        BY <2>2, <3>3, <4>1, <4>2 DEF Behind
    <3> QED
      BY <3>1, <3>2, <3>3 DEF Behind
  <2> QED
    BY <1>2, <2>1, <2>2 DEF Behind
<1> QED
  BY <1>1, <1>2, GraphStart, GraphStep, PTL DEF Spec

\* The walk is in a delay that was rounded down to no frames.
InShortDelay(n) == /\ phase = "playing" /\ current_node_ = n
                   /\ total_frames_[n] = 0

\* A delay of less than a frame is never left: DelayNode::process_frame is at
\* its end only when it has frames, and nothing gives a delay frames later.
THEOREM ShortDelayNeverEnds ==
  ASSUME NEW n \in Nodes, Kind[n] = "Delay"
  PROVE  Spec => [](InShortDelay(n) => []InShortDelay(n))
<1>1. ASSUME GraphInv, [Next]_vars, InShortDelay(n)
      PROVE  InShortDelay(n)'
  <2>1. /\ phase = "playing" /\ current_node_ = n /\ total_frames_[n] = 0
        /\ total_frames_ \in [Nodes -> 0..MaxFrames]
    BY <1>1 DEF InShortDelay, GraphInv, PlayInv, CountTypes
  <2>2. CASE FrameOfDelay
    <3>1. EndTick(Counted({n})) /\ UNCHANGED total_frames_
      BY <2>1, <2>2 DEF FrameOfDelay
    <3>2. ~AtEnd(n, Counted({n}))
      BY <2>1 DEF AtEnd
    <3> QED
      BY <2>1, <3>1, <3>2 DEF EndTick, InShortDelay
  <2>3. ~FrameOfFile /\ ~FrameOfMixer /\ ~FrameOfOther /\ ~Underrun
    BY <2>1 DEF FrameOfFile, FrameOfMixer, FrameOfOther, Underrun, Playing, Audio
  <2>4. CASE \E f \in Files : RefillEnds(f) \/ Reopen(f)
    <3>1. PICK f \in Files : RefillEnds(f) \/ Reopen(f)
      BY <2>4
    <3>2. f # n
      BY DEF Files
    <3>3. /\ UNCHANGED <<phase, current_node_>>
          /\ \E t : total_frames_' = [total_frames_ EXCEPT ![f] = t]
      BY <3>1 DEF RefillEnds, Reopen
    <3> QED
      BY <2>1, <3>2, <3>3 DEF InShortDelay
  <2>5. CASE \E f \in Files : EnsureEnds(f)
    BY <2>1, <2>5 DEF EnsureEnds, play, InShortDelay
  <2>6. CASE UNCHANGED vars
    BY <2>1, <2>6 DEF vars, play, InShortDelay
  <2> QED
    BY <1>1, <2>1, <2>2, <2>3, <2>4, <2>5, <2>6
       DEF Next, Prepare, Tick, connect_input, ParseFails, ensure_assets_exist,
           Receive, FetchFails, initialize_nodes, Begin
<1> QED
  BY <1>1, GraphStart, GraphStep, PTL DEF Spec
=============================================================================
