-------------------------- MODULE AssetStore_proofs --------------------------
(***************************************************************************)
(* AtRestWhole for any number of nodes and any object.  Downloads remove   *)
(* and truncate each other's files, so what is at the path is described    *)
(* through whoever truncated it last: everybody else only adds pieces.     *)
(***************************************************************************)
EXTENDS AssetStore, TLAPS

\* The file at the path belongs to a download that has not failed, and holds
\* what that download has written.
Owned ==
    path # Nothing =>
        LET d == opener[path]
        IN  /\ pc[d] \in Guarded \cup {"ready"}
            /\ handle[d] = path
            /\ 1..written[d] \subseteq content[path]
            /\ pc[d] = "ready" /\ announced[d] => written[d] = Size

\* Who guards a file holds one, and has written nothing before the response.
Holding ==
    \A d \in Nodes :
        /\ pc[d] \in Guarded => handle[d] \in Nodes
        /\ pc[d] \in {"check", "open", "request"} => written[d] = 0

AssetInv == TypeOK /\ Holding /\ Owned

\* AssetInv holds at the start and is kept by every step of every node.
LEMMA AssetStep == AssetInv /\ [Next]_vars => AssetInv'
<1> SUFFICES ASSUME AssetInv, [Next]_vars PROVE AssetInv'
  OBVIOUS
<1> USE NodesAssumption, SizeAssumption DEF PCs, Guarded, Whole
<1>1. TypeOK /\ Holding /\ Owned
  BY DEF AssetInv
<1>2. CASE UNCHANGED vars
  BY <1>1, <1>2 DEF AssetInv, TypeOK, Holding, Owned, vars, disk
<1>3. ASSUME NEW d \in Nodes, ensure_file_exists(d) PROVE AssetInv'
  <2>1. path # Nothing => opener[path] # d
    BY <1>1, <1>3 DEF TypeOK, Owned, ensure_file_exists
  <2>2. TypeOK' /\ Holding'
    BY <1>1, <1>3 DEF TypeOK, Holding, ensure_file_exists, Goto, disk
  <2>3. Owned'
    BY <1>1, <1>3, <2>1 DEF TypeOK, Owned, ensure_file_exists, Goto, disk
  <2> QED
    BY <2>2, <2>3 DEF AssetInv
<1>4. ASSUME NEW d \in Nodes, Prepare(d) PROVE AssetInv'
  <2> DEFINE file == IF path = Nothing THEN d ELSE path
  <2>1. /\ file \in Nodes /\ path' = file
        /\ content' = [content EXCEPT ![file] = {}]
        /\ opener' = [opener EXCEPT ![file] = d]
        /\ handle' = [handle EXCEPT ![d] = file]
        /\ pc[d] = "open" /\ pc' = [pc EXCEPT ![d] = "request"]
        /\ UNCHANGED <<written, announced>>
    BY <1>1, <1>4 DEF TypeOK, Prepare, Goto
  <2> HIDE DEF file
  <2>2. TypeOK'
    BY <1>1, <2>1 DEF TypeOK
  <2>3. Holding'
    BY <1>1, <2>1 DEF TypeOK, Holding
  <2>4. written[d] = 0
    BY <1>1, <2>1 DEF Holding
  <2>5. 1..0 = {}
    OBVIOUS
  <2>6. Owned'
    BY <1>1, <2>1, <2>4, <2>5 DEF TypeOK, Owned
  <2> QED
    BY <2>2, <2>3, <2>6 DEF AssetInv
<1>5. ASSUME NEW d \in Nodes, PrepareFails(d) PROVE AssetInv'
  <2>1. path # Nothing => opener[path] # d
    BY <1>1, <1>5 DEF TypeOK, Owned, PrepareFails
  <2>2. TypeOK' /\ Holding'
    BY <1>1, <1>5 DEF TypeOK, Holding, PrepareFails, Goto, disk
  <2>3. Owned'
    BY <1>1, <1>5, <2>1 DEF TypeOK, Owned, PrepareFails, Goto, disk
  <2> QED
    BY <2>2, <2>3 DEF AssetInv
<1>6. ASSUME NEW d \in Nodes, Respond(d) PROVE AssetInv'
  <2>1. PICK k \in 0..Size :
          /\ written' = [written EXCEPT ![d] = k]
          /\ content' = [content EXCEPT ![handle[d]] = @ \cup 1..k]
    BY <1>6 DEF Respond
  <2>2. PICK known \in BOOLEAN : announced' = [announced EXCEPT ![d] = known]
    BY <1>6 DEF Respond
  <2>3. /\ handle[d] \in Nodes /\ pc[d] = "request"
        /\ pc' = [pc EXCEPT ![d] = "transfer"]
        /\ UNCHANGED <<path, opener, handle>>
    BY <1>1, <1>6 DEF Respond, Goto, Holding
  <2>4. 1..k \subseteq 1..Size
    OBVIOUS
  <2>5. TypeOK'
    BY <1>1, <2>1, <2>2, <2>3, <2>4 DEF TypeOK
  <2>6. Holding'
    BY <1>1, <2>1, <2>3 DEF TypeOK, Holding
  <2>7. Owned'
    BY <1>1, <2>1, <2>2, <2>3 DEF TypeOK, Owned
  <2> QED
    BY <2>5, <2>6, <2>7 DEF AssetInv
<1>7. ASSUME NEW d \in Nodes, Transfer(d) PROVE AssetInv'
  <2>1. handle[d] \in Nodes /\ written[d] \in 0..(Size - 1)
    BY <1>1, <1>7 DEF TypeOK, Transfer, Holding
  <2>2. /\ written' = [written EXCEPT ![d] = @ + 1] /\ pc[d] = "transfer"
        /\ content' = [content EXCEPT ![handle[d]] =
                         @ \cup {written[d] + 1}]
        /\ UNCHANGED <<path, opener, pc, handle, announced>>
    BY <1>7 DEF Transfer
  <2>3. 1..(written[d] + 1) = 1..written[d] \cup {written[d] + 1}
    BY <2>1
  <2>4. TypeOK'
    BY <1>1, <2>1, <2>2 DEF TypeOK
  <2>5. Holding'
    BY <1>1, <2>2 DEF TypeOK, Holding
  <2>6. Owned'
    BY <1>1, <2>1, <2>2, <2>3 DEF TypeOK, Owned
  <2> QED
    BY <2>4, <2>5, <2>6 DEF AssetInv
<1>8. ASSUME NEW d \in Nodes, Commit(d) PROVE AssetInv'
  <2>1. TypeOK' /\ Holding'
    BY <1>1, <1>8 DEF TypeOK, Holding, Commit, Goto, disk
  <2>2. Owned'
    BY <1>1, <1>8 DEF TypeOK, Owned, Commit, Goto, disk
  <2> QED
    BY <2>1, <2>2 DEF AssetInv
<1>9. ASSUME NEW d \in Nodes, Fail(d) PROVE AssetInv'
  <2>1. TypeOK' /\ Holding'
    BY <1>1, <1>9 DEF TypeOK, Holding, Fail, Goto
  <2>2. Owned'
    BY <1>9 DEF Owned, Fail
  <2> QED
    BY <2>1, <2>2 DEF AssetInv
<1> QED
  BY <1>2, <1>3, <1>4, <1>5, <1>6, <1>7, <1>8, <1>9 DEF Next

\* AssetInv is an invariant of the specification.
LEMMA AssetInvariant == Spec => []AssetInv
<1>1. Init => AssetInv
  BY NodesAssumption, SizeAssumption
     DEF Init, AssetInv, TypeOK, Holding, Owned, PCs, Guarded, Whole
<1> QED
  BY <1>1, AssetStep, PTL DEF Spec

\* Type correctness of the downloads.
THEOREM AssetTypes == Spec => []TypeOK
<1>1. AssetInv => TypeOK
  BY DEF AssetInv
<1> QED
  BY <1>1, AssetInvariant, PTL

\* PartialFileGuard's purpose: however many downloads of a file overlap and
\* fail, what they leave behind is whole.
THEOREM LeftoverWhole == Spec => []AtRestWhole
<1>1. AssetInv => AtRestWhole
  <2> SUFFICES ASSUME AssetInv, path # Nothing,
                      \A d \in Nodes : pc[d] \notin Guarded
               PROVE  /\ pc[opener[path]] = "ready"
                      /\ announced[opener[path]] => content[path] = Whole
    BY DEF AtRestWhole
  <2>1. path \in Nodes /\ opener[path] \in Nodes /\ content[path] \subseteq Whole
    BY DEF AssetInv, TypeOK
  <2>2. pc[opener[path]] = "ready"
    BY <2>1 DEF AssetInv, Owned
  <2>3. announced[opener[path]] => 1..Size \subseteq content[path]
    BY <2>2 DEF AssetInv, Owned
  <2> QED
    BY <2>1, <2>2, <2>3 DEF Whole
<1> QED
  BY <1>1, AssetInvariant, PTL
=============================================================================
