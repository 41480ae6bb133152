----------------------------- MODULE GraphParser -----------------------------
(***************************************************************************)
(* parse_graph and the creators of NodeRegistry: which JSON documents make *)
(* a graph.  A value that is missing or of another type is Bad: both fail  *)
(* require_json with a ParseError.                                         *)
(***************************************************************************)
EXTENDS Integers, Sequences, FiniteSetsExt

CONSTANT Bad

\* The result of a sequence of steps, each left at its first failure.
FirstFailure(results) ==
    LET failed == {i \in DOMAIN results : results[i] # "ok"}
    IN  IF failed = {} THEN "ok" ELSE results[Min(failed)]

Require(values) ==
    FirstFailure([i \in DOMAIN values |->
                    IF values[i] = Bad THEN "ParseError" ELSE "ok"])

-----------------------------------------------------------------------------
(* NodeRegistry.  A number is an int64, a double or the text of a number;  *)
(* a text that begins with none has value Bad.                             *)

\* An integer is cut to 16 bits, the text of one must fit in them.
parse_port(v) ==
    CASE v.json = "int64" -> v.value % 65536
      [] v.json = "string" /\ v.value # Bad ->
            IF v.value \in 0..65535 THEN v.value ELSE Bad
      [] OTHER -> Bad

\* The ratio in percent.  A text may also say nan, which neither of the two
\* comparisons with the bounds rejects.
parse_loss_ratio(v) ==
    CASE v.json = "nan" -> "nan"
      [] v.json \in {"double", "int64", "uint64", "string"} /\ v.value # Bad ->
            IF v.value < 0 \/ v.value > 100 THEN Bad ELSE v.value
      [] OTHER -> Bad

\* as_object() throws where require_json would have returned an error.
ClientResult(client) ==
    IF client = Bad THEN "exception"
    ELSE IF client.ip = Bad \/ client.port = Bad THEN "ParseError"
    ELSE Require(<<parse_port(client.port),
                   IF client.loss.json = "absent" THEN 0
                   ELSE parse_loss_ratio(client.loss)>>)

\* The list itself may be missing.
create_clients(data) ==
    IF "clients" \notin DOMAIN data THEN "ok"
    ELSE IF data.clients = Bad THEN "ParseError"
    ELSE FirstFailure([i \in DOMAIN data.clients |->
                          ClientResult(data.clients[i])])

create_file_input(data) == Require(<<data.fileName>>)
create_mixer(data) == "ok"
create_delay(data) ==
    IF data.delay = Bad THEN "ParseError"
    ELSE IF data.delay < 0 THEN "ParseError" ELSE "ok"
create_file_options(data) == Require(<<data.gain, data.pitch_shift>>)

\* register_builtin_nodes and NodeFactory::create.
create(type, data) ==
    CASE type = "fileInput" -> create_file_input(data)
      [] type = "mixer" -> create_mixer(data)
      [] type = "delay" -> create_delay(data)
      [] type = "clients" -> create_clients(data)
      [] type = "fileOptions" -> create_file_options(data)
      [] OTHER -> "ParseError"

-----------------------------------------------------------------------------
(* Json2Graph                                                              *)

\* Each node in turn: its three keys, its creator, the second clients node.
NodeResult(nodes, i) ==
    LET node == nodes[i]
        second == /\ node.type = "clients"
                  /\ \E j \in 1..(i - 1) :
                        nodes[j] # Bad /\ nodes[j].type = "clients"
    IN  IF node = Bad THEN "ParseError"
        ELSE FirstFailure(<<Require(<<node.id, node.type, node.data>>),
                            IF Bad \in {node.type, node.data} THEN "ok"
                            ELSE create(node.type, node.data),
                            IF second THEN "ParseError" ELSE "ok">>)

parse_nodes(nodes) ==
    FirstFailure([i \in DOMAIN nodes |-> NodeResult(nodes, i)])

\* The later of two nodes with one id replaces the earlier one in the map.
node_map(nodes) ==
    [id \in {nodes[i].id : i \in DOMAIN nodes} |->
        nodes[Max({i \in DOMAIN nodes : nodes[i].id = id})]]

set_start_node(start, map) ==
    IF start = Bad \/ start \notin DOMAIN map THEN "ParseError" ELSE "ok"

\* What connect_input of the target accepts.
Connects(source, target) ==
    CASE target = "fileInput" -> source \in {"delay", "fileOptions"}
      [] target = "mixer" -> source \in {"delay", "fileInput"}
      [] target \in {"delay", "clients"} -> TRUE
      [] OTHER -> FALSE

EdgeResult(edge, map) ==
    IF edge = Bad THEN "ParseError"
    ELSE IF Bad \in {edge.source, edge.target} THEN "ParseError"
    ELSE IF ~{edge.source, edge.target} \subseteq DOMAIN map THEN "ParseError"
    ELSE IF map[edge.source].type = "clients" THEN "ParseError"
    ELSE IF Connects(map[edge.source].type, map[edge.target].type)
         THEN "ok" ELSE "ParseError"

parse_edges(edges, map) ==
    FirstFailure([i \in DOMAIN edges |-> EdgeResult(edges[i], map)])

\* "ok", "ParseError", or "exception" when a creator throws.
parse_graph(flow) ==
    IF flow = Bad THEN "ParseError"
    ELSE IF flow.nodes = Bad THEN "ParseError"
    ELSE IF parse_nodes(flow.nodes) # "ok" THEN parse_nodes(flow.nodes)
    ELSE IF set_start_node(flow.start, node_map(flow.nodes)) # "ok"
         THEN "ParseError"
    ELSE IF flow.edges = Bad THEN "ParseError"
    ELSE parse_edges(flow.edges, node_map(flow.nodes))
=============================================================================
