------------------------------ MODULE MCServer -------------------------------
(* Server for TLC: requests of each kind, graphs at the parser's edges.    *)
EXTENDS Server, TLC

Symmetry == Permutations(Conns)

Json(kind, value) == [json |-> kind, value |-> value]
Client1(port, loss) == [ip |-> "host", port |-> port, loss |-> loss]
NodeJson(id, type, data) == [id |-> id, type |-> type, data |-> data]
Edge(source, target) == [source |-> source, target |-> target]
FlowJson(nodes, edges) == [nodes |-> nodes, start |-> "a", edges |-> edges]

FileA == NodeJson("a", "fileInput", [fileName |-> "name"])
ClientsB(clients) == NodeJson("b", "clients", [clients |-> clients])
ToB == <<Edge("a", "b")>>
Good == FlowJson(<<FileA, ClientsB(<<Client1(Json("int64", 5004),
                                             Json("absent", 0))>>)>>, ToB)

\* Graphs around the edges of what the parser accepts: ports and ratios, nodes
\* and their data, ids that occur twice, missing parts.
Ports == {Json("int64", 70000), Json("int64", -1), Json("string", 65535),
          Json("string", 65536), Json("string", Bad), Json("uint64", 1), Bad}
Ratios == {Json("double", 100), Json("int64", 101), Json("string", -1),
           Json("uint64", 0), Json("nan", 0), Json("object", 0)}
SomeNodes ==
    {Bad, NodeJson(Bad, "mixer", [x |-> 0]), NodeJson("b", Bad, Bad),
     NodeJson("b", "reverb", [x |-> 0]), NodeJson("b", "mixer", [x |-> 0]),
     NodeJson("a", "delay", [delay |-> 0]), NodeJson("b", "delay", [delay |-> -1]),
     NodeJson("b", "fileInput", [fileName |-> Bad]),
     NodeJson("b", "fileOptions", [gain |-> 1, pitch_shift |-> 0]),
     NodeJson("b", "fileOptions", [gain |-> 1, pitch_shift |-> Bad]),
     NodeJson("a", "clients", [clients |-> <<>>]),
     NodeJson("b", "clients", [x |-> 0]),
     NodeJson("b", "clients", [clients |-> Bad]), ClientsB(<<Bad>>)}
SomeEdges == {Bad, <<Bad>>, <<Edge("a", Bad)>>, <<Edge("a", "z")>>,
              <<Edge("b", "a")>>, <<Edge("a", "a")>>, ToB}
SomeFlows ==
    {FlowJson(<<FileA, ClientsB(<<Client1(p, Json("absent", 0))>>)>>, ToB) :
        p \in Ports}
    \cup {FlowJson(<<FileA, ClientsB(<<Client1(Json("int64", 1), r)>>)>>, ToB) :
        r \in Ratios}
    \cup {FlowJson(<<FileA, n>>, ToB) : n \in SomeNodes}
    \cup {FlowJson(<<FileA, ClientsB(<<>>)>>, e) : e \in SomeEdges}
    \cup {FlowJson(<<FileA, ClientsB(<<>>), ClientsB(<<>>)>>, ToB),
          [Good EXCEPT !.start = "z"], [Good EXCEPT !.start = Bad],
          [Good EXCEPT !.nodes = Bad], Bad}

Request(method, path, id) ==
    [framing |-> "ok", method |-> method, path |-> path, id |-> id,
     upgrade |-> FALSE, keep_alive |-> TRUE, body_follows |-> FALSE,
     body |-> Bad]
WithBody(request, body) ==
    [request EXCEPT !.body_follows = TRUE, !.body = body]
Upgrade(request) == [request EXCEPT !.upgrade = TRUE]
Post(path, flow) == WithBody(Request("POST", path, Bad), [flow |-> flow])

SomeRequests ==
    {Post("transmit", Good), Upgrade(Request("GET", "connect", 1)),
     Request("POST", "stop", 1), WithBody(Request("OPTIONS", "stop", Bad), Bad)}

\* Every route, wrong methods, missing ids, bodies that are no JSON, heads that
\* cannot be read, a connection that is not kept.
SomeProbes ==
    {Post("transmit", flow) : flow \in SomeFlows}
    \cup {Post(path, Good) : path \in {"secure_transmit", "preview"}}
    \cup {Request("POST", path, id) :
             path \in {"pause", "resume", "stop"}, id \in {1, Bad}}
    \cup {Request("GET", path, Bad) :
             path \in {"transmit", "connect", "metrics", "stop", "upload"}}
    \cup {Upgrade(Request("GET", path, Bad)) : path \in {"connect", "metrics"}}
    \cup {WithBody(Request("POST", "preview", Bad), Bad),
          Request("OPTIONS", "stop", Bad), Request("GET", Bad, Bad),
          [Request("GET", "metrics", Bad) EXCEPT !.keep_alive = FALSE],
          [Request("GET", "metrics", Bad) EXCEPT !.framing = "malformed"],
          [Post("transmit", Good) EXCEPT !.framing = "huge"]}
=============================================================================
