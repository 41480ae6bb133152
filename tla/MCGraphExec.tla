----------------------------- MODULE MCGraphExec -----------------------------
(* GraphExec for TLC: the graphs on a node of each kind and a second file. *)
EXTENDS GraphExec, TLC

CONSTANTS file1, file2, mix, pause, opts, sink

NodeKinds == file1 :> "FileInput" @@ file2 :> "FileInput" @@ mix :> "Mixer"
               @@ pause :> "Delay" @@ opts :> "FileOptions" @@ sink :> "Clients"

Lengths == [n \in Nodes |-> IF n = file1 THEN 2 ELSE 1]
=============================================================================
