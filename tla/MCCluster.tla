----------------------------- MODULE MCCluster ------------------------------
(* Plans of one or two nodes, one of whose labels has a space, on either   *)
(* of two hosts.  Processes do not meet: one at a time is launched.        *)
EXTENDS Cluster, TLC

MCShell == ("node-a" :> <<"node-a">>) @@ ("node-b" :> <<"node-b">>)
             @@ ("node c" :> <<"node", "c">>)

\* A rank; a port again; a label that looks like an option; a subcommand.
MCExtras == {<<"--worker-id", "0">>, <<"--runtime-port", "5001">>,
             <<"--node-label", "-x">>, <<"status">>, <<"status", "jobs">>,
             <<"--backend-url", "status">>, <<"--port", "http">>, <<"--port">>}
=============================================================================
