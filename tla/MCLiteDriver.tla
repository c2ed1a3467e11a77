---------------------------- MODULE MCLiteDriver -----------------------------
(* A loop over two frameworks that the lite driver accepts and a disabled   *)
(* one, or a framework with a profile it leaves out; or a loop that meets a  *)
(* directory without a meta.json.                                            *)
EXTENDS LiteDriver, TLC

MCFrameworks == {"f1", "f2", "off", "tls"}
MCComposeFiles == {<<"f1", "gateway-64">>, <<"f2", "production-stack">>}
MCTable == {"baseline", "8gbit", "async-db", "echo-ws"}
MCLite == <<"baseline", "8gbit", "async-db", "echo-ws">>
MCTests ==
  ("f1" :> {"baseline", "async-db"}) @@ ("f2" :> {}) @@ ("off" :> {"baseline"})
    @@ ("tls" :> {"baseline", "json-tls"})
MCDisabled == {"off"}
MCLoops == {<<"f1", "off", "f2">>, <<"tls">>, <<"_shared", "f1">>}

=============================================================================
