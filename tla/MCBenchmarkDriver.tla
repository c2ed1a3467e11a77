-------------------------- MODULE MCBenchmarkDriver --------------------------
(* Small instances of BenchmarkDriver: one framework that subscribes to every *)
(* test and one that has a few, or one with two compose stacks and one of     *)
(* WebSocket only, over a cut of PROFILE_ORDER that keeps one or two profiles *)
(* of each kind in their order.                                               *)
EXTENDS BenchmarkDriver, TLC

CONSTANTS f1, f2

MCFrameworks == {f1, f2}
MCComposeFiles == {<<f1, "gateway-64">>, <<f1, "production-stack">>, <<f2, "production-stack">>}
MCList == <<f1, f2>>
MCProfiles == <<"baseline", "async-db", "fortunes", "nosuch", "gateway-64",
                "production-stack", "unary-grpc">>
MCConns == [p \in {"baseline", "async-db", "fortunes", "gateway-64",
                   "production-stack", "unary-grpc", "echo-ws"} |->
             IF p \in {"baseline", "gateway-64"} THEN <<1, 2>> ELSE <<1>>]
MCTests == (f1 :> {}) @@ (f2 :> {"production-stack", "baseline"})
MCWsTests == (f1 :> {"gateway-64", "production-stack", "fortunes"}) @@ (f2 :> {"echo-ws"})
MCWsProfiles == <<"fortunes", "gateway-64", "production-stack", "echo-ws">>
=============================================================================
