---------------------------- MODULE DelegationMC ----------------------------
(* Node 1 is the application server, node 2 a database, node 3 a second    *)
(* one, until a role changes.  Job "p" delegates to any database and then  *)
(* to node 3, if that is one; job "q" to a node that does not exist.       *)
EXTENDS Delegation, TLC

MCStart == 1 :> "application_server" @@ 2 :> "database_server" @@ 3 :> "database_server"
MCWorkers == 1 :> 1 @@ 2 :> 1 @@ 3 :> 1
TwoWorkers == 1 :> 2 @@ 2 :> 1 @@ 3 :> 1
To(r, n) == [role |-> r, node |-> n]
MCPlan == ("p" :> <<To("database_server", 0), To("database_server", 3)>>)
       @@ ("q" :> <<To("database_server", 9)>>)
       @@ ("x" :> <<To("database_server", 0)>>) @@ ("y" :> <<To("database_server", 0)>>)
ShortRuns == ("c" :> <<"p">>) @@ ("d" :> <<"x">>)
BatchRuns == ("c" :> <<"x">>) @@ ("d" :> <<"q", "y">>)
Star == {<<1, 2>>, <<1, 3>>, <<2, 1>>}
MCNetworks == {Star, {<<1, 3>>}}
Two(f) == [n \in {1, 2} |-> f[n]]
PairStart == Two(MCStart)
PairWorkers == Two(MCWorkers)
PairNetwork == {{<<1, 2>>}}
PairStopOrder == <<2, 1>>
MCStopOrder == <<2, 1, 3>>
=============================================================================
