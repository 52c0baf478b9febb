------------------------------- MODULE MCMcpProxy -------------------------------
(* A path claim for each of two files, and proxies that know the tool       *)
(* "write" in another spelling, the read tool "list" and no tool "other".   *)
EXTENDS McpProxy, TLC
CONSTANTS p1, p2, a, b, pathF, pathG, f, g

TwoAgents == (p1 :> a) @@ (p2 :> b)
Owned == (pathF :> {f}) @@ (pathG :> {g})
Clash == {<<s, s>> : s \in Surface}
Lives == {1}

Names == {"Write", "write", "list", "other"}
Lower == [n \in Names |-> IF n = "Write" THEN "write" ELSE n]
Keys == {"path"}

Config(mode, failMode, unknown) ==
  [mode |-> mode, failMode |-> failMode, unknown |-> unknown,
   writeTools |-> <<[name |-> "Write", keys |-> {"path"}]>>, readTools |-> {"list"}]
Configs == {Config("enforce", "closed", "deny")}
Call(n, paths) == [tool |-> n, args |-> [k \in Keys |-> paths]]
Calls == {Call("write", {f, g}), Call("list", {}), Call("other", {f})}
=============================================================================
