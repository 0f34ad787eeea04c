------------------------------ MODULE MCActBus ------------------------------
(* A hybrid registry: a file driver, a peer, a simulated device, one that   *)
(* is inaccessible (the simulator still has its twin) and a name that is    *)
(* not registered.  The config tightened the limits of Led and Cap, of      *)
(* which the simulator does not know.                                       *)
EXTENDS ActBus

MCActor == {"Fan", "Rack", "Led", "Cap", "Typo"}
MCRoute == [a \in MCActor |->
    CASE a = "Fan" -> "real" [] a = "Rack" -> "remote" [] a = "Cap" -> "inaccessible"
      [] a = "Typo" -> "unknown" [] OTHER -> "simulator"]
MCFallback == [a \in MCActor |->
    CASE a = "Fan" -> <<"Rack">> [] a = "Rack" -> <<"Led", "Fan">> [] a = "Cap" -> <<"Led", "Fan">>
      [] OTHER -> <<>>]
MCSimFallback == [a \in MCActor |-> IF a = "Led" THEN <<"Cap">> ELSE <<>>]
MCLimit == [a \in MCActor |->
    CASE a = "Fan" -> 3 [] a = "Rack" -> 2 [] a = "Cap" -> 4 [] OTHER -> 1]
MCSimLimit == [MCLimit EXCEPT !["Led"] = 2, !["Cap"] = 5]
Cmd(a, v, p) == [actor |-> a, value |-> v, priority |-> p]
MCProgram == {Cmd("Fan", 3, 10), Cmd("Fan", 4, 0), Cmd("Rack", 2, 0), Cmd("Led", 2, 10),
              Cmd("Cap", 4, 10), Cmd("Typo", 1, 10)}
=============================================================================
