----------------------------- MODULE MCTlsTrust -----------------------------
(* Two ports of one host, under each pair of policies that share something:  *)
(* the store (tofu and strict) or the config (pin).                          *)
EXTENDS TlsTrust

MCTarget == {"rack:1", "rack:2"}
MCCert == {"f", "g"}
Declares(a, b) == [t \in MCTarget |-> IF t = "rack:1" THEN a ELSE b]
MCEndpoints == {Declares("tofu", "tofu"), Declares("pin", "estrito"), Declares("pin", "pin")}
MCPins == [t \in MCTarget |-> {"f"}]
MCKnown == Declares({}, {"g"})
MCShown == Declares("f", "g")
=============================================================================
