---------------------------- MODULE MCDeployment ----------------------------
(* Config files of a few lines over the mandatory devices and two new ones,  *)
(* and two daemons that may be taken for one another.                        *)
EXTENDS Deployment

MCAlphabet == <<"Cooler", "CpuPowerCap", "Fan", "LedIndicador", "ReserveFan", "StatusLed",
                "Ventoinha", "Zefiro", "attention", "cpu_power", "cpu_temp">>

Device(n, f, v) == [key |-> "device", name |-> n, field |-> f, value |-> v]
MCLines == {
    [key |-> "malformed"], [key |-> "mode", value |-> "real"],
    Device("Ventoinha", "mode", "real"), Device("Ventoinha", "endpoint", "rack"),
    Device("Fan", "endpoint", "auto"),
    Device("attention", "mode", "real"), Device("attention", "endpoint", "rack"),
    Device("ReserveFan", "limite", TRUE), Device("ReserveFan", "endpoint", "remoto"),
    Device("Cooler", "alias_de", "Fan"), Device("Cooler", "alias_de", "ReserveFan"),
    Device("Zefiro", "alias_de", "ReserveFan"), Device("Zefiro", "alias_de", "Cooler"),
    Device("Zefiro", "endpoint", "leitura"), Device("cpu_power", "alias_de", "Fan"),
    Device("attention", "safety_limit", TRUE),
    [key |-> "fallback", name |-> "Ventoinha", value |-> <<"ReserveFan", "LedIndicador">>]}

MCPeer == [d \in {"d1", "d2"} |->
    IF d = "d1" THEN [identifier |-> "rack", host |-> "h1", serve |-> "tcp"]
                ELSE [identifier |-> "lab", host |-> "h1", serve |-> "tls"]]
=============================================================================
