---------------------------- MODULE MCSensorBus ----------------------------
(* A bus with drivers of its own (cpu_power over RAPL, a thermal zone) and   *)
(* one whose sensors a peer serves, two of its own and one it simulates.     *)
EXTENDS SensorBus

MCSensor == {"cpu_power", "rack_load", "rack_temp", "cpu_temp", "attention"}
MCPlace == [s \in MCSensor |->
    CASE s = "attention" -> 1 [] s = "cpu_power" -> 2 [] s = "cpu_temp" -> 3
      [] s = "rack_load" -> 4 [] OTHER -> 5]
MCRegistries == {
    [s \in MCSensor |->
        CASE s = "cpu_power" -> "rapl" [] s = "cpu_temp" -> "real"
          [] s = "attention" -> "simulator" [] OTHER -> "inaccessible"],
    [s \in MCSensor |->
        CASE s \in {"cpu_power", "rack_load", "rack_temp"} -> "remote" [] OTHER -> "inaccessible"]}
MCSimulated == {"rack_load"}
=============================================================================
