----------------------------- MODULE Deployment -----------------------------
(***************************************************************************)
(* The start of a process that uses the bus: its registry is configured    *)
(* and its routes are built while the peers it looks for come and go.      *)
(* FxpBus::build resolves the devices one by one; each `discover:`         *)
(* endpoint opens a listening window of its own and waits for it.          *)
(***************************************************************************)
EXTENDS DeviceRegistry, Discovery

vars == <<regVars, netVars>>

Init == RegInit /\ NetInit

Search(n) == Building(n) /\ Searches(n) /\ OpenWindow /\ UNCHANGED regVars

\* The route leads to the first peer heard under the name asked for.
Resolve(n) ==
    /\ Building(n) /\ Searches(n) /\ WindowEnds
    /\ \/ \E i \in DOMAIN peers : IsFirst(i, devices[n].endpoint) /\ BuildFound(n, peers[i])
       \/ NobodyNamed(devices[n].endpoint) /\ BuildMissed(n)

Next ==
    \/ Configure /\ UNCHANGED netVars
    \/ \E n \in todo : Search(n) \/ Resolve(n)
    \/ Network /\ UNCHANGED regVars

Fairness ==
    /\ WF_vars(Configure /\ UNCHANGED netVars /\ phase # "reading")
    /\ WF_vars(\E n \in todo : Search(n) \/ Resolve(n))
    /\ WF_vars(Elapse /\ UNCHANGED regVars)
    /\ WF_vars(\E d \in Daemon, b \in BOOLEAN : Beacon(d, b) /\ UNCHANGED regVars)

Spec == Init /\ [][Next]_vars /\ Fairness

----------------------------------------------------------------------------
TypeOK == RegTypeOK /\ NetTypeOK

\* A route that was discovered leads to an address at which a daemon of the
\* identifier asked for was serving during that very search: a beacon never
\* runs ahead of its socket nor outlives it, over restarts on other ports.  A
\* beacon without a port (of a daemon behind a Unix socket) leads nowhere.
LeadsToServed(a, id) == a # NoValue /\ a.port # 0 => a \in listened /\ a.identifier = id
RouteWasServed ==
    [][\A n \in Name :
          Resolve(n) => LeadsToServed(routes'[n].addr, devices[n].endpoint)]_vars

\* A peer that announces throughout a search, and of which no beacon is lost,
\* is found, if the window is as long as two beacons can be apart.
Expected(id) == window >= Interval + Late /\ \E d \in steady : Peer[d].identifier = id
AliveIsFound ==
    [][\A n \in Name :
          Resolve(n) /\ Expected(devices[n].endpoint) => routes'[n].kind = "remote"]_vars

\* A process that starts gets through: however many peers it waits for, and
\* whatever they do, its file is refused or every device has a route.
BuildEnds == phase = "applying" ~> phase \in {"ready", "refused"}
=============================================================================
