----------------------------- MODULE Discovery -----------------------------
(***************************************************************************)
(* Discovery of peers by multicast (vbl-fxp discover.rs) between the fxpd  *)
(* daemons (vbl-cli main.rs fxpd_preparar, fxpd) and the listening window  *)
(* of one search.                                                          *)
(*                                                                         *)
(*   fxpd:    Serve --> Announce --> Beacon, Beacon, ...        Kill       *)
(*   search:  OpenWindow --> (beacons heard) --> window over               *)
(*                                                                         *)
(* A daemon may be killed and started again at any moment, on another      *)
(* port; datagrams are lost.  Between two searches the daemons run on, so  *)
(* a search finds them in any state they can be in.                        *)
(***************************************************************************)
EXTENDS Integers, Sequences, FiniteSets

CONSTANTS
    Daemon,     \* fxpd processes
    Peer,       \* [Daemon -> [identifier, host, serve]]: --announce, --serve
    Port,       \* ports the system hands out
    Interval,   \* DEFAULT_INTERVAL
    Late,       \* slack: how late the announcing thread may wake up
    Windows,    \* values discover_window may have
    Restarts    \* bound: daemons killed in one search

ASSUME DiscoveryAssumption ==
    /\ Peer \in [Daemon -> [identifier : STRING, host : STRING, serve : {"tcp", "tls", "unix"}]]
    /\ Port \subseteq Nat \ {0}
    /\ {Interval, Late, Restarts} \subseteq Nat /\ Interval > 0
    /\ Windows \subseteq Nat \ {0}

Down == [at |-> "down", port |-> 0, due |-> 0]

VARIABLES
    window,     \* discover_window
    remaining,  \* of the window, 0 when no search is under way
    daemon,     \* [Daemon -> [at, port, due]]: due counts down to the next beacon
    peers,      \* Seq of DiscoveredPeer
    kills,      \* bound
    steady,     \* history: daemons that announced since the window opened, none lost
    listened    \* history: the addresses served since then

netVars == <<window, remaining, daemon, peers, kills, steady, listened>>

Open == remaining > 0
Quiet == [d \in Daemon |-> Down]
Address(d, port) == [identifier |-> Peer[d].identifier, host |-> Peer[d].host, port |-> port]

\* Nobody outside the host listens behind a Unix socket.
Listens(d) == daemon[d].at # "down" /\ Peer[d].serve # "unix"
Listening == {Address(d, daemon[d].port) : d \in {e \in Daemon : Listens(e)}}

NetInit ==
    /\ window \in Windows /\ remaining = 0
    /\ daemon = Quiet /\ peers = <<>> /\ kills = 0
    /\ steady = {} /\ listened = {}

----------------------------------------------------------------------------
(* fxpd.                                                                   *)

PortsOf(d) == IF Peer[d].serve = "unix" THEN {0} ELSE Port

\* What a daemon may be doing when a search begins.
States(d) ==
    {Down} \cup [at : {"serving"}, port : PortsOf(d), due : {0}]
           \cup [at : {"announcing"}, port : PortsOf(d), due : 0 .. Interval + Late - 1]

\* serve_unix_peer, serve_tcp_peer_port: the port is known once it is bound.
Serve(d, port) ==
    /\ Open /\ daemon[d].at = "down" /\ port \in PortsOf(d)
    /\ daemon' = [daemon EXCEPT ![d] = [at |-> "serving", port |-> port, due |-> 0]]
    /\ listened' = listened \cup (IF Peer[d].serve = "unix" THEN {} ELSE {Address(d, port)})
    /\ UNCHANGED <<window, remaining, peers, kills, steady>>

\* Announcer::start; without it the peer goes on unannounced.
Announce(d) ==
    /\ Open /\ daemon[d].at = "serving"
    /\ daemon' = [daemon EXCEPT ![d].at = "announcing"]
    /\ UNCHANGED <<window, remaining, peers, kills, steady, listened>>

\* coletar_peers keeps the first beacon of an identifier and a source.
HeardAgain(d) == FALSE                                                   \* mutant
HeardFromHost(d) == \E i \in DOMAIN peers : peers[i].host = Peer[d].host   \* mutant
Heard(d) == \E i \in DOMAIN peers : /\ peers[i].identifier = Peer[d].identifier
                                    /\ peers[i].host = Peer[d].host

\* The port of the beacon was fixed when the announcer started.
BeaconPortStale(d) == CHOOSE p \in PortsOf(d) : TRUE                     \* mutant
BeaconPort(d) == daemon[d].port

Beacon(d, arrives) ==
    /\ Open /\ daemon[d].at = "announcing" /\ daemon[d].due = 0
    /\ \E slack \in 0 .. Late : daemon' = [daemon EXCEPT ![d].due = Interval + slack]
    /\ IF arrives /\ ~Heard(d)
       THEN peers' = Append(peers, Address(d, BeaconPort(d))) ELSE UNCHANGED peers
    /\ steady' = IF arrives THEN steady ELSE steady \ {d}
    /\ UNCHANGED <<window, remaining, kills, listened>>

\* A signal: nothing is dropped, the system closes the sockets.
Kill(d) ==
    /\ Open /\ daemon[d].at # "down" /\ kills < Restarts
    /\ kills' = kills + 1
    /\ daemon' = [daemon EXCEPT ![d] = Down] /\ steady' = steady \ {d}
    /\ UNCHANGED <<window, remaining, peers, listened>>

----------------------------------------------------------------------------
(* discover_peers.                                                         *)

OpenWindow ==
    /\ ~Open /\ remaining' = window
    /\ \E S \in [Daemon -> UNION {States(d) : d \in Daemon}] :
          /\ \A d \in Daemon : S[d] \in States(d)
          /\ daemon' = S
    /\ steady' = {d \in Daemon : daemon'[d].at = "announcing"}
    /\ listened' = Listening'
    /\ peers' = <<>> /\ kills' = 0 /\ UNCHANGED window

\* The listener hears every datagram up to its deadline, which comes whether
\* there is any traffic or not.
Elapse ==
    /\ remaining > 1 /\ remaining' = remaining - 1
    /\ \A d \in Daemon : daemon[d].at = "announcing" => daemon[d].due > 0
    /\ daemon' = [d \in Daemon |-> IF daemon[d].at = "announcing"
                                   THEN [daemon[d] EXCEPT !.due = @ - 1] ELSE daemon[d]]
    /\ UNCHANGED <<window, peers, kills, steady, listened>>

\* The search is over: the beacons of its last moment are in.
WindowEndsWithTraffic ==                                                 \* mutant
    /\ remaining = 1 /\ peers # <<>>
    /\ \A d \in Daemon : daemon[d].at = "announcing" => daemon[d].due > 0
    /\ remaining' = 0 /\ daemon' = Quiet /\ peers' = <<>> /\ kills' = 0
    /\ steady' = {} /\ listened' = {} /\ UNCHANGED window
WindowEnds ==
    /\ remaining = 1
    /\ \A d \in Daemon : daemon[d].at = "announcing" => daemon[d].due > 0
    /\ remaining' = 0 /\ daemon' = Quiet /\ peers' = <<>> /\ kills' = 0
    /\ steady' = {} /\ listened' = {} /\ UNCHANGED window

\* peers.find: the first peer of that name.
IsFirst(i, id) ==
    /\ i \in DOMAIN peers /\ peers[i].identifier = id
    /\ \A j \in 1 .. i - 1 : peers[j].identifier # id
NobodyNamed(id) == \A i \in DOMAIN peers : peers[i].identifier # id

Network ==
    \/ \E d \in Daemon : \/ \E port \in Port \cup {0} : Serve(d, port)
                         \/ Announce(d) \/ Kill(d)
                         \/ \E arrives \in BOOLEAN : Beacon(d, arrives)
    \/ Elapse

NetTypeOK ==
    /\ window \in Windows /\ remaining \in 0 .. window
    /\ DOMAIN daemon = Daemon
    /\ \A d \in Daemon : daemon[d] \in States(d) \cup [at : {"announcing"}, port : PortsOf(d), due : 0 .. Interval + Late]
    /\ kills \in 0 .. Restarts /\ steady \subseteq Daemon
    /\ peers \in Seq([identifier : STRING, host : STRING, port : Nat])
    /\ \A i, j \in DOMAIN peers :
          i # j => peers[i].identifier # peers[j].identifier \/ peers[i].host # peers[j].host
=============================================================================
