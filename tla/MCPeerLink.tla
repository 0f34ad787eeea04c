---------------------------- MODULE MCPeerLink ----------------------------
(* Every set of capabilities a peer may announce, against the sets the     *)
(* options of the bus ask for, and every combination of keys.              *)
EXTENDS PeerLink

V12 == {"LZ4", "DICT"}
V13 == V12 \cup {"ZSTD"}
V14 == V13 \cup {"ZSTD_V"}
Conf(psk, key, tls, announced, wanted, peer, mine, same) ==
    [psk |-> psk, key |-> key, tls |-> tls, announced |-> announced, wanted |-> wanted,
     peerTrains |-> peer, clientTrains |-> mine, sameZstd |-> same]
Keys == {Conf(psk, key, tls, A, A, TRUE, TRUE, TRUE) :
            psk \in BOOLEAN, key \in {"none", "right", "wrong"}, tls \in BOOLEAN,
            A \in {{}, {"LZ4", "BATCH"}, V14}}
Codings == {Conf(FALSE, "none", FALSE, A, W, peer, mine, same) :
               A \in {{"ZSTD_V"}, {"DICT"}, V13, V14}, W \in {V12, V13, V14},
               peer \in BOOLEAN, mine \in BOOLEAN, same \in BOOLEAN}
MCConfigs == Keys \cup {c \in Codings : c.sameZstd => c.peerTrains = c.clientTrains}
=============================================================================
