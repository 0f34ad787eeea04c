------------------------------ MODULE PeerLink ------------------------------
(***************************************************************************)
(* Requests of the FXP bus to one peer: the client (ensure_remote and      *)
(* request_remote of bus.rs, Connection of transport.rs) against the       *)
(* threads of the peer (serve_connection and dispatch of peer.rs), one per *)
(* connection.                                                             *)
(*                                                                         *)
(*   idle --Ask--> connect --> [challenge --> auth] --> [caps --> [hello   *)
(*   --> [sync]]] --> ready --Request--> answer --> idle                   *)
(*                                                                         *)
(* The client waits for one frame at a time.  A frame carries its opcode,  *)
(* its sequence number, the codec of its body and, if it is about them,    *)
(* capabilities.  Work is numbered like the requests of the bus; frames of *)
(* the handshake have numbers of their own, from 1 in each connection.     *)
(* Timing is "in time" or Timeout.  The peer's bus is behind a mutex.      *)
(***************************************************************************)
EXTENDS Naturals, Sequences

CONSTANTS
    Configs,    \* how the two ends are configured, see Config
    Calls,      \* bound: number of requests
    Stops       \* bound: how often the peer's process stops and starts again

Cap == {"LZ4", "DICT", "ZSTD", "ZSTD_V", "BATCH"}
Dict == {"none", "lz4_dict", "zstd_dict", "zstd_dict_v"}
Codec == {"plain", "lz4"} \cup (Dict \ {"none"})
Work == {"READ", "READ_BATCH", "ACT"}
Phase == {"idle", "connect", "challenge", "auth", "caps", "hello", "sync", "ready", "answer"}
Outcome == {"new", "asked", "answered", "lost"}

\* psk, key: the peer asks for a key, the client has the right, a wrong or
\* no key.  tls: sessions may resume with early data.  A dictionary trains or
\* not on the peer's device names; with equal versions of zstd it comes out
\* the same on both ends.
Config == [psk : BOOLEAN, key : {"none", "right", "wrong"}, tls : BOOLEAN,
           announced : SUBSET Cap, wanted : SUBSET Cap,
           peerTrains : BOOLEAN, clientTrains : BOOLEAN, sameZstd : BOOLEAN]

\* wanted_caps asks for DICT with ZSTD and for both with ZSTD_V.
WantedClosed(W) ==
    /\ "ZSTD_V" \in W => "ZSTD" \in W
    /\ "ZSTD" \in W => "DICT" \in W

ASSUME LinkAssumption ==
    /\ Configs \in SUBSET Config
    /\ \A c \in Configs : /\ WantedClosed(c.wanted)
                          /\ c.sameZstd => c.peerTrains = c.clientTrains
    /\ Calls \in Nat /\ Stops \in Nat

VARIABLES
    config,       \* the configuration of this behaviour
    link,         \* the connection the client has, or is opening
    abandoned,    \* connections the client dropped with frames on their way
    phase,        \* what the client does
    client,       \* the client's end of link: caps, dict, seq, request, degraded
    asked,        \* the number of the last request
    outcome,      \* what the client knows of each request
    executed,     \* requests the peer carried out, in order
    stops,        \* how often the peer has stopped
    disturbed     \* history: a connection failed, timed out or the peer stopped
vars == <<config, link, abandoned, phase, client, asked, outcome, executed, stops, disturbed>>
callVars == <<asked, outcome, executed>>
faultVars == <<stops, disturbed>>

Call == 1 .. Calls
NoClient == [caps |-> {}, dict |-> "none", seq |-> 0, op |-> "READ", degraded |-> FALSE]
NoLink == [open |-> FALSE, alive |-> FALSE, toServer |-> <<>>, toClient |-> <<>>,
           authed |-> FALSE, caps |-> {}, dict |-> "none", dictReady |-> FALSE,
           trained |-> FALSE]

Frame(op, seq, codec, C) == [op |-> op, seq |-> seq, codec |-> codec, caps |-> C]
Plain(op, seq) == Frame(op, seq, "plain", {})
CapsFrame == Frame("CAPS", 1, "plain", config.wanted)
ReplyOf(op) == CASE op = "READ" -> "READ_OK" [] op = "ACT" -> "ACT_ACK"
                 [] op = "READ_BATCH" -> "READ_BATCH_OK"

\* Codecs 0 and 1 are always read; a dictionary codec only with the
\* dictionary of that codec, and trained bytes must be equal.
Decodable(codec, dict) ==
    \/ codec \in {"plain", "lz4"}
    \/ codec = dict /\ (dict = "lz4_dict" \/ config.sameZstd)

\* The codecs a frame may leave in: small frames and those that do not shrink
\* stay plain.
Codecs(dict, C) ==
    {"plain"} \cup (IF dict # "none" THEN {dict} ELSE IF "LZ4" \in C THEN {"lz4"} ELSE {})

Init ==
    /\ config \in Configs
    /\ link = NoLink /\ abandoned = {}
    /\ phase = "idle" /\ client = NoClient
    /\ asked = 0 /\ outcome = [c \in Call |-> "new"] /\ executed = <<>>
    /\ stops = 0 /\ disturbed = FALSE

(***************************************************************************)
(* The client: a request, and the way to an open connection.               *)
(***************************************************************************)
\* A new thread of the peer: with a key it speaks first.  Early data carries
\* CAPS, only if the client has no key.
Opened(early) ==
    [NoLink EXCEPT !.open = TRUE, !.alive = TRUE,
        !.toServer = IF early THEN <<CapsFrame>> ELSE <<>>,
        !.toClient = IF config.psk THEN <<Plain("AUTH_CHALLENGE", 0)>> ELSE <<>>,
        !.authed = ~config.psk]
EarlyChoices ==
    IF config.tls /\ config.key = "none" /\ config.wanted # {} THEN BOOLEAN ELSE {FALSE}

Sent(l, frame) == [l EXCEPT !.toServer = Append(@, frame)]
Received(l) == [l EXCEPT !.toClient = Tail(@)]

\* The thread of a dropped connection still serves what has arrived.
Dropped(l) ==
    IF l.alive /\ l.toServer # <<>> THEN {[l EXCEPT !.open = FALSE, !.toClient = <<>>]} ELSE {}
Drop ==
    /\ link' = NoLink /\ client' = NoClient /\ abandoned' = abandoned \cup Dropped(link)

Settle(result) ==
    /\ outcome' = [outcome EXCEPT ![asked] = result]
    /\ phase' = "idle"
    /\ UNCHANGED <<asked, executed>>

Ask ==
    /\ phase = "idle" /\ asked < Calls
    /\ asked' = asked + 1
    /\ outcome' = [outcome EXCEPT ![asked + 1] = "asked"]
    /\ phase' = IF link.open THEN "ready" ELSE "connect"
    /\ UNCHANGED <<config, link, abandoned, client, executed, faultVars>>

\* mutant: CAPS that left as early data is sent again
NegotiateAgain(l) ==
    IF config.wanted = {}
    THEN phase' = "ready" /\ link' = l /\ client' = NoClient
    ELSE phase' = "caps" /\ client' = [NoClient EXCEPT !.seq = 1] /\ link' = Sent(l, CapsFrame)
\* After authentication: CAPS, unless nothing is wanted or it left early.
Negotiate(l) ==
    IF config.wanted = {}
    THEN phase' = "ready" /\ link' = l /\ client' = NoClient
    ELSE /\ phase' = "caps" /\ client' = [NoClient EXCEPT !.seq = 1]
         /\ link' = IF l.toServer # <<>> THEN l ELSE Sent(l, CapsFrame)

Connect ==
    /\ phase = "connect"
    /\ \E early \in EarlyChoices :
          IF config.key = "none" THEN Negotiate(Opened(early))
          ELSE phase' = "challenge" /\ link' = Opened(early) /\ client' = NoClient
    /\ UNCHANGED <<config, abandoned, callVars, faultVars>>

ConnectFails ==
    /\ phase = "connect"
    /\ Settle("lost")
    /\ disturbed' = TRUE
    /\ UNCHANGED <<config, link, abandoned, client, stops>>

ExpectedOp ==
    CASE phase = "challenge" -> "AUTH_CHALLENGE" [] phase = "auth" -> "AUTH_OK"
      [] phase = "caps" -> "CAPS_OK" [] phase = "hello" -> "HELLO"
      [] phase = "sync" -> "DICT_SYNC_OK" [] phase = "answer" -> ReplyOf(client.op)
ExpectedSeq ==
    CASE phase \in {"challenge", "auth"} -> 0 [] phase = "answer" -> asked [] OTHER -> client.seq
Waiting == phase \notin {"idle", "connect", "ready"}

\* mutant: the sequence number is not compared
CorrelatedAny(frame) == Decodable(frame.codec, client.dict)
\* receive and the check of the sequence number.
Correlated(frame) == Decodable(frame.codec, client.dict) /\ frame.seq = ExpectedSeq
Arrived == Waiting /\ link.toClient # <<>> /\ Correlated(Head(link.toClient))
Expected == Arrived /\ Head(link.toClient).op = ExpectedOp
Await(stage) == phase = stage /\ Expected

\* End of the stream, an unreadable frame, one of another request or opcode.
Broken ==
    /\ Waiting
    /\ IF link.toClient = <<>> THEN ~link.alive
       ELSE IF phase = "answer" THEN ~Arrived ELSE ~Expected

TakeChallenge ==
    /\ Await("challenge")
    /\ link' = Sent(Received(link), Plain("AUTH_RESPONSE", 0))
    /\ phase' = "auth"
    /\ UNCHANGED <<config, abandoned, client, callVars, faultVars>>

TakeAuthOk ==
    /\ Await("auth")
    /\ Negotiate(Received(link))
    /\ UNCHANGED <<config, abandoned, callVars, faultVars>>

\* With DICT granted a HELLO follows; it knows only LZ4 so far.
TakeCapsOk ==
    /\ Await("caps")
    /\ LET granted == Head(link.toClient).caps IN
       IF "DICT" \in granted
       THEN /\ \E codec \in Codecs("none", granted) :
                  link' = Sent(Received(link), Frame("HELLO", 2, codec, {}))
            /\ client' = [client EXCEPT !.caps = granted, !.seq = 2]
            /\ phase' = "hello"
       ELSE /\ link' = Received(link)
            /\ client' = [client EXCEPT !.caps = granted]
            /\ phase' = "ready"
    /\ UNCHANGED <<config, abandoned, callVars, faultVars>>

Install(dict) ==
    /\ link' = Received(link)
    /\ client' = [client EXCEPT !.dict = dict]
    /\ phase' = "ready"
    /\ UNCHANGED <<abandoned, callVars, faultVars>>

\* The client installs the strongest dictionary granted; ZSTD_V is verified
\* with DICT_SYNC first, and ZSTD without a dictionary of its own is refused.
TakeHello ==
    /\ Await("hello")
    /\ IF "ZSTD_V" \in client.caps /\ config.clientTrains
       THEN /\ link' = Sent(Received(link), Plain("DICT_SYNC", 3))
            /\ client' = [client EXCEPT !.seq = 3]
            /\ phase' = "sync"
            /\ UNCHANGED <<abandoned, callVars, faultVars>>
       ELSE IF "ZSTD_V" \notin client.caps /\ "ZSTD" \in client.caps
       THEN IF config.clientTrains THEN Install("zstd_dict")
            ELSE Drop /\ Settle("lost") /\ UNCHANGED faultVars
       ELSE Install("lz4_dict")
    /\ UNCHANGED config

\* The hashes are equal exactly if the trained bytes are.
SyncedDict == IF config.sameZstd THEN "zstd_dict_v" ELSE "lz4_dict"
TakeDictSyncOk ==
    /\ Await("sync")
    /\ Install(SyncedDict)
    /\ UNCHANGED config

\* Reads go in a batch only if the peer granted it.
Requests == {"READ", "ACT"} \cup (IF "BATCH" \in client.caps THEN {"READ_BATCH"} ELSE {})
Request ==
    /\ phase = "ready"
    /\ \E op \in Requests, codec \in Codecs(client.dict, client.caps) :
          /\ link' = Sent(link, Frame(op, asked, codec, {}))
          /\ client' = [client EXCEPT !.op = op]
    /\ phase' = "answer"
    /\ UNCHANGED <<config, abandoned, callVars, faultVars>>

TakeAnswer ==
    /\ Await("answer")
    /\ link' = Received(link)
    /\ Settle("answered")
    /\ UNCHANGED <<config, abandoned, client, faultVars>>

\* The right number on a frame that is no answer: the connection stays.
TakeWrongBody ==
    /\ phase = "answer" /\ Arrived /\ ~Expected
    /\ link' = Received(link)
    /\ Settle("lost")
    /\ UNCHANGED <<config, abandoned, client, faultVars>>

\* mutant: the connection is kept after a timeout
TimeoutKept ==
    /\ Waiting
    /\ IF phase = "answer" THEN UNCHANGED <<link, client, abandoned>> ELSE Drop
    /\ Settle("lost")
    /\ disturbed' = TRUE
    /\ UNCHANGED <<config, stops>>

\* A wait that ends without the frame in time, in any phase.
Timeout ==
    /\ Waiting
    /\ Drop /\ Settle("lost")
    /\ disturbed' = TRUE
    /\ UNCHANGED <<config, stops>>

\* A failure outside of CAPS ends the connection and the request.
Fail ==
    /\ Broken /\ phase # "caps"
    /\ Drop /\ Settle("lost")
    /\ UNCHANGED <<config, faultVars>>

\* A failure of CAPS is taken for a peer of version 1.0: a second connection,
\* not authenticated and without negotiation, but possibly with early data.
Degrade ==
    /\ Broken /\ phase = "caps"
    /\ \E early \in EarlyChoices : link' = Opened(early)
    /\ client' = [NoClient EXCEPT !.degraded = TRUE]
    /\ phase' = "ready"
    /\ abandoned' = abandoned \cup Dropped(link)
    /\ UNCHANGED <<config, callVars, faultVars>>
DegradeFails ==
    /\ Broken /\ phase = "caps"
    /\ Drop /\ Settle("lost")
    /\ disturbed' = TRUE
    /\ UNCHANGED <<config, stops>>

(***************************************************************************)
(* The peer: what a thread makes of the next frame of its connection l.    *)
(* Each operator gives the states the connection may be in afterwards.     *)
(***************************************************************************)
Next1(l) == Head(l.toServer)
ServerDict(l) == IF l.dictReady THEN l.dict ELSE "none"
Readable(l) == Decodable(Next1(l).codec, ServerDict(l))
Closed(l) == [l EXCEPT !.alive = FALSE, !.toServer = <<>>]
Silent(l) == [l EXCEPT !.toServer = Tail(@)]
Replied(l, frame) ==
    [Silent(l) EXCEPT !.toClient = IF l.open THEN Append(@, frame) ELSE @]

\* mutant: the response is not verified
AuthHandledUnverified(l) ==
    IF Next1(l).op = "AUTH_RESPONSE"
    THEN {Replied([l EXCEPT !.authed = TRUE], Plain("AUTH_OK", Next1(l).seq))}
    ELSE {Closed(l)}

\* Before authentication anything but the right response closes.
AuthHandled(l) ==
    IF Next1(l).op = "AUTH_RESPONSE" /\ config.key = "right"
    THEN {Replied([l EXCEPT !.authed = TRUE], Plain("AUTH_OK", Next1(l).seq))}
    ELSE {Closed(l)}

\* The zstd capabilities need DICT and a dictionary that trains.
Granted(asking) ==
    LET common == asking \cap config.announced
    IN  IF "DICT" \in common /\ config.peerTrains THEN common
        ELSE common \ {"ZSTD", "ZSTD_V"}
GrantedDict(C, old) ==
    IF "ZSTD_V" \in C THEN "lz4_dict" ELSE IF "ZSTD" \in C THEN "zstd_dict"
    ELSE IF "DICT" \in C /\ old = "none" THEN "lz4_dict" ELSE old
\* mutant: CAPS_OK carries what was common before the dictionary was tried
CapsHandledUntrimmed(l) ==
    LET granted == Granted(Next1(l).caps)
    IN  {Replied([l EXCEPT !.caps = granted, !.dict = GrantedDict(granted, @),
                           !.trained = @ \/ "ZSTD_V" \in granted],
                 Frame("CAPS_OK", Next1(l).seq, "plain", Next1(l).caps \cap config.announced))}
CapsHandled(l) ==
    LET granted == Granted(Next1(l).caps)
    IN  {Replied([l EXCEPT !.caps = granted, !.dict = GrantedDict(granted, @),
                           !.trained = @ \/ "ZSTD_V" \in granted],
                 Frame("CAPS_OK", Next1(l).seq, "plain", granted))}

\* mutant: the dictionary is never put to use
HelloHandledUnready(l) ==
    {Replied(l, Frame("HELLO", Next1(l).seq, codec, {})) : codec \in Codecs("none", l.caps)}
\* The HELLO leaves without the dictionary, which is used from then on.
HelloHandled(l) ==
    {Replied([l EXCEPT !.dictReady = @ \/ l.dict # "none"], Frame("HELLO", Next1(l).seq, codec, {})) :
        codec \in Codecs("none", l.caps)}

\* mutant: the hashes are not compared
DictSyncHandledBlind(l) ==
    IF ~l.trained THEN {Silent(l)}
    ELSE {Replied([l EXCEPT !.dict = "zstd_dict_v"], Plain("DICT_SYNC_OK", Next1(l).seq))}
DictSyncHandled(l) ==
    IF ~l.trained THEN {Silent(l)}
    ELSE {Replied([l EXCEPT !.dict = IF config.sameZstd THEN "zstd_dict_v" ELSE @],
                  Plain("DICT_SYNC_OK", Next1(l).seq))}

\* READ, READ_BATCH and ACT run on the peer's bus.
Served(l) == Next1(l).op = "READ_BATCH" => "BATCH" \in l.caps
WorkHandled(l) ==
    IF ~Served(l) THEN {Silent(l)}
    ELSE {Replied(l, Frame(ReplyOf(Next1(l).op), Next1(l).seq, codec, {})) :
             codec \in Codecs(ServerDict(l), l.caps)}

Executes(l) == l.authed /\ Readable(l) /\ Next1(l).op \in Work /\ Served(l)
Handled(l) ==
    CASE ~Readable(l) -> {Closed(l)}
      [] Readable(l) /\ ~l.authed -> AuthHandled(l)
      [] Readable(l) /\ l.authed ->
            CASE Next1(l).op = "CAPS" -> CapsHandled(l)
              [] Next1(l).op = "HELLO" -> HelloHandled(l)
              [] Next1(l).op = "DICT_SYNC" -> DictSyncHandled(l)
              [] Next1(l).op \in Work -> WorkHandled(l)

Execute(l) == executed' = IF Executes(l) THEN Append(executed, Next1(l).seq) ELSE executed
ServerUnchanged == UNCHANGED <<config, phase, client, asked, outcome, faultVars>>

Serve ==
    /\ link.alive /\ link.toServer # <<>>
    /\ link' \in Handled(link)
    /\ Execute(link)
    /\ UNCHANGED abandoned /\ ServerUnchanged

ServeAbandoned ==
    /\ \E l \in abandoned :
          /\ \E m \in Handled(l) :
                abandoned' = (abandoned \ {l})
                             \cup (IF m.alive /\ m.toServer # <<>> THEN {m} ELSE {})
          /\ Execute(l)
    /\ UNCHANGED link /\ ServerUnchanged

\* The peer's process stops, in the middle of anything, and starts again.
Stop ==
    /\ stops < Stops
    /\ stops' = stops + 1
    /\ disturbed' = TRUE
    /\ link' = IF link.open THEN Closed(link) ELSE link
    /\ abandoned' = {}
    /\ UNCHANGED <<config, phase, client, callVars>>

Next ==
    \/ Ask \/ Connect \/ ConnectFails
    \/ TakeChallenge \/ TakeAuthOk \/ TakeCapsOk \/ TakeHello \/ TakeDictSyncOk
    \/ Request \/ TakeAnswer \/ TakeWrongBody
    \/ Timeout \/ Fail \/ Degrade \/ DegradeFails
    \/ Serve \/ ServeAbandoned \/ Stop
Spec == Init /\ [][Next]_vars

(***************************************************************************)
(* Properties.                                                             *)
(***************************************************************************)
Frames == [op : Work \cup {"AUTH_CHALLENGE", "AUTH_RESPONSE", "AUTH_OK", "CAPS", "CAPS_OK",
                "HELLO", "DICT_SYNC", "DICT_SYNC_OK", "READ_OK", "READ_BATCH_OK", "ACT_ACK"},
           seq : Nat, codec : Codec, caps : SUBSET Cap]
Link == [open : BOOLEAN, alive : BOOLEAN, toServer : Seq(Frames), toClient : Seq(Frames),
         authed : BOOLEAN, caps : SUBSET Cap, dict : Dict, dictReady : BOOLEAN,
         trained : BOOLEAN]

\* The type invariant; the client never has two frames on their way, which
\* the peer's read_frame relies on (a second frame of one read is decoded
\* without the dictionary, transport.rs:721).
TypeOK ==
    /\ config \in Configs /\ link \in Link /\ abandoned \subseteq Link
    /\ phase \in Phase /\ outcome \in [Call -> Outcome] /\ executed \in Seq(Call)
    /\ client \in [caps : SUBSET Cap, dict : Dict, seq : 0 .. 3, op : Work, degraded : BOOLEAN]
    /\ asked \in 0 .. Calls /\ stops \in 0 .. Stops /\ disturbed \in BOOLEAN
    /\ client.degraded \/ Len(link.toServer) <= 1

\* A peer with a key carries out nothing for a client without it, the
\* second connection of a degradation included (4.6: fail closed).
KeylessNeverServed == config.psk /\ config.key # "right" => executed = <<>>

Negotiated == link.open /\ link.alive /\ ~client.degraded /\ phase \in {"idle", "ready", "answer"}

\* Once a connection is in use both ends hold the same capabilities, none
\* that was not asked for and announced ("nunca presumidos", peer.rs:15).
GrantsAgree ==
    Negotiated => /\ client.caps = link.caps
                  /\ client.caps \subseteq config.wanted \cap config.announced
                  /\ client.caps \cap {"ZSTD", "ZSTD_V"} # {} => config.peerTrains

\* Each end can read the frame that is next for it, through every change of
\* dictionary.  Trained bytes that were not verified (codec 3) may differ.
CodecsAgree ==
    LET Unverified(frame) == frame.codec = "zstd_dict" /\ ~config.sameZstd IN
    /\ link.alive /\ link.toServer # <<>> => Readable(link) \/ Unverified(Next1(link))
    /\ link.toClient # <<>> => \/ Decodable(Head(link.toClient).codec, client.dict)
                               \/ Unverified(Head(link.toClient))

\* A connection that is kept for the next request has nothing on its way: no
\* late answer is left for it (transport.rs:336, "nunca ack trocado").
InStep ==
    (link.open /\ link.authed /\ ~client.degraded /\ phase \in {"idle", "ready"})
        => link.toServer = <<>> /\ link.toClient = <<>>

\* What both ends hold of a connection agrees: capabilities, dictionaries, frames.
EndsAgree == GrantsAgree /\ CodecsAgree /\ InStep

\* Ends that fit together: one key, or none; equal zstd where unverified.
Compatible ==
    /\ config.key = (IF config.psk THEN "right" ELSE "none")
    /\ \/ config.sameZstd
       \/ LET granted == Granted(config.wanted) IN "ZSTD" \in granted => "ZSTD_V" \in granted

\* Between ends that fit together a request fails only if a connection
\* failed, time ran out or the peer stopped: no handshake defeats itself,
\* and the client never waits for a frame that is not coming.
HandshakeNeverFails ==
    Compatible /\ ~disturbed =>
        /\ \A c \in Call : outcome[c] # "lost"
        /\ ~client.degraded
        /\ Waiting => link.toServer # <<>> \/ link.toClient # <<>>

\* The link carries out each request at most once and answers none that was
\* not, through lost answers, degradation and restarts of the peer (5).
Remote == INSTANCE RemoteCall
ImplementsRemoteCall == Remote!Spec
=============================================================================
